---------------------------- MODULE ScheduledRuns ----------------------------
(***************************************************************************)
(* The scheduler of scheduledjobs/ for one schedule: the definition and    *)
(* its cursor (balda_scheduled_jobs), the ledger of runs                   *)
(* (balda_schedule_runs), the loop that admits, claims, publishes and      *)
(* settles a run, edits from Backoffice, manual runs, and the result of an *)
(* execution coming back from the session actor.  A recurring slot goes    *)
(* through the ledger; an internal one-shot job does not.  Every step is   *)
(* one statement or transaction of the store, or one publication.          *)
(*                                                                         *)
(* Time is counted in ticks: the cron expression is due at every tick, and *)
(* a retry of the definition is one tick away.  Leases and delays of runs  *)
(* last for any time.                                                      *)
(***************************************************************************)
EXTENDS Naturals

CONSTANTS
    ManualKeys,   \* request keys of Run now
    NoRun, NoJob,
    MaxRetries,   \* defaultSchedulerMaxRetries
    MaxTime,      \* bound: ticks
    MaxEdits,     \* bound: requests from Backoffice
    MaxFailures   \* bound: store errors and crashes

ASSUME ScheduleAssumption ==
    /\ MaxRetries \in Nat /\ MaxTime \in Nat /\ MaxEdits \in Nat
    /\ MaxFailures \in Nat
    /\ ManualKeys \cap Nat = {}

Slots == 1 .. MaxTime + 1
Keys == Slots \cup ManualKeys

Jobs == [once : BOOLEAN, version : 1 .. MaxEdits + 1, enabled : BOOLEAN,
         deleted : BOOLEAN, status : {"active", "paused"}, slot : Slots,
         last : 0 .. MaxTime + 1, retries : Nat]

(* A row of the ledger; def and last are the snapshot's, and its slot is   *)
(* the key of a cron run.                                                  *)
Runs == [state : {"pending", "publishing", "retrying", "dispatched",
                  "failed", "canceled"},
         version : Nat, def : 1 .. MaxEdits + 1, last : 0 .. MaxTime + 1,
         attempts : 0 .. MaxRetries + 1, waiting : BOOLEAN, alias : BOOLEAN]

Requests == [kind : {"edit", "enable", "disable", "delete", "run"},
             version : 1 .. MaxEdits + 1, slot : Slots, enabled : BOOLEAN]

(* The sentinels are no rows, definitions or requests. *)
ASSUME SentinelAssumption ==
    /\ NoRun \notin Runs
    /\ NoJob \notin Jobs /\ NoJob \notin Requests

VARIABLES
    now,        \* ticks so far
    job,        \* the definition with its cursor
    runs,       \* key -> row of the ledger or NoRun
    pc,         \* where the loop is
    todo,       \* what its round has still to look at
    sel,        \* the definition it read
    key,        \* the key it works on
    cur,        \* the run it read
    request,    \* what a Backoffice request read and computed, or NoJob
    rec,        \* slot -> what RecordExecution read, or NoJob
    executed,   \* slots RecordExecution has been called for
    published,  \* <<key, definition version>> of every command published
    retired,    \* history: slots whose run was pending when it was replaced
    late,       \* history: the ones published after that
    edits, failures

schedVars == <<pc, todo, sel, key, cur>>
histVars == <<published, retired, late>>
execVars == <<rec, executed>>
boundVars == <<edits, failures>>
vars == <<now, job, runs, schedVars, request, execVars, histVars, boundVars>>

GoTo(p) ==
    /\ pc' = p
    /\ UNCHANGED <<todo, sel, key>>

(* Back to the loop, which keeps nothing of what it read. *)
Return ==
    /\ pc' = "idle"
    /\ sel' = NoJob
    /\ key' = NoRun
    /\ cur' = NoRun
    /\ UNCHANGED todo

Due == /\ job.status = "active" /\ job.enabled /\ ~job.deleted
       /\ job.slot <= now
       /\ job.last # job.slot

(* The condition of updateScheduledJobRuntime. *)
Selected(def, slot, last) ==
    /\ job.version = def /\ job.slot = slot /\ job.last = last
    /\ job.enabled /\ ~job.deleted

IsManual(k) == k \in ManualKeys

(* nextRunAtFromSpec *)
NextSlot == now + 1

-----------------------------------------------------------------------------
(* The scheduler loop: one goroutine, whatever it does next. *)

Ready(k) ==
    /\ runs[k] # NoRun
    /\ runs[k].state \in {"pending", "retrying", "publishing"}
    /\ ~runs[k].waiting

(* A round: dispatchDue lists the due job and processPendingRuns the runs  *)
(* that are ready; NoJob stands for the job.                               *)
StartRound ==
    LET work == {k \in Keys : Ready(k)} \cup (IF Due THEN {NoJob} ELSE {}) IN
    /\ pc = "idle" /\ todo = {} /\ work # {}
    /\ todo' = work
    /\ UNCHANGED <<now, job, runs, pc, sel, key, cur, request, execVars,
                   histVars, boundVars>>

(* dispatchJob of a recurring job: the run of the slot, if there is one,   *)
(* or the definition to admit one from.                                    *)
DispatchJob ==
    /\ pc = "idle" /\ NoJob \in todo
    /\ ~job.once
    /\ todo' = todo \ {NoJob}
    /\ IF Due
       THEN /\ key' = job.slot
            /\ cur' = runs[job.slot]
            /\ IF runs[job.slot] = NoRun
               THEN /\ sel' = job
                    /\ pc' = "admit"
               ELSE /\ pc' = "process"
                    /\ UNCHANGED sel
       ELSE UNCHANGED <<pc, sel, key, cur>>
    /\ UNCHANGED <<now, job, runs, request, execVars, histVars, boundVars>>

(* processPendingRuns goes on to the next run of its list. *)
NextPending(k) ==
    /\ pc = "idle" /\ NoJob \notin todo /\ k \in todo
    /\ todo' = todo \ {k}
    /\ key' = k
    /\ cur' = runs[k]
    /\ pc' = "process"
    /\ UNCHANGED <<now, job, runs, sel, request, execVars, histVars, boundVars>>

NewRun(def, last, missing) ==
    [state |-> IF missing THEN "failed" ELSE "pending", version |-> 1,
     def |-> def, last |-> last, attempts |-> IF missing THEN 1 ELSE 0,
     waiting |-> FALSE, alias |-> missing]

(* CreateCron: the ledger after the conditional insert. *)
CreateCron(missing) ==
    LET j == sel IN
    IF /\ job.version = j.version /\ job.slot = j.slot
       /\ job.enabled /\ ~job.deleted /\ job.status = "active"
       /\ runs[j.slot] = NoRun
    THEN [runs EXCEPT ![j.slot] = NewRun(j.version, j.last, missing)]
    ELSE runs

(* The rest of dispatchRecurringRun: the report destination is there, is   *)
(* missing, or cannot be looked up.                                        *)
AdmitRun ==
    /\ pc = "admit"
    /\ \/ /\ GoTo("markfail")
          /\ UNCHANGED <<runs, cur>>
       \/ \E missing \in BOOLEAN :
             /\ runs' = CreateCron(missing)
             /\ IF runs'[key] = NoRun
                THEN Return
                ELSE /\ cur' = runs'[key]
                     /\ GoTo("process")
    /\ UNCHANGED <<now, job, request, execVars, histVars, boundVars>>

(* Mutant: a manual run of the definition moves the cursor too. *)
MutSettleCronRun ==
    job' = IF job.version = cur.def
           THEN [job EXCEPT !.last = job.slot, !.retries = 0,
                            !.status = "active", !.slot = NextSlot]
           ELSE job

(* settleCronRun and settleMissingAliasCronRun: the cursor goes on, unless *)
(* the definition or the cursor has changed.                               *)
SettleCronRun ==
    job' = IF ~IsManual(key) /\ Selected(cur.def, key, cur.last)
           THEN [job EXCEPT !.last = key, !.retries = 0,
                            !.status = "active", !.slot = NextSlot]
           ELSE job

(* Mutant: a failed run only says so in the ledger. *)
MutPauseFailedCronRun == UNCHANGED job

(* pauseFailedCronRun *)
PauseFailedCronRun ==
    job' = IF ~IsManual(key) /\ Selected(cur.def, key, cur.last)
           THEN [job EXCEPT !.status = "paused", !.retries = cur.attempts]
           ELSE job

(* processRun of a run that is over, or not ready. *)
ProcessSettled ==
    /\ pc = "process"
    /\ \/ /\ \/ cur.state = "dispatched"
             \/ cur.state = "failed" /\ cur.alias
          /\ SettleCronRun
       \/ /\ cur.state = "failed" /\ ~cur.alias
          /\ PauseFailedCronRun
       \/ /\ cur.state = "canceled" \/ cur.waiting
          /\ UNCHANGED job
    /\ Return
    /\ UNCHANGED <<now, runs, request, execVars, histVars, boundVars>>

Open ==
    /\ pc = "process"
    /\ cur.state \in {"pending", "retrying", "publishing"}
    /\ ~cur.waiting

(* Mutant: the claim does not look at the definition. *)
MutClaimable == runs[key].version = cur.version

(* Mutant: a claim is never taken over. *)
MutClaimOnce ==
    /\ cur.state # "publishing"
    /\ job.enabled /\ ~job.deleted /\ job.status = "active"
    /\ job.version = cur.def /\ job.slot = key /\ job.last # key
    /\ runs[key].version = cur.version

(* ClaimCron: an expired claim is taken over whatever happened since; any  *)
(* other run must still be the one the definition selects.                 *)
Claimable ==
    /\ cur.state # "publishing" =>
         /\ job.enabled /\ ~job.deleted /\ job.status = "active"
         /\ job.version = cur.def /\ job.slot = key
         /\ job.last # key
    /\ runs[key].version = cur.version

(* processRun of a run that is ready, up to its claim. *)
ClaimCron ==
    /\ Open /\ ~IsManual(key)
    /\ IF Claimable
       THEN LET r == [cur EXCEPT !.state = "publishing", !.waiting = TRUE,
                                 !.version = @ + 1]
            IN  /\ runs' = [runs EXCEPT ![key] = r]
                /\ cur' = r
                /\ GoTo("publish")
       ELSE /\ GoTo("check")
            /\ UNCHANGED <<runs, cur>>
    /\ UNCHANGED <<now, job, request, execVars, histVars, boundVars>>

ProcessManual ==
    /\ Open /\ IsManual(key)
    /\ GoTo("publish")
    /\ UNCHANGED <<now, job, runs, cur, request, execVars, histVars, boundVars>>

(* Update of the ledger, refused when the version has moved. *)
Update(r) ==
    runs' = IF runs[key].version = cur.version
            THEN [runs EXCEPT ![key] = [r EXCEPT !.version = @ + 1]]
            ELSE runs

(* The claim was refused: the run of a selection that changed is canceled. *)
CancelRun ==
    /\ pc = "check"
    /\ IF \/ job.version # cur.def \/ job.slot # key
          \/ ~job.enabled \/ job.deleted \/ job.status # "active"
          \/ job.last = key
       THEN Update([cur EXCEPT !.state = "canceled", !.waiting = FALSE])
       ELSE UNCHANGED runs
    /\ Return
    /\ UNCHANGED <<now, job, request, execVars, histVars, boundVars>>

Sends(k, def) ==
    /\ published' = published \cup {<<k, def>>}
    /\ late' = IF k \in retired THEN late \cup {k} ELSE late
    /\ UNCHANGED retired

(* Mutant: the command is made from the definition as it is now. *)
MutCommand(r) == job.version

(* The command is made from the snapshot of the run. *)
Command(r) == r.def

(* The destination and the publication of the command.  A publication that *)
(* fails may have reached the broker; no command at all can be made from a *)
(* snapshot that names no valid destination.                               *)
Publish ==
    /\ pc = "publish"
    /\ \/ Sends(key, Command(cur)) /\ GoTo("record")
       \/ Sends(key, Command(cur)) /\ GoTo("fail")
       \/ UNCHANGED histVars /\ (GoTo("fail") \/ GoTo("reject"))
    /\ UNCHANGED <<now, job, runs, cur, request, execVars, boundVars>>

RecordDispatched ==
    /\ pc = "record"
    /\ LET r == [cur EXCEPT !.state = "dispatched", !.waiting = FALSE,
                            !.attempts = @ + 1]
       IN  /\ Update(r)
           /\ IF runs[key].version = cur.version
              THEN GoTo("process") /\ cur' = r
              ELSE Return
    /\ UNCHANGED <<now, job, request, execVars, histVars, boundVars>>

RetryLeft(n) == n <= MaxRetries

(* failRun: attempts 1 .. MaxRetries are retried, an invalid snapshot is   *)
(* not.                                                                    *)
FailRun ==
    /\ pc \in {"fail", "reject"}
    /\ LET n == cur.attempts + 1
           again == pc = "fail" /\ RetryLeft(n)
           r == [cur EXCEPT !.attempts = n, !.waiting = again,
                            !.state = IF again THEN "retrying" ELSE "failed"]
       IN  /\ Update(r)
           /\ IF r.state = "failed" /\ runs[key].version = cur.version
              THEN GoTo("process") /\ cur' = r
              ELSE Return
    /\ UNCHANGED <<now, job, request, execVars, histVars, boundVars>>

(* markFailureForJob: the definition itself is retried, at a slot and so   *)
(* with a key of its own.                                                  *)
MarkFailureForJob ==
    /\ pc = "markfail"
    /\ LET j == sel
           n == j.retries + 1
       IN  job' = IF ~Selected(j.version, j.slot, j.last) THEN job
                  ELSE IF ~RetryLeft(n)
                       THEN [job EXCEPT !.retries = n, !.status = "paused"]
                       ELSE [job EXCEPT !.retries = n, !.status = "active",
                                        !.slot = NextSlot]
    /\ Return
    /\ UNCHANGED <<now, runs, request, execVars, histVars, boundVars>>

-----------------------------------------------------------------------------
(* An internal one-shot job has no run. *)

DispatchOneShot ==
    /\ pc = "idle" /\ NoJob \in todo
    /\ job.once
    /\ todo' = todo \ {NoJob}
    /\ IF Due
       THEN /\ sel' = job
            /\ key' = job.slot
            /\ pc' = "oneshot"
       ELSE UNCHANGED <<pc, sel, key>>
    /\ UNCHANGED <<now, job, runs, cur, request, execVars, histVars, boundVars>>

PublishOneShot ==
    /\ pc = "oneshot"
    /\ \/ Sends(key, sel.version) /\ GoTo("mark")
       \/ Sends(key, sel.version) /\ GoTo("markfail")
       \/ UNCHANGED histVars /\ GoTo("markfail")
    /\ UNCHANGED <<now, job, runs, cur, request, execVars, boundVars>>

(* The slot is marked after the publication. *)
MarkOneShot ==
    /\ pc = "mark"
    /\ LET j == sel IN
       job' = IF Selected(j.version, j.slot, j.last)
              THEN [job EXCEPT !.last = j.slot, !.status = "paused"]
              ELSE job
    /\ Return
    /\ UNCHANGED <<now, runs, request, execVars, histVars, boundVars>>

-----------------------------------------------------------------------------
(* Backoffice: a request reads the definition and computes the next slot,  *)
(* and its transaction checks the version it read.                         *)

Request(kind) ==
    /\ request = NoJob
    /\ edits < MaxEdits
    /\ ~job.once /\ ~job.deleted
    /\ request' = [kind |-> kind, version |-> job.version, slot |-> NextSlot,
                   enabled |-> job.enabled]
    /\ edits' = edits + 1
    /\ UNCHANGED <<now, job, runs, schedVars, execVars, histVars, failures>>

(* Save: the definition with a new version, and with a cursor of its own   *)
(* when it is edited or enabled.                                           *)
Saved(r) ==
    CASE r.kind \in {"edit", "enable"} ->
            [job EXCEPT !.version = @ + 1, !.status = "active", !.retries = 0,
                        !.last = 0, !.slot = r.slot,
                        !.enabled = @ \/ r.kind = "enable"]
      [] r.kind = "disable" -> [job EXCEPT !.version = @ + 1, !.enabled = FALSE]
      [] r.kind = "delete" -> [job EXCEPT !.version = @ + 1, !.enabled = FALSE,
                                          !.deleted = TRUE]

Save ==
    /\ request # NoJob /\ request.kind # "run"
    /\ IF /\ ~job.deleted /\ job.version = request.version
          /\ request.kind = "edit" => request.enabled = job.enabled
       THEN /\ job' = Saved(request)
            /\ retired' = retired \cup
                 {s \in Slots : runs[s] # NoRun /\ runs[s].state = "pending"}
       ELSE UNCHANGED <<job, retired>>
    /\ request' = NoJob
    /\ UNCHANGED <<now, runs, schedVars, execVars, published, late, boundVars>>

(* AdmitManualRun: a disabled definition is run when the request says so,  *)
(* and a request that is repeated finds its run.                           *)
AdmitManualRun ==
    /\ request # NoJob /\ request.kind = "run"
    /\ \/ UNCHANGED runs
       \/ /\ ~job.deleted /\ job.version = request.version
          /\ \E k \in ManualKeys, missing \in BOOLEAN :
                /\ runs[k] = NoRun
                /\ runs' = [runs EXCEPT ![k] =
                              NewRun(request.version, 0, missing)]
    /\ request' = NoJob
    /\ UNCHANGED <<now, job, schedVars, execVars, histVars, boundVars>>

-----------------------------------------------------------------------------
(* RecordExecution, called once the command of a slot has run: it reads    *)
(* the definition and writes it back if the cursor has not moved.          *)

LoadExecution(s) ==
    /\ s \notin executed
    /\ executed' = executed \cup {s}
    /\ \E d \in 1 .. MaxEdits + 1 : <<s, d>> \in published
    /\ rec' = [rec EXCEPT ![s] =
                 IF /\ job.enabled /\ ~job.deleted /\ job.last = s
                    /\ runs[s] # NoRun => job.version = runs[s].def
                 THEN job ELSE NoJob]
    /\ UNCHANGED <<now, job, runs, schedVars, request, histVars, boundVars>>

RecordExecution(s) ==
    /\ rec[s] # NoJob
    /\ LET j == rec[s] IN
       \E n \in {0, j.retries} :
          job' = IF Selected(j.version, j.slot, j.last)
                 THEN [job EXCEPT !.retries = n,
                         !.status = IF job.once THEN "paused" ELSE "active"]
                 ELSE job
    /\ rec' = [rec EXCEPT ![s] = NoJob]
    /\ UNCHANGED <<executed, now, runs, schedVars, request, histVars, boundVars>>

-----------------------------------------------------------------------------
(* A store error, or the end of the process, at any point of the loop. *)
Abandon ==
    /\ pc # "idle"
    /\ failures < MaxFailures
    /\ failures' = failures + 1
    /\ Return
    /\ UNCHANGED <<now, job, runs, request, execVars, histVars, edits>>

Tick ==
    /\ now < MaxTime
    /\ now' = now + 1
    /\ UNCHANGED <<job, runs, schedVars, request, execVars, histVars, boundVars>>

(* NextAttemptAt of a run passes. *)
Elapse(k) ==
    /\ runs[k] # NoRun /\ runs[k].waiting
    /\ runs' = [runs EXCEPT ![k].waiting = FALSE]
    /\ UNCHANGED <<now, job, schedVars, request, execVars, histVars, boundVars>>

Init ==
    /\ now = 0
    /\ \E once \in BOOLEAN, enabled \in BOOLEAN :
          /\ once => enabled
          /\ job = [once |-> once, version |-> 1, enabled |-> enabled,
                    deleted |-> FALSE, status |-> "active", slot |-> 1,
                    last |-> 0, retries |-> 0]
    /\ runs = [k \in Keys |-> NoRun]
    /\ pc = "idle"
    /\ sel = NoJob
    /\ key = NoRun
    /\ todo = {}
    /\ cur = NoRun
    /\ request = NoJob
    /\ rec = [s \in Slots |-> NoJob] /\ executed = {}
    /\ published = {} /\ retired = {} /\ late = {}
    /\ edits = 0 /\ failures = 0

Loop ==
    \/ StartRound \/ DispatchJob \/ DispatchOneShot
    \/ \E k \in Keys : NextPending(k)
    \/ AdmitRun \/ ProcessSettled \/ ClaimCron \/ ProcessManual
    \/ CancelRun \/ Publish \/ RecordDispatched \/ FailRun
    \/ MarkFailureForJob \/ PublishOneShot \/ MarkOneShot

Next ==
    \/ Loop \/ Abandon
    \/ \E kind \in {"edit", "enable", "disable", "delete", "run"} : Request(kind)
    \/ Save \/ AdmitManualRun
    \/ \E s \in Slots : LoadExecution(s) \/ RecordExecution(s)
    \/ \E k \in Keys : Elapse(k)
    \/ Tick

Spec == Init /\ [][Next]_vars

(* The loops go on and delays pass.  Nothing is assumed of the clients, of *)
(* the executions or of the clock.                                         *)
FairSpec ==
    /\ Spec
    /\ WF_vars(Loop)
    /\ WF_vars(\E k \in Keys : Elapse(k))

-----------------------------------------------------------------------------
(* Every variable stays in its domain; a run makes at most MaxRetries + 1  *)
(* attempts, and a version or a slot is never beyond what was handed out.  *)
TypeOK ==
    /\ now \in 0 .. MaxTime
    /\ job \in Jobs
    /\ runs \in [Keys -> Runs \cup {NoRun}]
    /\ pc \in {"idle", "admit", "process", "check", "publish", "record",
              "fail", "reject", "markfail", "oneshot", "mark"}
    /\ key \in Keys \cup {NoRun}
    /\ todo \subseteq Keys \cup {NoJob}
    /\ sel \in Jobs \cup {NoJob}
    /\ cur \in Runs \cup {NoRun}
    /\ request \in Requests \cup {NoJob}
    /\ rec \in [Slots -> Jobs \cup {NoJob}]
    /\ executed \subseteq Slots
    /\ edits \in 0 .. MaxEdits /\ failures \in 0 .. MaxFailures
    /\ published \subseteq Keys \X (1 .. MaxEdits + 1)
    /\ late \subseteq retired /\ retired \subseteq Slots

(* Every command published under the key of a slot carries one selection   *)
(* of the definition, however often a crash, a lost answer or an expired   *)
(* claim publishes it again, and whatever edits happen in between.         *)
OneSelectionPerKey ==
    \A p, q \in published : p[1] = q[1] => p[2] = q[2]

(* A run nobody had claimed when its definition was edited, disabled or    *)
(* deleted is never published, not even by the loop that had read it.      *)
RetiredNeverPublished == late = {}

(* As long as a definition is not edited its cursor only goes forward, and *)
(* it leaves a slot that was admitted when the run of that slot is over.   *)
CursorForward ==
    [][job'.version = job.version /\ job'.slot # job.slot =>
         /\ job'.slot > job.slot
         /\ \/ runs[job.slot] = NoRun
            \/ runs[job.slot].state \in {"dispatched", "failed"}]_vars

Over(k) == runs[k] = NoRun \/ runs[k].state \in {"dispatched", "failed", "canceled"}

(* Every run that is admitted is dispatched, failed or canceled in the     *)
(* end, after any crash.                                                   *)
RunsDecided == \A k \in Keys : []<>Over(k)

(* The cursor catches up with the ledger: an active definition does not    *)
(* stay at a slot whose run, of this same definition, is dispatched or     *)
(* failed, although a crash can separate the two writes and the result of  *)
(* an older execution can make a paused definition active again.           *)
CursorFollows ==
    \A s \in Slots :
        []<>~(/\ runs[s] # NoRun /\ runs[s].state \in {"dispatched", "failed"}
              /\ Selected(runs[s].def, s, runs[s].last)
              /\ job.status = "active")
=============================================================================
