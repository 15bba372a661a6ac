---------------------------- MODULE CommandOutbox ----------------------------
(***************************************************************************)
(* The producer-local command outbox (jobs/commandoutbox/outbox.go):       *)
(* Dispatch accepts a command by saving a row under a durable sequence     *)
(* number, and one publisher loop drains the rows to the command bus.      *)
(*                                                                         *)
(* A command is its deduplication key; its envelope never changes, so only *)
(* the key is modelled.  Every operation under d.mu is one action for each *)
(* point where the store can fail: a crash inside the operation leaves the *)
(* same durable state as that failure.  The bus call is made without the   *)
(* lock, so it has steps of its own.  The clock is three facts that become *)
(* true at any time: the deadline of a row, its next attempt, the end of a *)
(* tombstone's retention.                                                  *)
(***************************************************************************)
EXTENDS Naturals, FiniteSets

CONSTANTS
    Commands,      \* deduplication keys
    ScopeOf,       \* the session, or else the target, a command belongs to
    QueueLimit,    \* rows that may wait (256 in the code)
    BatchLimit,    \* publications of one flush (32 in the code)
    MaxSequence,   \* bound: sequence numbers taken
    MaxFaults      \* bound: store operations that fail, and restarts

ASSUME OutboxAssumption ==
    /\ IsFiniteSet(Commands)
    /\ DOMAIN ScopeOf = Commands
    /\ QueueLimit \in Nat \ {0}
    /\ BatchLimit \in Nat \ {0}
    /\ {MaxSequence, MaxFaults} \subseteq Nat

VARIABLES
    \* the store
    rows,          \* command-outbox/pending/: commands with a pending row
    later,         \* rows whose NextAttempt is in the future
    receipts,      \* tombstones of published commands
    failed,        \* tombstones of commands that expired unpublished
    watermark,     \* the last sequence number handed out
    seqOf,         \* the sequence number of a command's last row
    \* the clock
    overdue,       \* rows past their deadline
    lapsed,        \* tombstones past RetainUntil
    \* the publisher
    at,            \* where Flush is
    batch,         \* the rows Flush read and has not handled
    blocked,       \* scopes this flush must leave alone
    attempts,      \* publications of this flush
    \* what the bus and the tombstones have seen of a command's last admission
    sent,          \* the bus has it
    settled,       \* a tombstone was written for it
    faults         \* bound: faults so far

storeVars == <<rows, later, receipts, failed, watermark, seqOf>>
clockVars == <<overdue, lapsed>>
flushVars == <<at, batch, blocked, attempts>>
historyVars == <<sent, settled>>
vars == <<storeVars, clockVars, flushVars, historyVars, faults>>

Tombstones == receipts \cup failed
Scopes == {ScopeOf[c] : c \in Commands}

Init ==
    /\ rows = {} /\ later = {} /\ receipts = {} /\ failed = {}
    /\ watermark = 0 /\ seqOf = [c \in Commands |-> 0]
    /\ overdue = {} /\ lapsed = {}
    /\ at = "idle" /\ batch = {} /\ blocked = {} /\ attempts = 0
    /\ sent = {} /\ settled = {}
    /\ faults = 0

-----------------------------------------------------------------------------
(* Admission.                                                              *)

Fault ==
    /\ faults < MaxFaults
    /\ faults' = faults + 1

(* Mutant: only a published command is recognised.                         *)
MutAdmissibleExpired(c) ==
    /\ c \notin receipts
    /\ c \notin rows
    /\ Cardinality(rows) < QueueLimit
    /\ watermark < MaxSequence

(* A tombstone or a row answers the caller without a change; a full queue  *)
(* refuses it.                                                             *)
Admissible(c) ==
    /\ c \notin Tombstones
    /\ c \notin rows
    /\ Cardinality(rows) < QueueLimit
    /\ watermark < MaxSequence

(* The watermark is saved before the row.                                  *)
nextSequence == watermark' = watermark + 1

(* The row is saved: this is acceptance.  The new row has its own deadline *)
(* and none of the history of an earlier, forgotten admission.             *)
Dispatch(c) ==
    /\ Admissible(c)
    /\ nextSequence
    /\ seqOf' = [seqOf EXCEPT ![c] = watermark + 1]
    /\ rows' = rows \cup {c}
    /\ lapsed' = lapsed \ {c}
    /\ sent' = sent \ {c}
    /\ settled' = settled \ {c}
    /\ UNCHANGED <<receipts, failed, later, overdue, flushVars, faults>>

(* The sequence number is taken and the row is not saved: a gap.           *)
DispatchFails(c) ==
    /\ Admissible(c)
    /\ nextSequence
    /\ Fault
    /\ UNCHANGED <<rows, later, receipts, failed, seqOf, clockVars, flushVars, historyVars>>

-----------------------------------------------------------------------------
(* Flush: collection and the read of the pending rows, under one hold of   *)
(* the lock.                                                               *)

(* NextAttempt and the deadline are read from the row and go with it.      *)
RowFactsGo == later' = later \cap rows' /\ overdue' = overdue \cap rows'

(* Mutant: the tombstone is forgotten before the row it covers.            *)
MutForget(W, cut) ==
    /\ rows' = rows \ W
    /\ receipts' = receipts \ (W \cup cut)
    /\ failed' = failed \ (W \cup cut)

(* Collection forgets the tombstones in W.  For the ones in cut, it only   *)
(* deleted the leftover row before the store failed.                       *)
Forget(W, cut) ==
    /\ rows' = rows \ (W \cup cut)
    /\ receipts' = receipts \ W
    /\ failed' = failed \ W

(* W is what the window of 64 keys a tick yields.  Rows that still have a  *)
(* tombstone are deleted while the rows are read, never published.         *)
FlushBegins(W) ==
    /\ at = "idle"
    /\ W \subseteq Tombstones \cap lapsed
    /\ LET open == rows \ Tombstones
       IN  /\ rows' = open
           /\ batch' = open
           /\ at' = IF open = {} THEN "idle" ELSE "next"
    /\ RowFactsGo
    /\ receipts' = receipts \ W
    /\ failed' = failed \ W
    /\ blocked' = {}
    /\ attempts' = 0
    /\ UNCHANGED <<watermark, seqOf, lapsed, historyVars, faults>>

CollectFails(W, c) ==
    /\ at = "idle"
    /\ W \cup {c} \subseteq Tombstones \cap lapsed
    /\ c \notin W
    /\ Forget(W, {c})
    /\ RowFactsGo
    /\ Fault
    /\ UNCHANGED <<watermark, seqOf, lapsed, flushVars, historyVars>>

(* The store fails while the rows are read, after some leftovers are gone. *)
PendingFails(W, P) ==
    /\ at = "idle"
    /\ W \subseteq Tombstones \cap lapsed
    /\ P \subseteq rows \cap Tombstones
    /\ rows' = rows \ (W \cup P)
    /\ receipts' = receipts \ W
    /\ failed' = failed \ W
    /\ RowFactsGo
    /\ Fault
    /\ UNCHANGED <<watermark, seqOf, lapsed, flushVars, historyVars>>

-----------------------------------------------------------------------------
(* Flush: the walk through the rows it read.                               *)

(* The rows are walked through in the order of their sequence numbers.     *)
Oldest(S, number) == CHOOSE c \in S : \A d \in S : number[c] <= number[d]

Current == Oldest(batch, seqOf)

Rest == batch \ {Current}

(* What the flush knew goes with it.                                       *)
FlushEnds == at' = "idle" /\ batch' = {} /\ blocked' = {} /\ attempts' = 0

(* The walk goes on to the next row, having blocked the scopes in B and    *)
(* made n more attempts.                                                   *)
GoOn(B, n) ==
    IF Rest = {} \/ attempts + n >= BatchLimit
    THEN FlushEnds
    ELSE /\ at' = "next"
         /\ batch' = Rest
         /\ blocked' = blocked \cup B
         /\ attempts' = attempts + n

SkipBlocked ==
    /\ at = "next"
    /\ ScopeOf[Current] \in blocked
    /\ GoOn({}, 0)
    /\ UNCHANGED <<storeVars, clockVars, historyVars, faults>>

(* Mutant: a row that waits for its next attempt lets later ones pass.     *)
MutHoldScope == {}

HoldScope == {ScopeOf[Current]}

SkipEarly ==
    /\ at = "next"
    /\ ScopeOf[Current] \notin blocked
    /\ Current \in later
    /\ GoOn(HoldScope, 0)
    /\ UNCHANGED <<storeVars, clockVars, historyVars, faults>>

Due ==
    /\ at = "next"
    /\ ScopeOf[Current] \notin blocked
    /\ Current \notin later

(* The tombstone of a published or of an expired command.                  *)
SaveTombstone ==
    /\ IF at = "sent"
       THEN receipts' = receipts \cup {Current} /\ UNCHANGED failed
       ELSE failed' = failed \cup {Current} /\ UNCHANGED receipts
    /\ settled' = settled \cup {Current}

(* Mutant: the row is deleted before the tombstone is saved.               *)
MutFinish(n) ==
    /\ rows' = IF n >= 1 THEN rows \ {Current} ELSE rows
    /\ IF n >= 2 THEN SaveTombstone ELSE UNCHANGED <<receipts, failed, settled>>

(* The first n of finish's two writes: save the tombstone, delete the row. *)
finish(n) ==
    /\ IF n >= 1 THEN SaveTombstone ELSE UNCHANGED <<receipts, failed, settled>>
    /\ rows' = IF n >= 2 THEN rows \ {Current} ELSE rows

(* Mutant: an expired row is logged and left where it is.                  *)
MutPublishExpired ==
    /\ Due
    /\ Current \in overdue
    /\ GoOn({ScopeOf[Current]}, 1)
    /\ UNCHANGED <<storeVars, clockVars, historyVars, faults>>

(* Past its deadline the command is never published; its scope rests until *)
(* the next flush.                                                         *)
PublishExpired ==
    /\ Due
    /\ Current \in overdue
    /\ finish(2)
    /\ RowFactsGo
    /\ GoOn({ScopeOf[Current]}, 1)
    /\ UNCHANGED <<watermark, seqOf, lapsed, sent, faults>>

PublishExpiredFails(n) ==
    /\ Due
    /\ Current \in overdue
    /\ finish(n)
    /\ RowFactsGo
    /\ GoOn({ScopeOf[Current]}, 1)
    /\ Fault
    /\ UNCHANGED <<watermark, seqOf, lapsed, sent>>

Publish ==
    /\ Due
    /\ Current \notin overdue
    /\ at' = "calling"
    /\ UNCHANGED <<storeVars, clockVars, batch, blocked, attempts, historyVars, faults>>

(* The bus stored the command and answered with a receipt.                 *)
BusAccepts ==
    /\ at = "calling"
    /\ sent' = sent \cup {Current}
    /\ at' = "sent"
    /\ UNCHANGED <<storeVars, clockVars, batch, blocked, attempts, settled, faults>>

(* The call returned an error or timed out: the bus may have it all the    *)
(* same.                                                                   *)
BusFails(stored) ==
    /\ at = "calling"
    /\ sent' = IF stored THEN sent \cup {Current} ELSE sent
    /\ at' = "unsent"
    /\ UNCHANGED <<storeVars, clockVars, batch, blocked, attempts, settled, faults>>

RecordReceipt ==
    /\ at = "sent"
    /\ finish(2)
    /\ RowFactsGo
    /\ GoOn({}, 1)
    /\ UNCHANGED <<watermark, seqOf, lapsed, sent, faults>>

RecordReceiptFails(n) ==
    /\ at = "sent"
    /\ finish(n)
    /\ RowFactsGo
    /\ GoOn({ScopeOf[Current]}, 1)
    /\ Fault
    /\ UNCHANGED <<watermark, seqOf, lapsed, sent>>

(* The row is saved again with its next attempt in the future.             *)
RecordRetry ==
    /\ at = "unsent"
    /\ rows' = rows \cup {Current}
    /\ later' = later \cup {Current}
    /\ GoOn({ScopeOf[Current]}, 1)
    /\ UNCHANGED <<receipts, failed, watermark, seqOf, clockVars, historyVars, faults>>

RecordRetryFails ==
    /\ at = "unsent"
    /\ GoOn({ScopeOf[Current]}, 1)
    /\ Fault
    /\ UNCHANGED <<storeVars, clockVars, historyVars>>

-----------------------------------------------------------------------------
(* The clock and the process.                                              *)

DeadlinePasses(c) ==
    /\ c \in rows \ overdue
    /\ overdue' = overdue \cup {c}
    /\ UNCHANGED <<storeVars, lapsed, flushVars, historyVars, faults>>

AttemptComesDue(c) ==
    /\ c \in later
    /\ later' = later \ {c}
    /\ UNCHANGED <<rows, receipts, failed, watermark, seqOf, clockVars, flushVars, historyVars, faults>>

RetentionEnds(c) ==
    /\ c \in Tombstones \ lapsed
    /\ lapsed' = lapsed \cup {c}
    /\ UNCHANGED <<storeVars, overdue, flushVars, historyVars, faults>>

(* The process stops wherever Flush is and starts again; Stop cuts the     *)
(* loop short in the same way.  Only the store survives.                   *)
Restart ==
    /\ Fault
    /\ FlushEnds
    /\ UNCHANGED <<storeVars, clockVars, historyVars>>

FlushStep ==
    \/ \E W \in SUBSET Commands : FlushBegins(W)
    \/ SkipBlocked \/ SkipEarly
    \/ PublishExpired \/ Publish
    \/ BusAccepts \/ \E stored \in BOOLEAN : BusFails(stored)
    \/ RecordReceipt \/ RecordRetry

FlushFault ==
    \/ \E W \in SUBSET Commands, c \in Commands : CollectFails(W, c)
    \/ \E W, P \in SUBSET Commands : PendingFails(W, P)
    \/ \E n \in 0..1 : PublishExpiredFails(n) \/ RecordReceiptFails(n)
    \/ RecordRetryFails

Clock(c) == DeadlinePasses(c) \/ AttemptComesDue(c) \/ RetentionEnds(c)

Next ==
    \/ FlushStep
    \/ FlushFault
    \/ \E c \in Commands : Dispatch(c) \/ DispatchFails(c) \/ Clock(c)
    \/ Restart

Spec == Init /\ [][Next]_vars

(* The ticker keeps the publisher going and time passes.  Nothing is       *)
(* assumed of the bus: it may refuse every call.                           *)
FairSpec ==
    /\ Spec
    /\ WF_vars(FlushStep)
    /\ \A c \in Commands : WF_vars(DeadlinePasses(c)) /\ WF_vars(AttemptComesDue(c))

-----------------------------------------------------------------------------
(* Properties.                                                             *)

(* Every variable holds a value of its kind, no more rows wait than the    *)
(* queue admits, and a sequence number is never used for two rows.         *)
TypeOK ==
    /\ {rows, later, receipts, failed, overdue, lapsed, sent, settled} \subseteq SUBSET Commands
    /\ later \cup overdue \subseteq rows
    /\ Cardinality(rows) <= QueueLimit
    /\ watermark \in 0..MaxSequence
    /\ seqOf \in [Commands -> 0..watermark]
    /\ \A c, d \in rows : seqOf[c] = seqOf[d] => c = d
    /\ at \in {"idle", "next", "calling", "sent", "unsent"}
    /\ at = "idle" <=> batch = {}
    /\ batch \subseteq rows
    /\ blocked \subseteq Scopes
    /\ attempts < BatchLimit /\ attempts \in Nat
    /\ faults \in 0..MaxFaults

(* An accepted command is never lost: it waits in a row, or the bus has    *)
(* it, or a tombstone says it expired.  finish and collect write twice and *)
(* can be cut in between, and the retry path writes rows back.             *)
AcceptedNotLost ==
    \A c \in Commands : seqOf[c] > 0 => c \in rows \cup sent \cup settled

(* Commands of one scope reach the bus in the order of their admission,    *)
(* repeated publications included: while a command is being published, the *)
(* bus has nothing of its scope that was admitted after it.  A failed or   *)
(* unconfirmed publication, an early retry, an unfinished receipt and a    *)
(* restart must all hold the rest of the scope back (Flush, blocked).      *)
PublishedInOrder ==
    at = "calling" =>
        \A d \in sent \ {Current} :
            ScopeOf[d] = ScopeOf[Current] => seqOf[d] < seqOf[Current]

(* Once a tombstone was saved for a command it is not published again, not *)
(* even when its row outlived a crash in finish and the tombstone has been *)
(* collected since.                                                        *)
NoReplayAfterTombstone == at = "calling" => Current \notin settled

(* A key is admitted again only when the retention of its tombstone is     *)
(* over: within it a resubmission is answered, never accepted anew.        *)
ReadmittedAfterRetention ==
    [][\A c \in Commands :
          seqOf[c] > 0 /\ seqOf'[c] # seqOf[c] => c \in lapsed]_vars

(* Every accepted command is published or recorded as expired, whatever    *)
(* the bus does.                                                           *)
AcceptedResolved ==
    \A c \in Commands : c \in rows ~> c \in sent \cup settled
=============================================================================
