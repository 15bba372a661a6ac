------------------------ MODULE CommandOutboxProofs -------------------------
(***************************************************************************)
(* Proofs about the command outbox, for every set of commands, every scope *)
(* function and every limit: types, no loss, the order within a scope, no  *)
(* replay, and readmission after retention only.                           *)
(***************************************************************************)
EXTENDS CommandOutbox, FiniteSetTheorems, WellFoundedInduction, TLAPS

(* A tombstone stands for the last admission of its command, and a settled *)
(* row that outlived finish still has its tombstone.                       *)
TombstoneInv ==
    /\ Tombstones \subseteq settled
    /\ rows \cap settled \subseteq Tombstones

(* A command that was admitted is remembered until its retention is over.  *)
RetainedInv ==
    \A c \in Commands : seqOf[c] > 0 => c \in rows \cup Tombstones \cup lapsed

Pointing == {"calling", "sent", "unsent"}

(* The walk: what it has still to handle is unsettled; the row in hand     *)
(* belongs to a scope that is not blocked; and a row outside the batch is  *)
(* settled, or holds its scope back, or was admitted after the batch.      *)
WalkInv ==
    /\ batch \cap settled = {}
    /\ at \in Pointing => ScopeOf[Current] \notin blocked
    /\ at # "idle" => \A c \in rows \ batch :
          \/ c \in settled
          \/ ScopeOf[c] \in blocked
          \/ \A d \in batch : seqOf[d] < seqOf[c]

(* Whatever the bus has of a scope was admitted before every open row of   *)
(* that scope.                                                             *)
OrderInv ==
    \A d \in sent, c \in rows \ settled :
        c # d /\ ScopeOf[c] = ScopeOf[d] => seqOf[d] < seqOf[c]

(* The inductive invariant. *)
Inv == TypeOK /\ AcceptedNotLost /\ TombstoneInv /\ RetainedInv /\ WalkInv /\ OrderInv

-----------------------------------------------------------------------------
(* A nonempty set of numbered commands has an oldest one. *)
LEMMA OldestExists ==
  ASSUME NEW S \in SUBSET Commands, NEW f \in [Commands -> Nat], S # {}
  PROVE  /\ Oldest(S, f) \in S
         /\ \A d \in S : f[Oldest(S, f)] <= f[d]
  <1>. DEFINE T == {f[c] : c \in S}
  <1>1. T \subseteq Nat /\ T # {}
    OBVIOUS
  <1>2. \E x \in T : \A y \in T : ~(<<y, x>> \in OpToRel(<, Nat))
    BY <1>1, NatLessThanWellFounded, WFMin
  <1>3. PICK x \in T : \A y \in T : ~(<<y, x>> \in OpToRel(<, Nat))
    BY <1>2
  <1>4. \A y \in T : ~(y < x)
    BY <1>1, <1>3 DEF OpToRel
  <1>5. PICK c \in S : f[c] = x
    OBVIOUS
  <1>6. \A d \in S : f[c] <= f[d]
    BY <1>4, <1>5
  <1>. QED  BY <1>6 DEF Oldest

(* The row in hand, when the flush has one: it is in the batch, and every  *)
(* other row of the batch was admitted after it.                           *)
LEMMA CurrentFacts ==
  ASSUME TypeOK, batch # {}
  PROVE  /\ Current \in batch /\ Current \in rows /\ Current \in Commands
         /\ \A d \in batch \ {Current} : seqOf[Current] < seqOf[d]
  <1>1. seqOf \in [Commands -> Nat] /\ batch \in SUBSET Commands
    BY DEF TypeOK
  <1>2. Current \in batch /\ \A d \in batch : seqOf[Current] <= seqOf[d]
    BY <1>1, OldestExists DEF Current
  <1>. QED  BY <1>1, <1>2 DEF TypeOK

(* Admitting another command does not change which row is in hand. *)
LEMMA CurrentStays ==
  ASSUME TypeOK, batch # {}, UNCHANGED batch, seqOf' \in [Commands -> Nat],
         \A c \in batch : seqOf'[c] = seqOf[c]
  PROVE  Current' = Current
  <1>1. seqOf \in [Commands -> Nat] /\ batch \in SUBSET Commands
    BY DEF TypeOK
  <1>2. Current' \in batch /\ \A d \in batch : seqOf'[Current'] <= seqOf'[d]
    BY <1>1, OldestExists DEF Current
  <1>3. seqOf[Current'] <= seqOf[Current]
    BY <1>1, <1>2, CurrentFacts
  <1>. QED  BY <1>1, <1>2, <1>3, CurrentFacts

LEMMA RowsBounded ==
  ASSUME TypeOK, rows' \subseteq rows
  PROVE  Cardinality(rows') <= QueueLimit
  <1>1. IsFiniteSet(rows)
    BY OutboxAssumption, FS_Subset DEF TypeOK
  <1>2. Cardinality(rows') <= Cardinality(rows) /\ IsFiniteSet(rows')
    BY <1>1, FS_Subset
  <1>. QED  BY <1>1, <1>2, FS_CardinalityType, OutboxAssumption DEF TypeOK

LEMMA FaultTypes ==
  ASSUME TypeOK, Fault \/ UNCHANGED faults
  PROVE  faults' \in 0..MaxFaults
  BY OutboxAssumption DEF TypeOK, Fault

(* GoOn: the walk leaves the row in hand behind, which is gone, settled or *)
(* holds its scope back.                                                   *)
LEMMA GoOnWalk ==
  ASSUME TypeOK, WalkInv, batch # {}, NEW B \in SUBSET Scopes, NEW n \in 0..1, GoOn(B, n),
         rows' \subseteq rows, rows \ {Current} \subseteq rows', UNCHANGED seqOf,
         settled' \subseteq settled \cup {Current}, settled \subseteq settled',
         \/ Current \notin rows'
         \/ Current \in settled'
         \/ ScopeOf[Current] \in blocked \cup B
  PROVE  /\ at' \in {"idle", "next"}
         /\ at' = "idle" <=> batch' = {}
         /\ batch' \subseteq rows'
         /\ blocked' \subseteq Scopes
         /\ attempts' < BatchLimit /\ attempts' \in Nat
         /\ WalkInv'
  <1>1. CASE FlushEnds
    <2>1. WalkInv'
      BY <1>1 DEF FlushEnds, WalkInv, Pointing
    <2>. QED  BY <1>1, <2>1, OutboxAssumption DEF FlushEnds
  <1>2. CASE ~(Rest = {} \/ attempts + n >= BatchLimit)
    <2>1. /\ at' = "next" /\ batch' = batch \ {Current}
          /\ blocked' = blocked \cup B /\ attempts' = attempts + n
      BY <1>2 DEF GoOn, Rest
    <2>2. batch' # {} /\ batch' \subseteq rows'
      BY <1>2, <2>1 DEF Rest, TypeOK
    <2>3. attempts' < BatchLimit /\ attempts' \in Nat
      BY <1>2, <2>1, OutboxAssumption DEF TypeOK
    <2>4. blocked' \subseteq Scopes
      BY <2>1 DEF TypeOK
    <2>5. WalkInv'
      <3>1. batch' \cap settled' = {}
        BY <2>1 DEF WalkInv
      <3>2. ASSUME NEW c \in rows' \ batch'
            PROVE  \/ c \in settled'
                   \/ ScopeOf[c] \in blocked'
                   \/ \A d \in batch' : seqOf'[d] < seqOf'[c]
        <4>1. CASE c = Current
          BY <2>1, <3>2, <4>1
        <4>2. CASE c # Current
          <5>1. c \in rows \ batch /\ at # "idle"
            BY <2>1, <3>2, <4>2 DEF TypeOK
          <5>. QED  BY <2>1, <5>1 DEF WalkInv
        <4>. QED  BY <4>1, <4>2
      <3>. QED  BY <2>1, <3>1, <3>2 DEF WalkInv, Pointing
    <2>. QED  BY <2>1, <2>2, <2>3, <2>4, <2>5
  <1>. QED  BY <1>1, <1>2 DEF GoOn

(* Order is kept when nothing is sent, admitted or opened again. *)
LEMMA OrderFrame ==
  ASSUME OrderInv, UNCHANGED <<sent, seqOf>>, rows' \ settled' \subseteq rows \ settled
  PROVE  OrderInv'
  BY DEF OrderInv

LEMMA RowFacts ==
  ASSUME TypeOK, RowFactsGo, rows' \subseteq Commands
  PROVE  /\ {later', overdue'} \subseteq SUBSET Commands
         /\ later' \cup overdue' \subseteq rows'
  BY DEF RowFactsGo

(* With the lines above, what is left of TypeOK for a step of the walk. *)
LEMMA WalkTypes ==
  ASSUME TypeOK, rows' \subseteq rows, UNCHANGED <<watermark, seqOf>>,
         {later', receipts', failed', overdue', lapsed', sent', settled'} \subseteq SUBSET Commands,
         later' \cup overdue' \subseteq rows',
         at' \in {"idle", "next", "calling", "sent", "unsent"},
         at' = "idle" <=> batch' = {}, batch' \subseteq rows',
         blocked' \subseteq Scopes, attempts' < BatchLimit, attempts' \in Nat,
         Fault \/ UNCHANGED faults
  PROVE  TypeOK'
  <1>1. Cardinality(rows') <= QueueLimit /\ faults' \in 0..MaxFaults
    BY RowsBounded, FaultTypes
  <1>2. rows' \in SUBSET Commands
    BY DEF TypeOK
  <1>3. \A c, d \in rows' : seqOf'[c] = seqOf'[d] => c = d
    BY DEF TypeOK
  <1>. QED  BY <1>1, <1>2, <1>3 DEF TypeOK

-----------------------------------------------------------------------------
LEMMA InitInv == Init => Inv
  <1>. SUFFICES ASSUME Init PROVE Inv
    OBVIOUS
  <1>1. TypeOK
    BY OutboxAssumption, FS_EmptySet DEF Init, TypeOK
  <1>2. AcceptedNotLost /\ TombstoneInv /\ RetainedInv /\ WalkInv /\ OrderInv
    BY DEF Init, AcceptedNotLost, TombstoneInv, RetainedInv, WalkInv, OrderInv,
           Tombstones, Pointing
  <1>. QED  BY <1>1, <1>2 DEF Inv

(* The new row has the highest number, so it comes after whatever the bus  *)
(* has and after the batch of a flush under way.                           *)
LEMMA DispatchInv ==
  ASSUME Inv, NEW c \in Commands, Dispatch(c)
  PROVE  Inv'
  <1>. USE DEF Inv
  <1>1. /\ seqOf' = [seqOf EXCEPT ![c] = watermark + 1] /\ rows' = rows \cup {c}
        /\ watermark' = watermark + 1 /\ watermark < MaxSequence
        /\ c \notin rows /\ c \notin Tombstones /\ Cardinality(rows) < QueueLimit
        /\ sent' = sent \ {c} /\ settled' = settled \ {c} /\ lapsed' = lapsed \ {c}
        /\ UNCHANGED <<receipts, failed, later, overdue, flushVars, faults>>
    BY DEF Dispatch, Admissible, nextSequence
  <1>2. /\ watermark' \in 0..MaxSequence /\ seqOf' \in [Commands -> 0..watermark']
        /\ \A d \in Commands \ {c} : seqOf'[d] = seqOf[d] /\ seqOf[d] < seqOf'[c]
    BY <1>1, OutboxAssumption DEF TypeOK
  <1>3. Cardinality(rows') <= QueueLimit
    <2>1. IsFiniteSet(rows)
      BY OutboxAssumption, FS_Subset DEF TypeOK
    <2>2. Cardinality(rows') = Cardinality(rows) + 1 /\ Cardinality(rows) \in Nat
      BY <1>1, <2>1, FS_AddElement, FS_CardinalityType
    <2>. QED  BY <1>1, <2>2, OutboxAssumption
  <1>4. TypeOK'
    BY <1>1, <1>2, <1>3 DEF TypeOK, flushVars
  <1>5. AcceptedNotLost' /\ TombstoneInv' /\ RetainedInv'
    BY <1>1, <1>2 DEF TypeOK, AcceptedNotLost, TombstoneInv, RetainedInv, Tombstones
  <1>6. WalkInv'
    <2>1. batch' \cap settled' = {} /\ c \notin batch /\ UNCHANGED <<batch, at, blocked>>
      BY <1>1 DEF TypeOK, WalkInv, flushVars
    <2>2. at' \in Pointing => ScopeOf[Current'] \notin blocked'
      <3>1. seqOf' \in [Commands -> Nat] /\ \A d \in batch : seqOf'[d] = seqOf[d]
        BY <1>2, <2>1, OutboxAssumption DEF TypeOK
      <3>2. at \in Pointing => batch # {}
        BY DEF TypeOK, Pointing
      <3>3. at \in Pointing => Current' = Current
        BY <2>1, <3>1, <3>2, CurrentStays
      <3>. QED  BY <2>1, <3>3 DEF WalkInv
    <2>3. ASSUME at' # "idle", NEW d \in rows' \ batch'
          PROVE  \/ d \in settled'
                 \/ ScopeOf[d] \in blocked'
                 \/ \A b \in batch' : seqOf'[b] < seqOf'[d]
      BY <1>1, <1>2, <2>1, <2>3 DEF TypeOK, WalkInv
    <2>. QED  BY <2>1, <2>2, <2>3 DEF WalkInv
  <1>7. OrderInv'
    <2>. SUFFICES ASSUME NEW d \in sent', NEW b \in rows' \ settled',
                         b # d, ScopeOf[b] = ScopeOf[d]
                  PROVE  seqOf'[d] < seqOf'[b]
      BY DEF OrderInv
    <2>1. d \in Commands /\ d \in sent /\ d # c
      BY <1>1 DEF TypeOK
    <2>2. CASE b = c
      BY <1>2, <2>1, <2>2
    <2>3. CASE b # c
      BY <1>1, <1>2, <2>1, <2>3 DEF TypeOK, OrderInv
    <2>. QED  BY <2>2, <2>3
  <1>. QED  BY <1>4, <1>5, <1>6, <1>7

LEMMA DispatchFailsInv ==
  ASSUME Inv, NEW c \in Commands, DispatchFails(c)
  PROVE  Inv'
  <1>. USE DEF Inv
  <1>1. /\ UNCHANGED <<rows, later, receipts, failed, seqOf, clockVars, flushVars, historyVars>>
        /\ watermark' = watermark + 1 /\ watermark < MaxSequence /\ Fault
    BY DEF DispatchFails, Admissible, nextSequence
  <1>2. watermark' \in 0..MaxSequence /\ seqOf' \in [Commands -> 0..watermark']
    BY <1>1, OutboxAssumption DEF TypeOK
  <1>3. TypeOK'
    BY <1>1, <1>2, FaultTypes DEF TypeOK, clockVars, flushVars, historyVars
  <1>4. AcceptedNotLost' /\ TombstoneInv' /\ RetainedInv' /\ OrderInv'
    BY <1>1 DEF AcceptedNotLost, TombstoneInv, RetainedInv, OrderInv, Tombstones,
                clockVars, historyVars
  <1>5. WalkInv'
    BY <1>1 DEF WalkInv, Current, flushVars, historyVars
  <1>. QED  BY <1>3, <1>4, <1>5

(* Between flushes rows go only with or after their tombstone, and a       *)
(* tombstone only after its retention.                                     *)
LEMMA CollectInv ==
  ASSUME Inv, at = "idle", NEW W \in SUBSET (Tombstones \cap lapsed),
         NEW P \in SUBSET Tombstones,
         rows' = rows \ (W \cup P), receipts' = receipts \ W, failed' = failed \ W,
         RowFactsGo, Fault,
         UNCHANGED <<watermark, seqOf, lapsed, flushVars, historyVars>>
  PROVE  Inv'
  <1>. USE DEF Inv
  <1>1. TypeOK'
    <2>1. /\ {receipts', failed', lapsed', sent', settled'} \subseteq SUBSET Commands
          /\ rows' \subseteq rows /\ rows' \subseteq Commands
      BY DEF TypeOK, historyVars
    <2>2. /\ at' \in {"idle", "next", "calling", "sent", "unsent"}
          /\ at' = "idle" <=> batch' = {}
          /\ batch' \subseteq rows' /\ blocked' \subseteq Scopes
          /\ attempts' < BatchLimit /\ attempts' \in Nat
      BY DEF TypeOK, flushVars
    <2>. QED  BY <2>1, <2>2, RowFacts, WalkTypes
  <1>2. AcceptedNotLost' /\ TombstoneInv' /\ RetainedInv'
    BY DEF AcceptedNotLost, TombstoneInv, RetainedInv, Tombstones, historyVars
  <1>3. WalkInv'
    BY DEF TypeOK, WalkInv, Pointing, flushVars
  <1>4. OrderInv'
    BY OrderFrame DEF historyVars
  <1>. QED  BY <1>1, <1>2, <1>3, <1>4

LEMMA FlushBeginsInv ==
  ASSUME Inv, NEW W \in SUBSET Commands, FlushBegins(W)
  PROVE  Inv'
  <1>. USE DEF Inv
  <1>1. /\ W \subseteq Tombstones \cap lapsed
        /\ rows' = rows \ Tombstones /\ batch' = rows \ Tombstones
        /\ at' = IF rows \ Tombstones = {} THEN "idle" ELSE "next"
        /\ receipts' = receipts \ W /\ failed' = failed \ W
        /\ blocked' = {} /\ attempts' = 0 /\ RowFactsGo
        /\ UNCHANGED <<watermark, seqOf, lapsed, historyVars, faults>>
    BY DEF FlushBegins
  <1>2. TypeOK'
    <2>1. /\ {receipts', failed', lapsed', sent', settled'} \subseteq SUBSET Commands
          /\ rows' \subseteq rows /\ rows' \subseteq Commands
      BY <1>1 DEF TypeOK, historyVars
    <2>2. /\ at' \in {"idle", "next", "calling", "sent", "unsent"}
          /\ at' = "idle" <=> batch' = {}
          /\ batch' \subseteq rows' /\ blocked' \subseteq Scopes
          /\ attempts' < BatchLimit /\ attempts' \in Nat
      BY <1>1, OutboxAssumption
    <2>. QED  BY <1>1, <2>1, <2>2, RowFacts, WalkTypes
  <1>3. AcceptedNotLost' /\ TombstoneInv' /\ RetainedInv'
    BY <1>1 DEF AcceptedNotLost, TombstoneInv, RetainedInv, Tombstones, historyVars
  <1>4. WalkInv'
    BY <1>1 DEF WalkInv, TombstoneInv, Pointing, historyVars
  <1>5. OrderInv'
    BY <1>1, OrderFrame DEF historyVars
  <1>. QED  BY <1>2, <1>3, <1>4, <1>5

LEMMA CollectFailsInv ==
  ASSUME Inv, NEW W \in SUBSET Commands, NEW c \in Commands, CollectFails(W, c)
  PROVE  Inv'
  <1>1. W \subseteq Tombstones \cap lapsed /\ {c} \subseteq Tombstones
    BY DEF CollectFails
  <1>. QED  BY <1>1, CollectInv DEF CollectFails, Forget

LEMMA PendingFailsInv ==
  ASSUME Inv, NEW W \in SUBSET Commands, NEW P \in SUBSET Commands, PendingFails(W, P)
  PROVE  Inv'
  <1>1. W \subseteq Tombstones \cap lapsed /\ P \subseteq Tombstones
    BY DEF PendingFails
  <1>. QED  BY <1>1, CollectInv DEF PendingFails

(* A step that leaves the row in hand behind and touches no store row.     *)
LEMMA SkipInv ==
  ASSUME Inv, at # "idle", NEW B \in SUBSET Scopes, NEW n \in 0..1, GoOn(B, n),
         ScopeOf[Current] \in blocked \cup B,
         rows' = rows, {later'} \subseteq SUBSET rows, Fault \/ UNCHANGED faults,
         UNCHANGED <<receipts, failed, watermark, seqOf, clockVars, historyVars>>
  PROVE  Inv'
  <1>. USE DEF Inv
  <1>1. batch # {}
    BY DEF TypeOK
  <1>2. /\ at' \in {"idle", "next"} /\ (at' = "idle" <=> batch' = {})
        /\ batch' \subseteq rows' /\ blocked' \subseteq Scopes
        /\ attempts' < BatchLimit /\ attempts' \in Nat /\ WalkInv'
    BY <1>1, GoOnWalk DEF historyVars
  <1>3. /\ {later', receipts', failed', overdue', lapsed', sent', settled'} \subseteq SUBSET Commands
        /\ later' \cup overdue' \subseteq rows'
    BY DEF TypeOK, clockVars, historyVars
  <1>4. TypeOK'
    BY <1>2, <1>3, WalkTypes
  <1>5. AcceptedNotLost' /\ TombstoneInv' /\ RetainedInv'
    BY DEF AcceptedNotLost, TombstoneInv, RetainedInv, Tombstones, clockVars, historyVars
  <1>6. OrderInv'
    BY OrderFrame DEF historyVars
  <1>. QED  BY <1>2, <1>4, <1>5, <1>6

(* A step that makes the first n writes of finish and goes on.             *)
LEMMA FinishInv ==
  ASSUME Inv, at # "idle", NEW B \in SUBSET Scopes, NEW n \in 0..2, finish(n), RowFactsGo,
         GoOn(B, 1), n = 2 \/ ScopeOf[Current] \in B, Fault \/ UNCHANGED faults,
         UNCHANGED <<watermark, seqOf, lapsed, sent>>
  PROVE  Inv'
  <1>. USE DEF Inv
  <1>1. batch # {} /\ Current \in rows /\ Current \in Commands
    BY CurrentFacts DEF TypeOK
  <1>2. /\ rows' \subseteq rows /\ rows \ {Current} \subseteq rows'
        /\ settled' \subseteq settled \cup {Current} /\ settled \subseteq settled'
        /\ {receipts', failed', lapsed', sent', settled'} \subseteq SUBSET Commands
    BY <1>1 DEF finish, SaveTombstone, TypeOK
  <1>3. Current \notin rows' \/ ScopeOf[Current] \in blocked \cup B
    BY DEF finish
  <1>4. /\ at' \in {"idle", "next"} /\ (at' = "idle" <=> batch' = {})
        /\ batch' \subseteq rows' /\ blocked' \subseteq Scopes
        /\ attempts' < BatchLimit /\ attempts' \in Nat /\ WalkInv'
    BY <1>1, <1>2, <1>3, GoOnWalk
  <1>5. {later', overdue'} \subseteq SUBSET Commands /\ later' \cup overdue' \subseteq rows'
    BY <1>2, RowFacts DEF TypeOK
  <1>6. TypeOK'
    BY <1>2, <1>4, <1>5, WalkTypes
  <1>7. AcceptedNotLost' /\ TombstoneInv' /\ RetainedInv'
    BY <1>1 DEF finish, SaveTombstone, AcceptedNotLost, TombstoneInv, RetainedInv, Tombstones
  <1>8. OrderInv'
    BY <1>2, OrderFrame
  <1>. QED  BY <1>4, <1>6, <1>7, <1>8

-----------------------------------------------------------------------------
(* One lemma for each step of the walk.                                    *)

LEMMA ScopeKnown ==
  ASSUME TypeOK, at # "idle"
  PROVE  {ScopeOf[Current]} \in SUBSET Scopes
  BY CurrentFacts DEF TypeOK, Scopes

LEMMA SkipBlockedInv ==
  ASSUME Inv, SkipBlocked PROVE Inv'
  <1>1. later \subseteq rows
    BY DEF Inv, TypeOK
  <1>. QED  BY <1>1, SkipInv DEF SkipBlocked, storeVars

LEMMA SkipEarlyInv ==
  ASSUME Inv, SkipEarly PROVE Inv'
  <1>1. later \subseteq rows /\ {ScopeOf[Current]} \in SUBSET Scopes
    BY ScopeKnown DEF Inv, TypeOK, SkipEarly
  <1>. QED  BY <1>1, SkipInv DEF SkipEarly, HoldScope, storeVars

LEMMA RecordRetryInv ==
  ASSUME Inv, RecordRetry PROVE Inv'
  <1>1. at = "unsent"
    BY DEF RecordRetry
  <1>2. batch # {} /\ TypeOK
    BY <1>1 DEF Inv, TypeOK
  <1>3. later \cup {Current} \subseteq rows /\ {ScopeOf[Current]} \in SUBSET Scopes
    BY <1>1, <1>2, CurrentFacts, ScopeKnown DEF TypeOK
  <1>4. rows' = rows /\ {later'} \subseteq SUBSET rows /\ GoOn({ScopeOf[Current]}, 1)
    BY <1>3 DEF RecordRetry
  <1>. QED  BY <1>1, <1>3, <1>4, SkipInv DEF RecordRetry

LEMMA RecordRetryFailsInv ==
  ASSUME Inv, RecordRetryFails PROVE Inv'
  <1>1. later \subseteq rows /\ {ScopeOf[Current]} \in SUBSET Scopes
    BY ScopeKnown DEF Inv, TypeOK, RecordRetryFails
  <1>. QED  BY <1>1, SkipInv DEF RecordRetryFails, storeVars

LEMMA PublishExpiredInv ==
  ASSUME Inv, PublishExpired PROVE Inv'
  <1>1. at # "idle" /\ {ScopeOf[Current]} \in SUBSET Scopes
    BY ScopeKnown DEF Inv, PublishExpired, Due
  <1>. QED  BY <1>1, FinishInv DEF PublishExpired

LEMMA PublishExpiredFailsInv ==
  ASSUME Inv, NEW n \in 0..1, PublishExpiredFails(n) PROVE Inv'
  <1>1. at # "idle" /\ {ScopeOf[Current]} \in SUBSET Scopes /\ n \in 0..2
    BY ScopeKnown DEF Inv, PublishExpiredFails, Due
  <1>. QED  BY <1>1, FinishInv DEF PublishExpiredFails

LEMMA RecordReceiptInv ==
  ASSUME Inv, RecordReceipt PROVE Inv'
  BY FinishInv DEF RecordReceipt

LEMMA RecordReceiptFailsInv ==
  ASSUME Inv, NEW n \in 0..1, RecordReceiptFails(n) PROVE Inv'
  <1>1. at # "idle" /\ {ScopeOf[Current]} \in SUBSET Scopes /\ n \in 0..2
    BY ScopeKnown DEF Inv, RecordReceiptFails
  <1>. QED  BY <1>1, FinishInv DEF RecordReceiptFails

(* The row in hand is published.  A row of its scope that is still open is *)
(* in the batch behind it, or was admitted after the whole batch: a settled*)
(* row is not open, and the scope is not blocked.                          *)
LEMMA CallInv ==
  ASSUME Inv, at # "idle", ScopeOf[Current] \notin blocked, at' \in Pointing,
         sent' \in {sent, sent \cup {Current}},
         UNCHANGED <<storeVars, clockVars, batch, blocked, attempts, settled, faults>>
  PROVE  Inv'
  <1>. USE DEF Inv
  <1>1. batch # {} /\ TypeOK
    BY DEF TypeOK
  <1>2. /\ Current \in batch /\ Current \in rows /\ Current \in Commands
        /\ \A d \in batch \ {Current} : seqOf[Current] < seqOf[d]
    BY <1>1, CurrentFacts
  <1>3. TypeOK'
    BY <1>2 DEF TypeOK, Pointing, storeVars, clockVars
  <1>4. AcceptedNotLost' /\ TombstoneInv' /\ RetainedInv'
    BY DEF AcceptedNotLost, TombstoneInv, RetainedInv, Tombstones, storeVars, clockVars
  <1>5. UNCHANGED Current
    BY DEF Current, storeVars
  <1>6. WalkInv'
    BY <1>5 DEF WalkInv, storeVars
  <1>7. OrderInv'
    <2>. SUFFICES ASSUME NEW d \in sent', NEW c \in rows' \ settled',
                         c # d, ScopeOf[c] = ScopeOf[d]
                  PROVE  seqOf'[d] < seqOf'[c]
      BY DEF OrderInv
    <2>1. CASE d \in sent
      BY <2>1 DEF OrderInv, storeVars
    <2>2. CASE d = Current
      <3>1. CASE c \in batch
        BY <1>2, <2>2, <3>1 DEF storeVars
      <3>2. CASE c \notin batch
        BY <1>2, <2>2, <3>2 DEF WalkInv, storeVars
      <3>. QED  BY <3>1, <3>2
    <2>. QED  BY <2>1, <2>2
  <1>. QED  BY <1>3, <1>4, <1>6, <1>7

LEMMA PublishInv ==
  ASSUME Inv, Publish PROVE Inv'
  BY CallInv DEF Publish, Due, Pointing, historyVars

LEMMA BusInv ==
  ASSUME Inv, BusAccepts \/ \E stored \in BOOLEAN : BusFails(stored)
  PROVE  Inv'
  <1>1. /\ at = "calling" /\ at' \in Pointing /\ sent' \in {sent, sent \cup {Current}}
        /\ UNCHANGED <<storeVars, clockVars, batch, blocked, attempts, settled, faults>>
    BY DEF BusAccepts, BusFails, Pointing
  <1>2. ScopeOf[Current] \notin blocked
    BY <1>1 DEF Inv, WalkInv, Pointing
  <1>. QED  BY <1>1, <1>2, CallInv

LEMMA ClockInv ==
  ASSUME Inv, NEW c \in Commands, Clock(c)
  PROVE  Inv'
  <1>. USE DEF Inv
  <1>1. TypeOK'
    BY DEF Clock, DeadlinePasses, AttemptComesDue, RetentionEnds, TypeOK, storeVars, clockVars,
           flushVars, historyVars
  <1>2. /\ UNCHANGED <<rows, receipts, failed, seqOf, flushVars, historyVars>>
        /\ lapsed \subseteq lapsed'
    BY DEF Clock, DeadlinePasses, AttemptComesDue, RetentionEnds, storeVars, clockVars
  <1>3. AcceptedNotLost' /\ TombstoneInv' /\ RetainedInv' /\ OrderInv'
    BY <1>2 DEF AcceptedNotLost, TombstoneInv, RetainedInv, OrderInv, Tombstones, historyVars
  <1>4. UNCHANGED Current
    BY <1>2 DEF Current, flushVars
  <1>5. WalkInv'
    BY <1>2, <1>4 DEF WalkInv, flushVars, historyVars
  <1>. QED  BY <1>1, <1>3, <1>5

LEMMA RestartInv ==
  ASSUME Inv, Restart
  PROVE  Inv'
  <1>. USE DEF Inv
  <1>1. /\ at' = "idle" /\ batch' = {} /\ blocked' = {} /\ attempts' = 0 /\ Fault
        /\ UNCHANGED <<storeVars, clockVars, historyVars>>
    BY DEF Restart, FlushEnds
  <1>2. TypeOK'
    BY <1>1, FaultTypes, OutboxAssumption DEF TypeOK, storeVars, clockVars, historyVars
  <1>3. AcceptedNotLost' /\ TombstoneInv' /\ RetainedInv' /\ OrderInv'
    BY <1>1 DEF AcceptedNotLost, TombstoneInv, RetainedInv, OrderInv, Tombstones, storeVars,
                clockVars, historyVars
  <1>4. WalkInv'
    BY <1>1 DEF WalkInv, Pointing
  <1>. QED  BY <1>2, <1>3, <1>4

LEMMA StutterInv ==
  ASSUME Inv, UNCHANGED vars
  PROVE  Inv'
  BY DEF Inv, TypeOK, AcceptedNotLost, TombstoneInv, RetainedInv, WalkInv, OrderInv, Tombstones,
         Current, vars, storeVars, clockVars, flushVars, historyVars

LEMMA NextInv == Inv /\ [Next]_vars => Inv'
  <1>. SUFFICES ASSUME Inv, [Next]_vars PROVE Inv'
    OBVIOUS
  <1>1. CASE FlushStep
    BY <1>1, FlushBeginsInv, SkipBlockedInv, SkipEarlyInv, PublishExpiredInv, PublishInv,
       BusInv, RecordReceiptInv, RecordRetryInv DEF FlushStep
  <1>2. CASE FlushFault
    BY <1>2, CollectFailsInv, PendingFailsInv, PublishExpiredFailsInv, RecordReceiptFailsInv,
       RecordRetryFailsInv DEF FlushFault
  <1>3. CASE \E c \in Commands : Dispatch(c) \/ DispatchFails(c) \/ Clock(c)
    BY <1>3, DispatchInv, DispatchFailsInv, ClockInv
  <1>4. CASE Restart
    BY <1>4, RestartInv
  <1>5. CASE UNCHANGED vars
    BY <1>5, StutterInv
  <1>. QED  BY <1>1, <1>2, <1>3, <1>4, <1>5 DEF Next

-----------------------------------------------------------------------------
(* Whatever Dispatch, Flush, the clock and restarts do in whatever order,  *)
(* the inductive invariant holds.                                          *)
THEOREM Invariance == Spec => []Inv
  BY InitInv, NextInv, PTL DEF Spec

(* The rows, tombstones and the flush have their types: the queue is never *)
(* longer than its limit and no two rows share a sequence number.          *)
THEOREM TypeCorrect == Spec => []TypeOK
  <1>1. Inv => TypeOK
    BY DEF Inv
  <1>. QED  BY <1>1, Invariance, PTL

(* A command Dispatch accepted is in a row, on the bus or in a tombstone.  *)
THEOREM NothingLost == Spec => []AcceptedNotLost
  <1>1. Inv => AcceptedNotLost
    BY DEF Inv
  <1>. QED  BY <1>1, Invariance, PTL

(* The commands of a scope reach the bus in the order of their admission,  *)
(* whatever fails in between.                                              *)
THEOREM InOrder == Spec => []PublishedInOrder
  <1>1. Inv => PublishedInOrder
    <2>. SUFFICES ASSUME Inv, at = "calling" PROVE PublishedInOrder
      BY DEF PublishedInOrder
    <2>1. Current \in batch /\ Current \in rows
      BY CurrentFacts DEF Inv, TypeOK
    <2>. QED  BY <2>1 DEF Inv, WalkInv, OrderInv, PublishedInOrder
  <1>. QED  BY <1>1, Invariance, PTL

(* A command with a tombstone is not published again, not even from a row  *)
(* that finish failed to delete.                                           *)
THEOREM NoReplay == Spec => []NoReplayAfterTombstone
  <1>1. Inv => NoReplayAfterTombstone
    <2>. SUFFICES ASSUME Inv, at = "calling" PROVE NoReplayAfterTombstone
      BY DEF NoReplayAfterTombstone
    <2>1. Current \in batch
      BY CurrentFacts DEF Inv, TypeOK
    <2>. QED  BY <2>1 DEF Inv, WalkInv, NoReplayAfterTombstone
  <1>. QED  BY <1>1, Invariance, PTL

(* Dispatch accepts a key it accepted before only after the retention of   *)
(* its tombstone.                                                          *)
THEOREM Readmission == Spec => ReadmittedAfterRetention
  <1>. DEFINE A == \A c \in Commands : seqOf[c] > 0 /\ seqOf'[c] # seqOf[c] => c \in lapsed
  <1>1. ASSUME Inv, Next PROVE A
    <2>. SUFFICES ASSUME NEW c \in Commands, seqOf[c] > 0, seqOf'[c] # seqOf[c]
                  PROVE  c \in lapsed
      OBVIOUS
    <2>1. \E d \in Commands : Dispatch(d)
      BY <1>1 DEF Next, FlushStep, FlushFault, FlushBegins, SkipBlocked, SkipEarly, PublishExpired,
            Publish, BusAccepts, BusFails, RecordReceipt, RecordRetry, CollectFails, PendingFails,
            PublishExpiredFails, RecordReceiptFails, RecordRetryFails, DispatchFails, Clock,
            DeadlinePasses, AttemptComesDue, RetentionEnds, Restart, storeVars
    <2>2. c \notin rows \cup Tombstones
      <3>1. PICK d \in Commands : Dispatch(d)
        BY <2>1
      <3>2. d = c
        BY <1>1, <3>1 DEF Inv, TypeOK, Dispatch
      <3>. QED  BY <3>1, <3>2 DEF Dispatch, Admissible
    <2>. QED  BY <1>1, <2>2 DEF Inv, RetainedInv
  <1>2. Inv /\ [Next]_vars => [A]_vars
    BY <1>1
  <1>. QED  BY <1>2, Invariance, PTL DEF Spec, ReadmittedAfterRetention
=============================================================================
