------------------------ MODULE DeliveryOutboxProofs ------------------------
(***************************************************************************)
(* Proofs about the delivery workflow, for every set of commands, every    *)
(* assignment of keys, payload hashes and questions, and every delivery    *)
(* limit: types, one payload and one showing for a delivery key, no second *)
(* call after a recorded or ambiguous one, and that a failed question is   *)
(* continued and a sent prompt bound.                                      *)
(***************************************************************************)
EXTENDS DeliveryOutbox, FiniteSetTheorems, TLAPS

OutcomeNames == {"ok", "unnamed", "retryable", "permanent", "ambiguous", "unclassified",
                 "none"}

(* The outcomes after which the key shows no more than the unclassified    *)
(* calls account for.                                                      *)
Rejected == {"retryable", "permanent", "unclassified"}

(* A row that may be tried: a fresh or a retryable one. *)
Open(r) == r.status = "pending" \/ (r.status = "failed" /\ r.error # "permanent")

(* One Handle call for a delivery key at a time, and only a failed         *)
(* question is continued.                                                  *)
LaneInv ==
    /\ \A c, d \in Commands :
          KeyOf[c] = KeyOf[d] /\ at[c] # "idle" /\ at[d] # "idle" => c = d
    /\ \A c \in Commands : at[c] = "continue" =>
          Asks(c) /\ question[QuestionOf[c]] = "failed"

(* What the row of a durable command is while its Handle call is at work:  *)
(* it holds the command's payload, it is sending around the provider call, *)
(* and only a sent one is bound.                                           *)
RowInv ==
    /\ \A c \in Commands : at[c] \in {"reserve", "mark"} => c \in Durable
    /\ \A c \in Commands : at[c] = "record" => outcome[c] # "none"
    /\ \A c \in Durable :
          /\ at[c] \in {"prepare", "mark"} => Open(row[KeyOf[c]])
          /\ at[c] \in {"send", "record"} => row[KeyOf[c]].status = "sending"
          /\ at[c] \in {"prepare", "mark", "send", "record"} => row[KeyOf[c]].hash = HashOf[c]
          /\ at[c] = "bind" => row[KeyOf[c]].status = "sent"

(* The provider is about to be called for c's key, or was and said no, or  *)
(* the row says that it may be.                                            *)
Unseen(c) ==
    \/ row[KeyOf[c]].status \in {"none", "pending", "failed"}
    \/ at[c] = "send"
    \/ at[c] = "record" /\ outcome[c] \in Rejected

(* What was shown of a durable key. *)
ShownInv ==
    /\ \A k \in Keys : IsFiniteSet(shown[k])
    /\ \A c \in Commands : KeyOf[c] \in DurableKeys =>
          /\ row[KeyOf[c]].status \in {"none", "pending"} => shown[KeyOf[c]] = {}
          /\ \A m \in shown[KeyOf[c]] : m[2] = row[KeyOf[c]].hash
          /\ Cardinality(shown[KeyOf[c]]) <= 1 + unclassified[KeyOf[c]]
          /\ Unseen(c) => Cardinality(shown[KeyOf[c]]) <= unclassified[KeyOf[c]]

(* A key with an ambiguous call stays in sending, and nobody is about to   *)
(* call or to record another outcome.                                      *)
UnsureInv ==
    \A c \in Commands : KeyOf[c] \in DurableKeys \cap unsure =>
        /\ row[KeyOf[c]].status = "sending"
        /\ at[c] # "send"
        /\ at[c] = "record" => outcome[c] = "ambiguous"

(* A failed question has been continued, or a command is left whose next   *)
(* steps lead to the continuation.                                         *)
FailInv ==
    \A q \in Questions : question[q] = "failed" =>
        \/ q \in continued
        \/ \E c \in Commands : /\ QuestionOf[c] = q /\ settled[c] # "acked"
                               /\ at[c] \in {"idle", "check", "continue"}

(* A row that no statement changes any more. *)
Final(r) == r.status = "sent" \/ (r.status = "failed" /\ r.error = "permanent")

(* What a Handle call still visits when its row is final. *)
LatePoints == {"idle", "check", "continue", "reserve", "bind"}

(* A prompt is acknowledged when its question is over or its row is final: *)
(* a delivery that starts late does not send it, nor fail its question.    *)
LateInv ==
    \A c \in Commands : Asks(c) /\ settled[c] = "acked" =>
        \/ QuestionOf[c] \in continued
        \/ question[QuestionOf[c]] \in Suppressed
        \/ Final(row[KeyOf[c]]) /\ at[c] \in LatePoints

(* A prompt that was never sent, or without a message id to bind. *)
Unbindable(r) ==
    \/ r.status = "failed" /\ r.error = "permanent"
    \/ r.status = "sent" /\ ~r.ref

(* An acknowledged prompt is bound, or its question is settled, or there   *)
(* is nothing to bind.                                                     *)
BoundInv ==
    \A c \in Durable : Asks(c) /\ settled[c] = "acked" =>
        \/ QuestionOf[c] \in bound
        \/ question[QuestionOf[c]] # "pending"
        \/ Unbindable(row[KeyOf[c]])

(* The inductive invariant. *)
Inv ==
    /\ TypeOK /\ LaneInv /\ RowInv /\ ShownInv /\ UnsureInv
    /\ FailInv /\ LateInv /\ BoundInv

-----------------------------------------------------------------------------
LEMMA Names == {o.class : o \in Outcomes} \cup {"none"} = OutcomeNames
  <1>1. \A o \in Outcomes : o.class \in OutcomeNames
    BY DEF Outcomes, Successes, OutcomeNames
  <1>2. /\ [class |-> "ok", accepted |-> TRUE] \in Outcomes
        /\ [class |-> "unnamed", accepted |-> TRUE] \in Outcomes
        /\ [class |-> "retryable", accepted |-> FALSE] \in Outcomes
        /\ [class |-> "permanent", accepted |-> FALSE] \in Outcomes
        /\ [class |-> "ambiguous", accepted |-> FALSE] \in Outcomes
        /\ [class |-> "unclassified", accepted |-> FALSE] \in Outcomes
    BY DEF Outcomes, Successes
  <1>3. \A n \in OutcomeNames \ {"none"} : n \in {o.class : o \in Outcomes}
    BY <1>2 DEF OutcomeNames
  <1>. QED  BY <1>1, <1>3 DEF OutcomeNames

LEMMA CommandTypes ==
  ASSUME NEW c \in Commands
  PROVE  /\ KeyOf[c] \in Keys /\ HashOf[c] \in Hashes
         /\ Asks(c) => QuestionOf[c] \in Questions /\ c \in Durable
         /\ KeyOf[c] \in DurableKeys => c \in Durable
  BY OutboxAssumption DEF Keys, Hashes, Asks, DurableKeys

LEMMA InitInv == Init => Inv
  <1>. SUFFICES ASSUME Init PROVE Inv
    OBVIOUS
  <1>1. TypeOK
    <2>1. row \in [Keys -> Rows]
      BY DEF Init, Rows
    <2>2. outcome \in [Commands -> {o.class : o \in Outcomes} \cup {"none"}]
      BY DEF Init
    <2>3. /\ attempts \in [Commands -> 0..MaxDeliver] /\ failures \in 0..MaxFailures
          /\ crashes \in 0..MaxCrashes
      BY OutboxAssumption DEF Init
    <2>. QED  BY <2>1, <2>2, <2>3 DEF Init, TypeOK, HandlePoints
  <1>2. LaneInv /\ RowInv /\ FailInv /\ LateInv /\ BoundInv
    BY OutboxAssumption DEF Init, LaneInv, RowInv, FailInv, LateInv, BoundInv
  <1>3. ShownInv /\ UnsureInv
    BY CommandTypes, FS_EmptySet DEF Init, ShownInv, UnsureInv
  <1>. QED  BY <1>1, <1>2, <1>3 DEF Inv

(* What a statement of c's Handle call leaves of the row when it writes r  *)
(* and moves to p, and what p asks of the row.                             *)
RowFits(c, p, r) ==
    /\ row[KeyOf[c]].status = "none" \/ r.hash = row[KeyOf[c]].hash
    /\ Final(row[KeyOf[c]]) => r = row[KeyOf[c]]
    /\ r.status \in {"none", "pending"} => row[KeyOf[c]].status \in {"none", "pending"}
    /\ c \in Durable /\ (r.status = "failed" \/ p = "send") => Unseen(c)
    /\ KeyOf[c] \in DurableKeys \cap unsure => r.status = "sending" /\ p # "send"
    /\ p # "record" /\ (p \in {"reserve", "mark"} => c \in Durable)
    /\ c \in Durable => /\ p \in {"prepare", "mark"} => Open(r)
                        /\ p = "send" => r.status = "sending"
                        /\ p \in {"prepare", "mark", "send"} => r.hash = HashOf[c]
                        /\ p = "bind" => r.status = "sent"

(* What it leaves of the questions when c is then settled as s. *)
QuestionsFit(c, p, r, s) ==
    /\ p = "continue" => Asks(c) /\ question'[QuestionOf[c]] = "failed"
    /\ question' \in [Questions -> {"pending", "answered", "timed_out", "failed"}]
    /\ \A q \in Questions : question[q] # "pending" => question'[q] = question[q]
    /\ \A q \in Questions : question[q] = "pending" /\ question'[q] = "failed" =>
          QuestionOf[c] = q /\ p = "continue" /\ (s # "acked" \/ q \in continued')
    /\ bound \subseteq bound' /\ bound' \subseteq Questions
    /\ continued \subseteq continued' /\ continued' \subseteq Questions
    /\ (Asks(c) /\ at[c] \in {"check", "continue"}
          /\ question[QuestionOf[c]] = "failed" /\ settled[c] # "acked") =>
          \/ QuestionOf[c] \in continued'
          \/ s # "acked" /\ p \in {"idle", "check", "continue"}
    /\ Asks(c) /\ s = "acked" =>
          /\ \/ QuestionOf[c] \in continued'
             \/ question'[QuestionOf[c]] \in Suppressed
             \/ Final(r) /\ p \in LatePoints
          /\ \/ QuestionOf[c] \in bound'
             \/ question'[QuestionOf[c]] # "pending"
             \/ Unbindable(r)

(* A statement of c's Handle call other than the provider call: c moves to *)
(* point p, or returns with its command settled as s, and its row becomes  *)
(* r.                                                                      *)
LEMMA StatementInv ==
  ASSUME Inv, NEW c \in Commands, at[c] # "idle",
         NEW p \in HandlePoints, NEW o \in OutcomeNames, NEW s \in {"open", "acked", "dead"},
         NEW r \in Rows,
         at' = [at EXCEPT ![c] = p], outcome' = [outcome EXCEPT ![c] = o],
         settled' = [settled EXCEPT ![c] = s],
         row' = [row EXCEPT ![KeyOf[c]] = r],
         RowFits(c, p, r), QuestionsFit(c, p, r, s),
         failures' \in 0..MaxFailures, UNCHANGED <<attempts, waiting, historyVars, crashes>>
  PROVE  Inv'
  <1>. USE DEF Inv, RowFits, QuestionsFit
  <1>1. /\ KeyOf[c] \in Keys /\ (Asks(c) => QuestionOf[c] \in Questions)
        /\ KeyOf[c] \in DurableKeys => c \in Durable
    BY CommandTypes
  <1>2. /\ at'[c] = p /\ outcome'[c] = o /\ settled'[c] = s
        /\ \A d \in Commands \ {c} : /\ at'[d] = at[d] /\ outcome'[d] = outcome[d]
                                     /\ settled'[d] = settled[d]
    BY DEF TypeOK
  <1>3. /\ row'[KeyOf[c]] = r
        /\ \A k \in Keys \ {KeyOf[c]} : row'[k] = row[k]
    BY <1>1 DEF TypeOK
  <1>4. \A d \in Commands : d # c /\ KeyOf[d] = KeyOf[c] => at[d] = "idle" /\ at'[d] = "idle"
    BY <1>2 DEF LaneInv
  <1>5. TypeOK'
    <2>1. at' \in [Commands -> HandlePoints] /\ settled' \in [Commands -> {"open", "acked", "dead"}]
      BY DEF TypeOK
    <2>2. outcome' \in [Commands -> {n.class : n \in Outcomes} \cup {"none"}]
      BY Names DEF TypeOK
    <2>3. row' \in [Keys -> Rows]
      BY <1>1 DEF TypeOK
    <2>. QED  BY <2>1, <2>2, <2>3 DEF TypeOK, historyVars
  <1>6. LaneInv'
    BY <1>1, <1>2, <1>4, OutboxAssumption DEF LaneInv, Asks
  <1>7. RowInv'
    <2>1. ASSUME NEW d \in Durable
          PROVE  /\ at'[d] \in {"prepare", "mark"} => Open(row'[KeyOf[d]])
                 /\ at'[d] \in {"send", "record"} => row'[KeyOf[d]].status = "sending"
                 /\ at'[d] \in {"prepare", "mark", "send", "record"} => row'[KeyOf[d]].hash = HashOf[d]
                 /\ at'[d] = "bind" => row'[KeyOf[d]].status = "sent"
      <3>1. d \in Commands /\ KeyOf[d] \in Keys
        BY OutboxAssumption, CommandTypes
      <3>2. CASE d = c
        BY <1>2, <1>3, <3>2
      <3>3. CASE d # c /\ KeyOf[d] = KeyOf[c]
        BY <1>4, <3>1, <3>3
      <3>4. CASE KeyOf[d] # KeyOf[c]
        BY <1>2, <1>3, <3>1, <3>4 DEF RowInv
      <3>. QED  BY <3>2, <3>3, <3>4
    <2>2. \A d \in Commands : at'[d] \in {"reserve", "mark"} => d \in Durable
      BY <1>2 DEF RowInv
    <2>3. \A d \in Commands : at'[d] = "record" => outcome'[d] # "none"
      BY <1>2 DEF RowInv
    <2>. QED  BY <2>1, <2>2, <2>3 DEF RowInv
  <1>8. ShownInv'
    <2>1. UNCHANGED <<shown, unclassified>>
      BY DEF historyVars
    <2>2. ASSUME NEW d \in Commands, KeyOf[d] \in DurableKeys
          PROVE  /\ row'[KeyOf[d]].status \in {"none", "pending"} => shown[KeyOf[d]] = {}
                 /\ \A m \in shown[KeyOf[d]] : m[2] = row'[KeyOf[d]].hash
                 /\ Cardinality(shown[KeyOf[d]]) <= 1 + unclassified[KeyOf[d]]
                 /\ Unseen(d)' => Cardinality(shown[KeyOf[d]]) <= unclassified[KeyOf[d]]
      <3>1. KeyOf[d] \in Keys
        BY CommandTypes
      <3>2. CASE KeyOf[d] # KeyOf[c]
        BY <1>2, <1>3, <2>2, <3>1, <3>2 DEF ShownInv, Unseen
      <3>3. CASE KeyOf[d] = KeyOf[c]
        <4>1. /\ row[KeyOf[c]].status \in {"none", "pending"} => shown[KeyOf[c]] = {}
              /\ \A m \in shown[KeyOf[c]] : m[2] = row[KeyOf[c]].hash
              /\ Cardinality(shown[KeyOf[c]]) <= 1 + unclassified[KeyOf[c]]
              /\ Unseen(c) => Cardinality(shown[KeyOf[c]]) <= unclassified[KeyOf[c]]
          BY <2>2, <3>3 DEF ShownInv
        <4>2. Unseen(d)' => Unseen(c)
          BY <1>1, <1>2, <1>3, <1>4, <2>2, <3>3 DEF Unseen
        <4>. QED  BY <1>3, <3>3, <4>1, <4>2
      <3>. QED  BY <3>2, <3>3
    <2>. QED  BY <2>1, <2>2 DEF ShownInv
  <1>9. UnsureInv'
    <2>1. ASSUME NEW d \in Commands, KeyOf[d] \in DurableKeys \cap unsure
          PROVE  /\ row'[KeyOf[d]].status = "sending"
                 /\ at'[d] # "send"
                 /\ at'[d] = "record" => outcome'[d] = "ambiguous"
      <3>1. KeyOf[d] \in Keys
        BY CommandTypes
      <3>2. CASE KeyOf[d] # KeyOf[c]
        BY <1>2, <1>3, <2>1, <3>1, <3>2 DEF UnsureInv
      <3>3. CASE KeyOf[d] = KeyOf[c]
        BY <1>2, <1>3, <1>4, <2>1, <3>3 DEF UnsureInv
      <3>. QED  BY <3>2, <3>3
    <2>. QED  BY <2>1 DEF UnsureInv, historyVars
  <1>10. FailInv'
    <2>. SUFFICES ASSUME NEW q \in Questions, question'[q] = "failed", q \notin continued'
                  PROVE  \E d \in Commands : /\ QuestionOf[d] = q /\ settled'[d] # "acked"
                                             /\ at'[d] \in {"idle", "check", "continue"}
      BY DEF FailInv
    <2>1. CASE question[q] = "pending"
      BY <1>2, <2>1
    <2>2. CASE question[q] # "pending"
      <3>1. PICK d \in Commands : /\ QuestionOf[d] = q /\ settled[d] # "acked"
                                  /\ at[d] \in {"idle", "check", "continue"}
        BY <2>2 DEF FailInv
      <3>2. CASE d = c
        <4>1. Asks(c) /\ question[QuestionOf[c]] = "failed"
          BY <2>2, <3>1, <3>2, OutboxAssumption DEF Asks
        <4>. QED  BY <1>2, <3>1, <3>2, <4>1
      <3>3. CASE d # c
        BY <1>2, <3>1, <3>3
      <3>. QED  BY <3>2, <3>3
    <2>. QED  BY <2>1, <2>2
  <1>11. BoundInv'
    <2>. SUFFICES ASSUME NEW d \in Durable, Asks(d), settled'[d] = "acked"
                  PROVE  \/ QuestionOf[d] \in bound'
                         \/ question'[QuestionOf[d]] # "pending"
                         \/ Unbindable(row'[KeyOf[d]])
      BY DEF BoundInv, Asks, Unbindable
    <2>1. d \in Commands /\ KeyOf[d] \in Keys /\ QuestionOf[d] \in Questions
      BY OutboxAssumption, CommandTypes
    <2>2. CASE d = c
      BY <1>2, <1>3, <2>2
    <2>3. CASE d # c
      <3>1. \/ QuestionOf[d] \in bound
            \/ question[QuestionOf[d]] # "pending"
            \/ Unbindable(row[KeyOf[d]])
        BY <1>2, <2>1, <2>3 DEF BoundInv
      <3>2. Unbindable(row[KeyOf[d]]) => row'[KeyOf[d]] = row[KeyOf[d]]
        BY <1>3, <2>1 DEF Unbindable, Final
      <3>. QED  BY <2>1, <3>1, <3>2
    <2>. QED  BY <2>2, <2>3
  <1>12. LateInv'
    <2>. SUFFICES ASSUME NEW d \in Commands, Asks(d), settled'[d] = "acked"
                  PROVE  \/ QuestionOf[d] \in continued'
                         \/ question'[QuestionOf[d]] \in Suppressed
                         \/ Final(row'[KeyOf[d]]) /\ at'[d] \in LatePoints
      BY DEF LateInv, Asks, Final
    <2>1. KeyOf[d] \in Keys /\ QuestionOf[d] \in Questions
      BY CommandTypes
    <2>2. CASE d = c
      BY <1>2, <1>3, <2>2
    <2>3. CASE d # c
      <3>1. \/ QuestionOf[d] \in continued
            \/ question[QuestionOf[d]] \in Suppressed
            \/ Final(row[KeyOf[d]]) /\ at[d] \in LatePoints
        BY <1>2, <2>3 DEF LateInv
      <3>2. Final(row[KeyOf[d]]) => row'[KeyOf[d]] = row[KeyOf[d]]
        BY <1>3, <2>1
      <3>3. question[QuestionOf[d]] \in Suppressed => question'[QuestionOf[d]] \in Suppressed
        BY <2>1 DEF Suppressed
      <3>. QED  BY <1>2, <2>3, <3>1, <3>2, <3>3
    <2>. QED  BY <2>2, <2>3
  <1>. QED  BY <1>5, <1>6, <1>7, <1>8, <1>9, <1>10, <1>11, <1>12

-----------------------------------------------------------------------------
(* How a Handle call moves on, returns and writes.                         *)

LEMMA GoToMoves ==
  ASSUME TypeOK, NEW c \in Commands, NEW p \in HandlePoints, GoTo(c, p)
  PROVE  /\ at' = [at EXCEPT ![c] = p]
         /\ outcome[c] \in OutcomeNames /\ outcome' = [outcome EXCEPT ![c] = outcome[c]]
         /\ settled[c] \in {"open", "acked", "dead"} /\ settled' = [settled EXCEPT ![c] = settled[c]]
         /\ UNCHANGED <<attempts, waiting>>
  BY Names DEF TypeOK, GoTo

LEMMA ReturnMoves ==
  ASSUME TypeOK, NEW c \in Commands, NEW how \in {"ok", "retry", "permanent"}, Return(c, how)
  PROVE  \E s \in {"open", "acked", "dead"} :
            /\ at' = [at EXCEPT ![c] = "idle"] /\ outcome' = [outcome EXCEPT ![c] = "none"]
            /\ settled' = [settled EXCEPT ![c] = s]
            /\ s = "acked" => how = "ok" \/ settled[c] = "acked"
            /\ UNCHANGED <<attempts, waiting>>
  <1>1. PICK s \in Settlements(c, how) : settled' = [settled EXCEPT ![c] = s]
    BY DEF Return
  <1>2. s \in {"open", "acked", "dead"} /\ (s = "acked" => how = "ok" \/ settled[c] = "acked")
    <2>1. CASE settled[c] # "open"
      BY <1>1, <2>1 DEF Settlements, TypeOK
    <2>2. CASE settled[c] = "open"
      BY <1>1, <2>2 DEF Settlements
    <2>. QED  BY <2>1, <2>2
  <1>. QED  BY <1>1, <1>2 DEF Return

LEMMA RowKept ==
  ASSUME TypeOK, NEW c \in Commands, UNCHANGED row
  PROVE  row[KeyOf[c]] \in Rows /\ row' = [row EXCEPT ![KeyOf[c]] = row[KeyOf[c]]]
  BY CommandTypes DEF TypeOK

(* A row of c's key gets a new status. *)
Writes(c, status, error) ==
    /\ \E r \in Rows : /\ row' = [row EXCEPT ![KeyOf[c]] = r]
                       /\ r.status = status /\ r.error = error
                       /\ r.hash = row[KeyOf[c]].hash
    /\ UNCHANGED <<question, bound, continued, boundVars>>

LEMMA RowWritten ==
  ASSUME TypeOK, NEW c \in Commands, NEW status \in {"sending", "sent", "failed"},
         NEW error \in {"none", "retryable", "permanent", "ambiguous"},
         SetRow(KeyOf[c], status, error)
  PROVE  Writes(c, status, error)
  <1>. DEFINE k == KeyOf[c]
              r == [[[row[k] EXCEPT !.status = status] EXCEPT !.error = error]
                                    EXCEPT !.recent = FALSE]
  <1>1. k \in Keys /\ row[k] \in Rows
    BY CommandTypes DEF TypeOK
  <1>2. r \in Rows /\ r.status = status /\ r.error = error /\ r.hash = row[k].hash
    BY <1>1 DEF Rows
  <1>3. row' = [row EXCEPT ![k] = r]
    BY <1>1 DEF SetRow, TypeOK
  <1>. QED  BY <1>2, <1>3 DEF Writes, SetRow

LEMMA RowSent ==
  ASSUME TypeOK, NEW c \in Commands, NEW named \in BOOLEAN,
         MarkDeliverySent(KeyOf[c], named)
  PROVE  Writes(c, "sent", "none")
  <1>. DEFINE k == KeyOf[c]
              r == [[[[row[k] EXCEPT !.status = "sent"] EXCEPT !.error = "none"]
                                    EXCEPT !.recent = FALSE] EXCEPT !.ref = named]
  <1>1. k \in Keys /\ row[k] \in Rows
    BY CommandTypes DEF TypeOK
  <1>2. r \in Rows /\ r.status = "sent" /\ r.error = "none" /\ r.hash = row[k].hash
    BY <1>1 DEF Rows
  <1>3. row' = [row EXCEPT ![k] = r]
    BY <1>1 DEF MarkDeliverySent, TypeOK
  <1>. QED  BY <1>2, <1>3 DEF Writes, MarkDeliverySent

LEMMA BoundTypes ==
  ASSUME TypeOK, Fails \/ UNCHANGED boundVars
  PROVE  failures' \in 0..MaxFailures /\ UNCHANGED crashes
  BY OutboxAssumption DEF TypeOK, Fails, boundVars

(* What is known of an acknowledged prompt. *)
LEMMA LateFacts ==
  ASSUME Inv, NEW c \in Commands, Asks(c), settled[c] = "acked"
  PROVE  /\ \/ QuestionOf[c] \in continued
            \/ question[QuestionOf[c]] \in Suppressed
            \/ Final(row[KeyOf[c]]) /\ at[c] \in LatePoints
         /\ \/ QuestionOf[c] \in bound
            \/ question[QuestionOf[c]] # "pending"
            \/ Unbindable(row[KeyOf[c]])
  BY CommandTypes DEF Inv, LateInv, BoundInv

(* The call moves on without a write. *)
LEMMA GoToInv ==
  ASSUME Inv, NEW c \in Commands, at[c] # "idle", NEW p \in HandlePoints \ {"idle", "record"},
         GoTo(c, p), UNCHANGED <<storeVars, historyVars, boundVars>>,
         p \in {"reserve", "mark"} => c \in Durable,
         c \in Durable => /\ p # "send"
                          /\ p \in {"prepare", "mark"} =>
                                Open(row[KeyOf[c]]) /\ row[KeyOf[c]].hash = HashOf[c]
                          /\ p = "bind" => row[KeyOf[c]].status = "sent",
         p = "continue" => Asks(c) /\ question[QuestionOf[c]] = "failed",
         Asks(c) /\ at[c] \in {"check", "continue"} /\ question[QuestionOf[c]] = "failed" => p = "continue",
         Asks(c) /\ Final(row[KeyOf[c]]) /\ at[c] \in LatePoints => p \in LatePoints
  PROVE  Inv'
  <1>1. TypeOK /\ settled[c] \in {"open", "acked", "dead"}
    BY DEF Inv, TypeOK
  <1>2. row[KeyOf[c]] \in Rows /\ row' = [row EXCEPT ![KeyOf[c]] = row[KeyOf[c]]]
    BY <1>1, RowKept DEF storeVars
  <1>3. /\ at' = [at EXCEPT ![c] = p]
        /\ outcome[c] \in OutcomeNames /\ outcome' = [outcome EXCEPT ![c] = outcome[c]]
        /\ settled' = [settled EXCEPT ![c] = settled[c]] /\ UNCHANGED <<attempts, waiting>>
    BY <1>1, GoToMoves
  <1>4. KeyOf[c] \in DurableKeys \cap unsure => row[KeyOf[c]].status = "sending" /\ p # "send"
    BY CommandTypes DEF Inv, UnsureInv
  <1>5. failures' \in 0..MaxFailures /\ UNCHANGED crashes
    BY <1>1, BoundTypes
  <1>6. /\ UNCHANGED <<question, bound, continued>>
        /\ question' \in [Questions -> {"pending", "answered", "timed_out", "failed"}]
        /\ bound' \subseteq Questions /\ continued' \subseteq Questions
    BY <1>1 DEF TypeOK, storeVars
  <1>7. c \in Durable /\ (row[KeyOf[c]].status = "failed" \/ p = "send") => Unseen(c)
    BY DEF Unseen
  <1>8. Asks(c) /\ settled[c] = "acked" =>
            /\ \/ QuestionOf[c] \in continued'
               \/ question'[QuestionOf[c]] \in Suppressed
               \/ Final(row[KeyOf[c]]) /\ p \in LatePoints
            /\ \/ QuestionOf[c] \in bound'
               \/ question'[QuestionOf[c]] # "pending"
               \/ Unbindable(row[KeyOf[c]])
    BY <1>6, LateFacts
  <1>. QED  BY <1>1, <1>2, <1>3, <1>4, <1>5, <1>6, <1>7, <1>8, StatementInv
      DEF RowFits, QuestionsFit

(* The call returns without having written its row. *)
LEMMA ReturnInv ==
  ASSUME Inv, NEW c \in Commands, at[c] # "idle", NEW how \in {"ok", "retry", "permanent"},
         Return(c, how), UNCHANGED <<row, question, historyVars>>, Fails \/ UNCHANGED boundVars,
         bound \subseteq bound', bound' \subseteq Questions,
         continued \subseteq continued', continued' \subseteq Questions,
         how = "ok" /\ Asks(c) => /\ at[c] \in {"check", "continue"} /\ question[QuestionOf[c]] = "failed" =>
                                        QuestionOf[c] \in continued'
                                  /\ \/ QuestionOf[c] \in continued'
                                     \/ question[QuestionOf[c]] \in Suppressed
                                     \/ Final(row[KeyOf[c]])
                                  /\ \/ QuestionOf[c] \in bound'
                                     \/ question[QuestionOf[c]] # "pending"
                                     \/ Unbindable(row[KeyOf[c]])
  PROVE  Inv'
  <1>1. TypeOK
    BY DEF Inv
  <1>2. row[KeyOf[c]] \in Rows /\ row' = [row EXCEPT ![KeyOf[c]] = row[KeyOf[c]]]
    BY <1>1, RowKept
  <1>3. PICK s \in {"open", "acked", "dead"} :
            /\ at' = [at EXCEPT ![c] = "idle"] /\ outcome' = [outcome EXCEPT ![c] = "none"]
            /\ settled' = [settled EXCEPT ![c] = s]
            /\ s = "acked" => how = "ok" \/ settled[c] = "acked"
            /\ UNCHANGED <<attempts, waiting>>
    BY <1>1, ReturnMoves
  <1>4. KeyOf[c] \in DurableKeys \cap unsure => row[KeyOf[c]].status = "sending"
    BY DEF Inv, UnsureInv
  <1>5. failures' \in 0..MaxFailures /\ UNCHANGED crashes
    BY <1>1, BoundTypes
  <1>6. question' \in [Questions -> {"pending", "answered", "timed_out", "failed"}]
    BY <1>1 DEF TypeOK
  <1>7. row[KeyOf[c]].status = "failed" => Unseen(c)
    BY DEF Unseen
  <1>8. "idle" \in HandlePoints /\ "none" \in OutcomeNames
    BY DEF HandlePoints, OutcomeNames
  <1>9. /\ \A q \in Questions : question'[q] = question[q]
        /\ \A q \in Questions : ~(question[q] = "pending" /\ question'[q] = "failed")
    OBVIOUS
  <1>10. (Asks(c) /\ at[c] \in {"check", "continue"}
            /\ question[QuestionOf[c]] = "failed" /\ settled[c] # "acked") =>
            QuestionOf[c] \in continued' \/ s # "acked"
    BY <1>3
  <1>11. Asks(c) /\ s = "acked" =>
            /\ \/ QuestionOf[c] \in continued'
               \/ question'[QuestionOf[c]] \in Suppressed
               \/ Final(row[KeyOf[c]]) /\ "idle" \in LatePoints
            /\ \/ QuestionOf[c] \in bound'
               \/ question'[QuestionOf[c]] # "pending"
               \/ Unbindable(row[KeyOf[c]])
    <2>1. "idle" \in LatePoints
      BY DEF LatePoints
    <2>2. CASE settled[c] = "acked"
      BY <2>1, <2>2, LateFacts
    <2>3. CASE settled[c] # "acked"
      BY <1>3, <2>1, <2>3
    <2>. QED  BY <2>2, <2>3
  <1>12. UNCHANGED <<attempts, waiting, historyVars, crashes>>
    BY <1>3, <1>5
  <1>. QED
    BY <1>2, <1>3, <1>4, <1>5, <1>6, <1>7, <1>8, <1>9, <1>10, <1>11, <1>12, StatementInv, ZenonT(60)
      DEF RowFits, QuestionsFit

(* A statement on the store failed: the command is tried again. *)
LEMMA RetryInv ==
  ASSUME Inv, NEW c \in Commands, at[c] # "idle", NEW how \in {"retry", "permanent"},
         Return(c, how), Fails \/ UNCHANGED <<storeVars, boundVars>>, UNCHANGED historyVars
  PROVE  Inv'
  <1>1. /\ UNCHANGED storeVars /\ (Fails \/ UNCHANGED boundVars)
    BY DEF Fails, boundVars
  <1>. QED  BY <1>1, ReturnInv DEF Inv, TypeOK, storeVars

(* The row is written, and the call moves on or returns an error. *)
LEMMA WriteInv ==
  ASSUME Inv, NEW c \in Durable, NEW status \in {"sending", "sent", "failed"},
         NEW error \in {"none", "retryable", "permanent", "ambiguous"},
         Writes(c, status, error), UNCHANGED historyVars,
         at[c] \in {"prepare", "mark", "record"}, at[c] = "record" => outcome[c] # "ambiguous",
         status = "failed" => Unseen(c),
         \/ \E how \in {"retry", "permanent"} : Return(c, how)
         \/ GoTo(c, "failQuestion")
         \/ GoTo(c, "send") /\ status = "sending" /\ at[c] = "mark"
         \/ GoTo(c, "bind") /\ status = "sent"
  PROVE  Inv'
  <1>1. TypeOK /\ settled[c] \in {"open", "acked", "dead"} /\ c \in Commands
    BY OutboxAssumption DEF Inv, TypeOK
  <1>2. PICK r \in Rows : /\ row' = [row EXCEPT ![KeyOf[c]] = r]
                          /\ r.status = status /\ r.error = error
                          /\ r.hash = row[KeyOf[c]].hash
    BY DEF Writes
  <1>3. /\ ~Final(row[KeyOf[c]]) /\ ~Unbindable(row[KeyOf[c]])
        /\ row[KeyOf[c]].hash = HashOf[c]
        /\ KeyOf[c] \notin DurableKeys \cap unsure
    BY <1>1 DEF Inv, RowInv, UnsureInv, Open, Final, Unbindable
  <1>4. UNCHANGED <<question, bound, continued, boundVars>>
    BY DEF Writes
  <1>5. failures' \in 0..MaxFailures /\ UNCHANGED crashes
    BY <1>1, <1>4, BoundTypes
  <1>6. /\ question' \in [Questions -> {"pending", "answered", "timed_out", "failed"}]
        /\ bound' \subseteq Questions /\ continued' \subseteq Questions
    BY <1>1, <1>4 DEF TypeOK
  <1>9. Asks(c) /\ settled[c] = "acked" =>
            /\ QuestionOf[c] \in continued' \/ question'[QuestionOf[c]] \in Suppressed
            /\ QuestionOf[c] \in bound' \/ question'[QuestionOf[c]] # "pending"
    BY <1>1, <1>3, <1>4, LateFacts
  <1>7. CASE \E how \in {"retry", "permanent"} : Return(c, how)
    <2>1. PICK how \in {"retry", "permanent"} : Return(c, how)
      BY <1>7
    <2>2. PICK s \in {"open", "acked", "dead"} :
            /\ at' = [at EXCEPT ![c] = "idle"] /\ outcome' = [outcome EXCEPT ![c] = "none"]
            /\ settled' = [settled EXCEPT ![c] = s]
            /\ s = "acked" => how = "ok" \/ settled[c] = "acked"
            /\ UNCHANGED <<attempts, waiting>>
      BY <1>1, <2>1, ReturnMoves
    <2>3. /\ "idle" \in HandlePoints /\ "none" \in OutcomeNames
          /\ s = "acked" => settled[c] = "acked"
      BY <2>1, <2>2 DEF HandlePoints, OutcomeNames
    <2>4. RowFits(c, "idle", r)
      BY <1>2, <1>3 DEF RowFits
    <2>5. QuestionsFit(c, "idle", r, s)
      BY <1>1, <1>4, <1>6, <1>9, <2>3 DEF QuestionsFit
    <2>6. at[c] # "idle" /\ UNCHANGED <<attempts, waiting, historyVars, crashes>>
      BY <1>5, <2>2
    <2>. QED  BY <1>1, <1>2, <1>5, <2>2, <2>3, <2>4, <2>5, <2>6, StatementInv
  <1>8. ASSUME NEW p \in {"failQuestion", "send", "bind"}, GoTo(c, p),
               p = "send" => status = "sending" /\ at[c] = "mark", p = "bind" => status = "sent"
        PROVE  Inv'
    <2>1. p \in HandlePoints
      BY DEF HandlePoints
    <2>2. /\ at' = [at EXCEPT ![c] = p]
          /\ outcome[c] \in OutcomeNames /\ outcome' = [outcome EXCEPT ![c] = outcome[c]]
          /\ settled' = [settled EXCEPT ![c] = settled[c]] /\ UNCHANGED <<attempts, waiting>>
      BY <1>1, <1>8, <2>1, GoToMoves
    <2>3. p = "send" => Unseen(c)
      BY <1>1, <1>8 DEF Inv, RowInv, Unseen, Open
    <2>4. RowFits(c, p, r)
      BY <1>2, <1>3, <1>8, <2>3 DEF RowFits
    <2>5. QuestionsFit(c, p, r, settled[c])
      BY <1>1, <1>4, <1>6, <1>8, <1>9 DEF QuestionsFit
    <2>6. at[c] # "idle" /\ UNCHANGED <<attempts, waiting, historyVars, crashes>>
      BY <1>5, <2>2
    <2>. QED  BY <1>1, <1>2, <1>5, <2>1, <2>2, <2>4, <2>5, <2>6, StatementInv
  <1>. QED  BY <1>7, <1>8

-----------------------------------------------------------------------------
(* One lemma for each statement of Handle.                                 *)

(* A delivery starts, on a free lane, whatever has become of its command. *)
LEMMA StartInv ==
  ASSUME Inv, NEW c \in Commands, LaneFree(c), at' = [at EXCEPT ![c] = "check"],
         attempts' \in [Commands -> 0..MaxDeliver], waiting' \in [Commands -> Nat],
         UNCHANGED <<storeVars, outcome, settled, historyVars, boundVars>>
  PROVE  Inv'
  <1>. USE DEF Inv
  <1>1. /\ \A d \in Commands : KeyOf[d] = KeyOf[c] => at[d] = "idle"
        /\ at' = [at EXCEPT ![c] = "check"]
        /\ UNCHANGED <<row, question, bound, continued, outcome, settled, calls, shown, unsure,
                       unclassified, failures, crashes>>
    BY DEF LaneFree, storeVars, historyVars, boundVars
  <1>2. at'[c] = "check" /\ \A d \in Commands \ {c} : at'[d] = at[d]
    BY <1>1 DEF TypeOK
  <1>3. TypeOK'
    <2>1. at' \in [Commands -> HandlePoints]
      BY <1>1 DEF TypeOK, HandlePoints
    <2>. QED  BY <1>1, <2>1 DEF TypeOK
  <1>4. LaneInv'
    BY <1>1, <1>2 DEF LaneInv
  <1>5. RowInv'
    BY <1>1, <1>2, OutboxAssumption DEF RowInv
  <1>6. ShownInv' /\ UnsureInv'
    BY <1>1, <1>2 DEF ShownInv, UnsureInv, Unseen
  <1>7. FailInv' /\ LateInv' /\ BoundInv'
    BY <1>1, <1>2 DEF FailInv, LateInv, LatePoints, BoundInv
  <1>. QED  BY <1>3, <1>4, <1>5, <1>6, <1>7

LEMMA FetchInv ==
  ASSUME Inv, NEW c \in Commands, Fetch(c)
  PROVE  Inv'
  <1>1. attempts' \in [Commands -> 0..MaxDeliver]
    BY OutboxAssumption DEF Fetch, Inv, TypeOK
  <1>2. CASE LaneFree(c)
    BY <1>1, <1>2, StartInv DEF Fetch, Inv, TypeOK
  <1>3. CASE ~LaneFree(c)
    <2>1. /\ waiting' \in [Commands -> Nat]
          /\ UNCHANGED <<row, question, bound, continued, at, outcome, settled, calls, shown,
                         unsure, unclassified, failures, crashes>>
      BY <1>3 DEF Fetch, Inv, TypeOK, storeVars, historyVars, boundVars
    <2>. QED  BY <1>1, <2>1 DEF Inv, TypeOK, LaneInv, RowInv, ShownInv, UnsureInv, FailInv,
                 LateInv, BoundInv, Unseen
  <1>. QED  BY <1>2, <1>3

LEMMA EnterLaneInv ==
  ASSUME Inv, NEW c \in Commands, EnterLane(c)
  PROVE  Inv'
  <1>1. waiting' \in [Commands -> Nat]
    BY DEF EnterLane, Inv, TypeOK
  <1>. QED  BY <1>1, StartInv DEF EnterLane, Inv, TypeOK

LEMMA CheckQuestionInv ==
  ASSUME Inv, NEW c \in Commands, CheckQuestion(c)
  PROVE  Inv'
  <1>1. at[c] = "check" /\ UNCHANGED historyVars
    BY DEF CheckQuestion
  <1>2. CASE /\ Asks(c) => question[QuestionOf[c]] = "pending"
             /\ GoTo(c, IF c \in Durable THEN "reserve" ELSE "prepare")
             /\ UNCHANGED <<storeVars, boundVars>>
    BY <1>1, <1>2, GoToInv, CommandTypes DEF HandlePoints, LatePoints
  <1>3. CASE /\ Asks(c) /\ question[QuestionOf[c]] = "failed"
             /\ GoTo(c, "continue")
             /\ UNCHANGED <<storeVars, boundVars>>
    BY <1>1, <1>3, GoToInv DEF HandlePoints, LatePoints
  <1>4. CASE /\ Asks(c) /\ question[QuestionOf[c]] \in Suppressed
             /\ Return(c, "ok")
             /\ UNCHANGED <<storeVars, boundVars>>
    BY <1>1, <1>4, ReturnInv DEF Suppressed, storeVars, Inv, TypeOK
  <1>5. CASE Asks(c) /\ Fails /\ Return(c, "retry")
    BY <1>1, <1>5, RetryInv
  <1>. QED  BY <1>2, <1>3, <1>4, <1>5 DEF CheckQuestion

LEMMA ContinueInv ==
  ASSUME Inv, NEW c \in Commands, Continue(c)
  PROVE  Inv'
  <1>1. at[c] = "continue" /\ UNCHANGED historyVars
    BY DEF Continue
  <1>2. CASE /\ continued' = continued \cup {QuestionOf[c]}
             /\ Return(c, "ok")
             /\ UNCHANGED <<row, question, bound, boundVars>>
    <2>1. Asks(c) /\ question[QuestionOf[c]] = "failed" /\ QuestionOf[c] \in Questions
      BY <1>1, CommandTypes DEF Inv, LaneInv
    <2>. QED  BY <1>1, <1>2, <2>1, ReturnInv DEF Inv, TypeOK
  <1>3. CASE Fails /\ Return(c, "retry")
    BY <1>1, <1>3, RetryInv
  <1>. QED  BY <1>2, <1>3 DEF Continue

(* The first command of a key saves its row. *)
LEMMA ReserveNewInv ==
  ASSUME Inv, NEW c \in Commands, at[c] = "reserve", row[KeyOf[c]].status = "none",
         row' = [row EXCEPT ![KeyOf[c]] =
                [status |-> "pending", hash |-> HashOf[c], error |-> "none",
                 recent |-> TRUE, ref |-> FALSE]],
         GoTo(c, "prepare"), UNCHANGED <<question, bound, continued, boundVars, historyVars>>
  PROVE  Inv'
  <1>. DEFINE r == [status |-> "pending", hash |-> HashOf[c], error |-> "none",
                    recent |-> TRUE, ref |-> FALSE]
  <1>1. TypeOK /\ settled[c] \in {"open", "acked", "dead"} /\ "prepare" \in HandlePoints
    BY DEF Inv, TypeOK, HandlePoints
  <1>2. r \in Rows /\ Open(r) /\ r.status = "pending" /\ r.hash = HashOf[c]
    BY CommandTypes DEF Rows, Open
  <1>3. /\ at' = [at EXCEPT ![c] = "prepare"]
        /\ outcome[c] \in OutcomeNames /\ outcome' = [outcome EXCEPT ![c] = outcome[c]]
        /\ settled' = [settled EXCEPT ![c] = settled[c]] /\ UNCHANGED <<attempts, waiting>>
    BY <1>1, GoToMoves
  <1>8. Asks(c) /\ settled[c] = "acked" =>
            /\ QuestionOf[c] \in continued \/ question[QuestionOf[c]] \in Suppressed
            /\ QuestionOf[c] \in bound \/ question[QuestionOf[c]] # "pending"
    BY LateFacts DEF Final, Unbindable
  <1>9. ~Final(row[KeyOf[c]])
    BY DEF Final
  <1>4. KeyOf[c] \notin DurableKeys \cap unsure
    BY DEF Inv, UnsureInv
  <1>5. /\ question' \in [Questions -> {"pending", "answered", "timed_out", "failed"}]
        /\ bound' \subseteq Questions /\ continued' \subseteq Questions
    BY <1>1 DEF TypeOK
  <1>6. failures' \in 0..MaxFailures /\ UNCHANGED crashes
    BY <1>1, BoundTypes
  <1>. HIDE DEF r
  <1>7. row' = [row EXCEPT ![KeyOf[c]] = r]
    BY DEF r
  <1>. QED  BY <1>1, <1>2, <1>3, <1>4, <1>5, <1>6, <1>7, <1>8, <1>9, StatementInv
      DEF RowFits, QuestionsFit

LEMMA ReserveInv ==
  ASSUME Inv, NEW c \in Commands, Reserve(c)
  PROVE  Inv'
  <1>. DEFINE r == row[KeyOf[c]]
  <1>1. at[c] = "reserve" /\ UNCHANGED historyVars /\ c \in Durable
    BY DEF Reserve, Inv, RowInv
  <1>2. CASE /\ r.status = "none"
             /\ row' = [row EXCEPT ![KeyOf[c]] =
                   [status |-> "pending", hash |-> HashOf[c], error |-> "none",
                    recent |-> TRUE, ref |-> FALSE]]
             /\ GoTo(c, "prepare")
             /\ UNCHANGED <<question, bound, continued, boundVars>>
    BY <1>1, <1>2, ReserveNewInv
  <1>3. CASE Fails /\ Return(c, "retry")
    BY <1>1, <1>3, RetryInv
  <1>4. CASE UNCHANGED <<storeVars, boundVars>> /\ \E how \in {"retry", "permanent"} : Return(c, how)
    BY <1>1, <1>4, RetryInv
  <1>5. CASE UNCHANGED <<storeVars, boundVars>> /\ r.status = "sent" /\ GoTo(c, "bind")
    BY <1>1, <1>5, GoToInv DEF HandlePoints, LatePoints
  <1>6. CASE /\ UNCHANGED <<storeVars, boundVars>> /\ r.status = "failed" /\ r.error = "permanent"
             /\ Return(c, "ok")
    BY <1>1, <1>6, ReturnInv DEF storeVars, Inv, TypeOK, Final, Unbindable
  <1>7. CASE UNCHANGED <<storeVars, boundVars>> /\ ~Conflict(r, c) /\ ReadyForAttempt(r) /\ GoTo(c, "prepare")
    <2>1. Open(r) /\ r.hash = HashOf[c] /\ ~Final(r)
      BY <1>7 DEF ReadyForAttempt, Open, Conflict, Final
    <2>. QED  BY <1>1, <1>7, <2>1, GoToInv DEF HandlePoints
  <1>. QED  BY <1>2, <1>3, <1>4, <1>5, <1>6, <1>7 DEF Reserve

LEMMA PrepareInv ==
  ASSUME Inv, NEW c \in Commands, Prepare(c)
  PROVE  Inv'
  <1>1. at[c] = "prepare" /\ UNCHANGED historyVars
    BY DEF Prepare
  <1>2. c \in Durable => Open(row[KeyOf[c]]) /\ row[KeyOf[c]].hash = HashOf[c]
    BY <1>1 DEF Inv, RowInv
  <1>3. CASE /\ GoTo(c, IF c \in Durable THEN "mark" ELSE "send")
             /\ UNCHANGED <<storeVars, boundVars>>
    BY <1>1, <1>2, <1>3, GoToInv DEF HandlePoints, LatePoints
  <1>4. CASE Return(c, "permanent") /\ UNCHANGED <<storeVars, boundVars>>
    BY <1>1, <1>4, RetryInv
  <1>5. CASE c \in Durable /\ SetRow(KeyOf[c], "failed", "permanent") /\ Return(c, "permanent")
    <2>1. Unseen(c)
      BY <1>2, <1>5 DEF Unseen, Open
    <2>2. Writes(c, "failed", "permanent")
      BY <1>5, RowWritten DEF Inv
    <2>. QED  BY <1>1, <1>5, <2>1, <2>2, WriteInv
  <1>6. CASE Fails /\ Return(c, "retry")
    BY <1>1, <1>6, RetryInv
  <1>. QED  BY <1>3, <1>4, <1>5, <1>6 DEF Prepare

LEMMA MarkDeliverySendingInv ==
  ASSUME Inv, NEW c \in Commands, MarkDeliverySending(c)
  PROVE  Inv'
  <1>1. at[c] = "mark" /\ UNCHANGED historyVars /\ c \in Durable
    BY DEF MarkDeliverySending, Inv, RowInv
  <1>2. CASE SetRow(KeyOf[c], "sending", "none") /\ GoTo(c, "send")
    BY <1>1, <1>2, WriteInv, RowWritten DEF Inv
  <1>3. CASE Fails /\ Return(c, "retry")
    BY <1>1, <1>3, RetryInv
  <1>. QED  BY <1>2, <1>3 DEF MarkDeliverySending

LEMMA RecordOutcomeInv ==
  ASSUME Inv, NEW c \in Commands, RecordOutcome(c)
  PROVE  Inv'
  <1>. DEFINE class == IF outcome[c] = "unclassified" THEN "ambiguous" ELSE outcome[c]
  <1>1. at[c] = "record" /\ UNCHANGED historyVars /\ outcome[c] \in OutcomeNames \ {"none"}
    BY Names DEF RecordOutcome, Inv, RowInv, TypeOK
  <1>2. CASE /\ c \in Durable /\ outcome[c] \in Successes
             /\ MarkDeliverySent(KeyOf[c], outcome[c] = "ok") /\ GoTo(c, "bind")
    <2>1. Writes(c, "sent", "none")
      BY <1>2, RowSent DEF Inv
    <2>. QED  BY <1>1, <1>2, <2>1, WriteInv DEF Successes
  <1>3. CASE Fails /\ Return(c, "retry")
    BY <1>1, <1>3, RetryInv
  <1>4. CASE c \notin Durable /\ GoTo(c, "bind") /\ UNCHANGED <<storeVars, boundVars>>
    BY <1>1, <1>4, GoToInv DEF HandlePoints, LatePoints
  <1>5. CASE AfterError(c) /\ (Fails \/ UNCHANGED <<storeVars, boundVars>>)
    <2>1. CASE Return(c, "retry")
      BY <1>1, <1>5, <2>1, RetryInv
    <2>2. CASE GoTo(c, "failQuestion")
      <3>1. UNCHANGED storeVars /\ failures' \in 0..MaxFailures /\ UNCHANGED crashes
        BY <1>5, BoundTypes DEF Inv, Fails, boundVars
      <3>2. /\ TypeOK /\ settled[c] \in {"open", "acked", "dead"}
            /\ "failQuestion" \in HandlePoints
        BY <1>1 DEF Inv, TypeOK, HandlePoints
      <3>3. row[KeyOf[c]] \in Rows /\ row' = [row EXCEPT ![KeyOf[c]] = row[KeyOf[c]]]
        BY <3>1, <3>2, RowKept DEF storeVars
      <3>4. /\ at' = [at EXCEPT ![c] = "failQuestion"]
            /\ outcome' = [outcome EXCEPT ![c] = outcome[c]]
            /\ settled' = [settled EXCEPT ![c] = settled[c]] /\ UNCHANGED <<attempts, waiting>>
        BY <2>2, <3>2, GoToMoves
      <3>5. /\ UNCHANGED <<question, bound, continued>>
            /\ question' \in [Questions -> {"pending", "answered", "timed_out", "failed"}]
            /\ bound' \subseteq Questions /\ continued' \subseteq Questions
        BY <3>1, <3>2 DEF TypeOK, storeVars
      <3>6. KeyOf[c] \in DurableKeys \cap unsure => row[KeyOf[c]].status = "sending"
        BY DEF Inv, UnsureInv
      <3>7. row[KeyOf[c]].status = "failed" => Unseen(c)
        BY DEF Unseen
      <3>8. Asks(c) /\ settled[c] = "acked" =>
              /\ \/ QuestionOf[c] \in continued'
                 \/ question'[QuestionOf[c]] \in Suppressed
              /\ \/ QuestionOf[c] \in bound'
                 \/ question'[QuestionOf[c]] # "pending"
                 \/ Unbindable(row[KeyOf[c]])
        <4>1. at[c] \notin LatePoints
          BY <1>1 DEF LatePoints
        <4>. QED  BY <3>5, <4>1, LateFacts
      <3>9. /\ \A q \in Questions : question'[q] = question[q]
            /\ \A q \in Questions : ~(question[q] = "pending" /\ question'[q] = "failed")
        BY <3>5
      <3>10. UNCHANGED <<attempts, waiting, historyVars, crashes>>
        BY <1>1, <3>1, <3>4
      <3>. QED  BY <1>1, <3>1, <3>2, <3>3, <3>4, <3>5, <3>6, <3>7, <3>8, <3>9, <3>10, StatementInv
      DEF RowFits, QuestionsFit
    <2>. QED  BY <1>5, <2>1, <2>2 DEF AfterError
  <1>6. CASE /\ outcome[c] \notin Successes \cup {"ambiguous"} /\ c \in Durable
             /\ SetRow(KeyOf[c], "failed", class) /\ AfterError(c)
    <2>1. class \in {"none", "retryable", "permanent", "ambiguous"} /\ outcome[c] \in Rejected
      BY <1>1, <1>6 DEF OutcomeNames, Rejected, Successes
    <2>2. Unseen(c)
      BY <1>1, <2>1 DEF Unseen
    <2>3. Return(c, "retry") \/ GoTo(c, "failQuestion")
      BY <1>6 DEF AfterError
    <2>. HIDE DEF class
    <2>4. Writes(c, "failed", class)
      BY <1>6, <2>1, RowWritten DEF Inv
    <2>. QED  BY <1>1, <1>6, <2>1, <2>2, <2>3, <2>4, WriteInv DEF Successes
  <1>. QED  BY <1>2, <1>3, <1>4, <1>5, <1>6 DEF RecordOutcome

LEMMA BindInv ==
  ASSUME Inv, NEW c \in Commands, Bind(c)
  PROVE  Inv'
  <1>1. at[c] = "bind" /\ UNCHANGED historyVars
    BY DEF Bind
  <1>2. CASE /\ bound' = IF Binds(c) THEN bound \cup {QuestionOf[c]} ELSE bound
             /\ Return(c, "ok")
             /\ UNCHANGED <<row, question, continued, boundVars>>
    <2>1. bound \subseteq bound' /\ bound' \subseteq Questions
      BY <1>2, CommandTypes DEF Inv, TypeOK, Binds
    <2>2. Asks(c) => row[KeyOf[c]].status = "sent"
      BY <1>1, CommandTypes DEF Inv, RowInv
    <2>3. Asks(c) => Final(row[KeyOf[c]]) /\ (QuestionOf[c] \in bound' \/ Unbindable(row[KeyOf[c]]))
      BY <1>2, <2>2 DEF Binds, Final, Unbindable
    <2>. QED  BY <1>1, <1>2, <2>1, <2>3, ReturnInv DEF Inv, TypeOK
  <1>3. CASE Fails /\ Return(c, "retry")
    BY <1>1, <1>3, RetryInv
  <1>. QED  BY <1>2, <1>3 DEF Bind

LEMMA FailQuestionInv ==
  ASSUME Inv, NEW c \in Commands, FailQuestion(c)
  PROVE  Inv'
  <1>. DEFINE q == QuestionOf[c]
              unhandled == IF outcome[c] = "permanent" THEN "permanent" ELSE "retry"
  <1>1. at[c] = "failQuestion" /\ UNCHANGED historyVars
    BY DEF FailQuestion
  <1>2. CASE Return(c, unhandled) /\ UNCHANGED <<storeVars, boundVars>>
    BY <1>1, <1>2, RetryInv
  <1>3. CASE /\ Asks(c) /\ question[q] \in {"pending", "failed"}
             /\ question' = [question EXCEPT ![q] = "failed"]
             /\ GoTo(c, "continue")
             /\ UNCHANGED <<row, bound, continued, boundVars>>
    <2>1. /\ TypeOK /\ settled[c] \in {"open", "acked", "dead"}
          /\ "continue" \in HandlePoints /\ q \in Questions
      BY <1>1, <1>3, CommandTypes DEF Inv, TypeOK, HandlePoints
    <2>2. row[KeyOf[c]] \in Rows /\ row' = [row EXCEPT ![KeyOf[c]] = row[KeyOf[c]]]
      BY <1>3, <2>1, RowKept
    <2>3. /\ at' = [at EXCEPT ![c] = "continue"]
          /\ outcome[c] \in OutcomeNames /\ outcome' = [outcome EXCEPT ![c] = outcome[c]]
          /\ settled' = [settled EXCEPT ![c] = settled[c]] /\ UNCHANGED <<attempts, waiting>>
      BY <1>3, <2>1, GoToMoves
    <2>9. settled[c] = "acked" => q \in continued
      BY <1>1, <1>3, LateFacts DEF LatePoints, Suppressed
    <2>4. /\ question' \in [Questions -> {"pending", "answered", "timed_out", "failed"}]
          /\ question'[q] = "failed" /\ \A x \in Questions \ {q} : question'[x] = question[x]
          /\ bound' \subseteq Questions /\ continued' \subseteq Questions
      BY <1>3, <2>1 DEF TypeOK
    <2>5. KeyOf[c] \in DurableKeys \cap unsure => row[KeyOf[c]].status = "sending"
      BY DEF Inv, UnsureInv
    <2>6. row[KeyOf[c]].status = "failed" => Unseen(c)
      BY DEF Unseen
    <2>7. failures' \in 0..MaxFailures /\ UNCHANGED crashes
      BY <1>3, <2>1, BoundTypes
    <2>8. /\ \A x \in Questions : question[x] # "pending" => question'[x] = question[x]
          /\ \A x \in Questions : question[x] = "pending" /\ question'[x] = "failed" =>
                QuestionOf[c] = x /\ (settled[c] # "acked" \/ x \in continued')
      BY <1>3, <2>4, <2>9
    <2>10. /\ settled[c] = "acked" => QuestionOf[c] \in continued'
           /\ question'[QuestionOf[c]] = "failed" /\ Asks(c)
           /\ bound \subseteq bound' /\ continued \subseteq continued'
           /\ "failed" # "pending"
      BY <1>3, <2>4, <2>9
    <2>11. UNCHANGED <<attempts, waiting, historyVars, crashes>>
      BY <1>1, <2>3, <2>7
    <2>12. RowFits(c, "continue", row[KeyOf[c]])
      BY <2>5, <2>6 DEF RowFits
    <2>13. QuestionsFit(c, "continue", row[KeyOf[c]], settled[c])
      BY <1>1, <2>4, <2>8, <2>10 DEF QuestionsFit
    <2>. QED
      BY <1>1, <2>1, <2>2, <2>3, <2>7, <2>11, <2>12, <2>13, StatementInv
  <1>4. CASE Fails /\ Return(c, "retry")
    BY <1>1, <1>4, RetryInv
  <1>. QED  BY <1>2, <1>3, <1>4 DEF FailQuestion

(* The provider is called: only a call it accepted adds to what is shown,  *)
(* and before the call the key showed no more than the unclassified calls. *)
LEMMA SendInv ==
  ASSUME Inv, NEW c \in Commands, NEW o \in Outcomes, Send(c, o)
  PROVE  Inv'
  <1>. USE DEF Inv
  <1>. DEFINE k == KeyOf[c]
              counts == k \in DurableKeys
              new == IF counts /\ o.accepted THEN {<<calls[k] + 1, HashOf[c]>>} ELSE {}
  <1>1. /\ at[c] = "send" /\ at' = [at EXCEPT ![c] = "record"]
        /\ outcome' = [outcome EXCEPT ![c] = o.class]
        /\ calls' = IF counts THEN [calls EXCEPT ![k] = @ + 1] ELSE calls
        /\ shown' = IF counts /\ o.accepted
                    THEN [shown EXCEPT ![k] = @ \cup {<<calls[k] + 1, HashOf[c]>>}]
                    ELSE shown
        /\ unsure' = IF counts /\ o.class = "ambiguous" THEN unsure \cup {k} ELSE unsure
        /\ unclassified' = IF counts /\ o.class = "unclassified" /\ o.accepted
                           THEN [unclassified EXCEPT ![k] = @ + 1]
                           ELSE unclassified
        /\ UNCHANGED <<row, question, bound, continued, attempts, waiting, settled, failures,
                       crashes>>
    BY DEF Send, storeVars, boundVars
  <1>2. /\ k \in Keys /\ HashOf[c] \in Hashes /\ (k \in DurableKeys => c \in Durable)
        /\ o.class \in OutcomeNames \ {"none"} /\ o.accepted \in BOOLEAN
        /\ o.class \in {"retryable", "permanent"} => ~o.accepted
    BY CommandTypes DEF Outcomes, Successes, OutcomeNames
  <1>3. /\ at'[c] = "record" /\ outcome'[c] = o.class
        /\ \A d \in Commands \ {c} : at'[d] = at[d] /\ outcome'[d] = outcome[d]
        /\ \A d \in Commands : d # c /\ KeyOf[d] = k => at[d] = "idle"
    BY <1>1 DEF TypeOK, LaneInv
  <1>4. /\ shown'[k] = shown[k] \cup new
        /\ \A x \in Keys \ {k} : shown'[x] = shown[x] /\ unclassified'[x] = unclassified[x]
        /\ unclassified'[k] = IF counts /\ o.class = "unclassified" /\ o.accepted
                              THEN unclassified[k] + 1 ELSE unclassified[k]
        /\ unclassified[k] \in Nat
    BY <1>1, <1>2 DEF TypeOK
  <1>5. TypeOK'
    <2>1. at' \in [Commands -> HandlePoints]
      BY <1>1 DEF TypeOK, HandlePoints
    <2>2. outcome' \in [Commands -> {n.class : n \in Outcomes} \cup {"none"}]
      BY <1>1 DEF TypeOK
    <2>3. calls' \in [Keys -> Nat] /\ unclassified' \in [Keys -> Nat]
      BY <1>1, <1>2 DEF TypeOK
    <2>4. shown' \in [Keys -> SUBSET (Nat \X Hashes)]
      <3>1. calls[k] + 1 \in Nat
        BY <1>2 DEF TypeOK
      <3>2. {<<calls[k] + 1, HashOf[c]>>} \in SUBSET (Nat \X Hashes)
        BY <1>2, <3>1
      <3>. QED  BY <1>1, <1>2, <3>2 DEF TypeOK
    <2>5. unsure' \subseteq Keys
      BY <1>1, <1>2 DEF TypeOK
    <2>. QED  BY <1>1, <2>1, <2>2, <2>3, <2>4, <2>5 DEF TypeOK
  <1>6. LaneInv'
    BY <1>1, <1>3 DEF LaneInv
  <1>7. RowInv'
    <2>1. c \in Durable => row[k].status = "sending" /\ row[k].hash = HashOf[c]
      BY <1>1 DEF RowInv
    <2>. QED  BY <1>1, <1>2, <1>3, <2>1, OutboxAssumption DEF RowInv
  <1>8. ShownInv'
    <2>1. /\ IsFiniteSet(shown[k]) /\ IsFiniteSet(shown'[k])
          /\ Cardinality(shown[k]) \in Nat /\ Cardinality(shown'[k]) \in Nat
          /\ Cardinality(shown'[k]) <= Cardinality(shown[k]) + 1
          /\ ~o.accepted => shown'[k] = shown[k]
      <3>1. IsFiniteSet(shown[k])
        BY <1>2 DEF ShownInv
      <3>2. CASE counts /\ o.accepted
        <4>. DEFINE x == <<calls[k] + 1, HashOf[c]>>
        <4>1. shown'[k] = shown[k] \cup {x}
          BY <1>4, <3>2
        <4>. HIDE DEF x
        <4>2. /\ IsFiniteSet(shown[k] \cup {x}) /\ Cardinality(shown[k]) \in Nat
              /\ \/ Cardinality(shown[k] \cup {x}) = Cardinality(shown[k])
                 \/ Cardinality(shown[k] \cup {x}) = Cardinality(shown[k]) + 1
          BY <3>1, FS_AddElement, FS_CardinalityType
        <4>. QED  BY <3>1, <3>2, <4>1, <4>2
      <3>3. CASE ~(counts /\ o.accepted)
        BY <1>4, <3>1, <3>3, FS_CardinalityType
      <3>. QED  BY <1>2, <3>1, <3>2, <3>3
    <2>2. ASSUME NEW d \in Commands, KeyOf[d] \in DurableKeys
          PROVE  /\ row'[KeyOf[d]].status \in {"none", "pending"} => shown'[KeyOf[d]] = {}
                 /\ \A m \in shown'[KeyOf[d]] : m[2] = row'[KeyOf[d]].hash
                 /\ Cardinality(shown'[KeyOf[d]]) <= 1 + unclassified'[KeyOf[d]]
                 /\ Unseen(d)' => Cardinality(shown'[KeyOf[d]]) <= unclassified'[KeyOf[d]]
      <3>1. CASE KeyOf[d] # k
        <4>1. KeyOf[d] \in Keys
          BY CommandTypes
        <4>. QED  BY <1>1, <1>3, <1>4, <2>2, <3>1, <4>1 DEF ShownInv, Unseen
      <3>2. CASE KeyOf[d] = k
        <4>1. c \in Durable /\ row[k].status = "sending" /\ row[k].hash = HashOf[c] /\ row' = row
          BY <1>1, <1>2, <2>2, <3>2 DEF RowInv
        <4>2. Cardinality(shown[k]) <= unclassified[k]
          BY <1>1, <2>2, <3>2 DEF ShownInv, Unseen
        <4>3. \A m \in shown'[k] : m[2] = row[k].hash
          BY <1>1, <1>4, <2>2, <3>2, <4>1 DEF ShownInv
        <4>4. Cardinality(shown'[k]) <= 1 + unclassified'[k]
          BY <1>4, <2>1, <4>2
        <4>5. Unseen(d)' => o.class \in Rejected
          BY <1>3, <3>2, <4>1 DEF Unseen
        <4>6. o.class \in Rejected => Cardinality(shown'[k]) <= unclassified'[k]
          <5>1. CASE o.class = "unclassified" /\ o.accepted
            BY <1>4, <2>1, <2>2, <3>2, <4>2, <5>1
          <5>2. CASE ~o.accepted
            BY <1>4, <2>1, <4>2, <5>2
          <5>. QED  BY <1>2, <5>1, <5>2 DEF Rejected
        <4>. QED  BY <3>2, <4>1, <4>3, <4>4, <4>5, <4>6
      <3>. QED  BY <3>1, <3>2
    <2>3. \A x \in Keys : IsFiniteSet(shown'[x])
      BY <1>4, <2>1 DEF ShownInv
    <2>. QED  BY <2>2, <2>3 DEF ShownInv
  <1>9. UnsureInv'
    <2>. SUFFICES ASSUME NEW d \in Commands, KeyOf[d] \in DurableKeys \cap unsure'
                  PROVE  /\ row'[KeyOf[d]].status = "sending"
                         /\ at'[d] # "send"
                         /\ at'[d] = "record" => outcome'[d] = "ambiguous"
      BY DEF UnsureInv
    <2>1. CASE KeyOf[d] \in unsure
      <3>1. KeyOf[d] # k
        BY <1>1, <2>1 DEF UnsureInv
      <3>. QED  BY <1>1, <1>3, <2>1, <3>1 DEF UnsureInv
    <2>2. CASE KeyOf[d] \notin unsure
      <3>1. KeyOf[d] = k /\ o.class = "ambiguous" /\ c \in Durable
        BY <1>1, <1>2, <2>2
      <3>2. row'[k].status = "sending"
        BY <1>1, <3>1 DEF RowInv
      <3>. QED  BY <1>3, <3>1, <3>2
    <2>. QED  BY <2>1, <2>2
  <1>10. FailInv'
    BY <1>1, <1>3 DEF FailInv
  <1>11. BoundInv'
    BY <1>1 DEF BoundInv
  <1>12. LateInv'
    BY <1>1, <1>3 DEF LateInv, LatePoints
  <1>. QED  BY <1>5, <1>6, <1>7, <1>8, <1>9, <1>10, <1>11, <1>12

-----------------------------------------------------------------------------
LEMMA RowAgesInv ==
  ASSUME Inv, NEW k \in Keys, RowAges(k)
  PROVE  Inv'
  <1>. USE DEF Inv
  <1>1. /\ row' = [row EXCEPT ![k].recent = FALSE]
        /\ UNCHANGED <<question, bound, continued, at, outcome, attempts, waiting, settled, calls, shown,
                       unsure, unclassified, failures, crashes>>
    BY DEF RowAges, handlerVars, historyVars, boundVars
  <1>2. \A x \in Keys : /\ row'[x] \in Rows /\ row'[x].status = row[x].status
                        /\ row'[x].hash = row[x].hash /\ row'[x].error = row[x].error
                        /\ row'[x].ref = row[x].ref
    <2>1. row[k] \in Rows /\ row' = [row EXCEPT ![k] = [row[k] EXCEPT !.recent = FALSE]]
      BY <1>1 DEF TypeOK
    <2>2. /\ [row[k] EXCEPT !.recent = FALSE] \in Rows
          /\ \A f \in {"status", "hash", "error", "ref"} : [row[k] EXCEPT !.recent = FALSE][f] = row[k][f]
      BY <2>1 DEF Rows
    <2>3. \A x \in Keys : x # k => row'[x] = row[x] /\ row[x] \in Rows
      BY <2>1 DEF TypeOK
    <2>4. row'[k] = [row[k] EXCEPT !.recent = FALSE]
      BY <2>1 DEF TypeOK
    <2>. QED  BY <2>2, <2>3, <2>4
  <1>3. TypeOK'
    <2>1. row' \in [Keys -> Rows]
      BY <1>1, <1>2 DEF TypeOK
    <2>. QED  BY <1>1, <2>1 DEF TypeOK
  <1>4. LaneInv' /\ FailInv'
    BY <1>1 DEF LaneInv, FailInv
  <1>5. \A c \in Commands : KeyOf[c] \in Keys
    BY CommandTypes
  <1>6. RowInv' /\ LateInv' /\ BoundInv'
    BY <1>1, <1>2, <1>5, OutboxAssumption DEF RowInv, LateInv, BoundInv, Open, Final, Unbindable
  <1>7. ShownInv' /\ UnsureInv'
    BY <1>1, <1>2, <1>5 DEF ShownInv, UnsureInv, Unseen
  <1>. QED  BY <1>3, <1>4, <1>6, <1>7

LEMMA ResolveInv ==
  ASSUME Inv, NEW q \in Questions, NEW status \in {"answered", "timed_out"}, Resolve(q, status)
  PROVE  Inv'
  <1>. USE DEF Inv
  <1>1. /\ question[q] = "pending" /\ question' = [question EXCEPT ![q] = status]
        /\ UNCHANGED <<row, bound, continued, at, outcome, attempts, waiting, settled, calls, shown,
                       unsure, unclassified, failures, crashes>>
    BY DEF Resolve, handlerVars, historyVars, boundVars
  <1>2. question'[q] = status /\ \A x \in Questions \ {q} : question'[x] = question[x]
    BY <1>1 DEF TypeOK
  <1>3. TypeOK'
    BY <1>1 DEF TypeOK
  <1>4. \A c \in Commands : Asks(c) => QuestionOf[c] \in Questions
    BY CommandTypes
  <1>5. LaneInv' /\ FailInv'
    BY <1>1, <1>2, <1>4 DEF LaneInv, FailInv
  <1>6. BoundInv' /\ LateInv'
    BY <1>1, <1>2, <1>4, OutboxAssumption DEF BoundInv, LateInv, Suppressed
  <1>7. RowInv' /\ ShownInv' /\ UnsureInv'
    BY <1>1 DEF RowInv, ShownInv, UnsureInv, Unseen
  <1>. QED  BY <1>3, <1>5, <1>6, <1>7

LEMMA CrashInv ==
  ASSUME Inv, Crash
  PROVE  Inv'
  <1>. USE DEF Inv
  <1>1. /\ crashes < MaxCrashes /\ crashes' = crashes + 1
        /\ at' = [c \in Commands |-> "idle"] /\ outcome' = [c \in Commands |-> "none"]
        /\ waiting' = [c \in Commands |-> 0]
        /\ UNCHANGED <<row, question, bound, continued, attempts, settled, calls, shown,
                       unsure, unclassified, failures>>
    BY DEF Crash, storeVars, historyVars
  <1>2. \A c \in Commands : at'[c] = "idle"
    BY <1>1
  <1>3. TypeOK'
    <2>1. /\ at' \in [Commands -> HandlePoints] /\ crashes' \in 0..MaxCrashes
          /\ outcome' \in [Commands -> {n.class : n \in Outcomes} \cup {"none"}]
      BY <1>1, OutboxAssumption DEF TypeOK, HandlePoints
    <2>. QED  BY <1>1, <2>1 DEF TypeOK
  <1>4. LaneInv' /\ RowInv'
    BY <1>2, OutboxAssumption DEF LaneInv, RowInv
  <1>5. ShownInv' /\ UnsureInv'
    BY <1>1, <1>2 DEF ShownInv, UnsureInv, Unseen
  <1>6. FailInv' /\ LateInv' /\ BoundInv'
    BY <1>1, <1>2 DEF FailInv, LateInv, LatePoints, BoundInv
  <1>. QED  BY <1>3, <1>4, <1>5, <1>6

LEMMA StutterInv ==
  ASSUME Inv, UNCHANGED vars
  PROVE  Inv'
  <1>1. UNCHANGED <<row, question, bound, continued, at, outcome, attempts, waiting, settled, calls, shown,
                    unsure, unclassified, failures, crashes>>
    BY DEF vars, storeVars, handlerVars, historyVars, boundVars
  <1>. QED
    BY <1>1 DEF Inv, TypeOK, LaneInv, RowInv, ShownInv, UnsureInv, FailInv, LateInv,
                BoundInv, Unseen

LEMMA NextInv == Inv /\ [Next]_vars => Inv'
  <1>. SUFFICES ASSUME Inv, [Next]_vars PROVE Inv'
    OBVIOUS
  <1>1. CASE \E c \in Commands : Handle(c)
    BY <1>1, FetchInv, EnterLaneInv, CheckQuestionInv, ContinueInv, ReserveInv, PrepareInv,
       MarkDeliverySendingInv, SendInv, RecordOutcomeInv, FailQuestionInv, BindInv DEF Handle
  <1>2. CASE \E k \in Keys : RowAges(k)
    BY <1>2, RowAgesInv
  <1>3. CASE \E q \in Questions, status \in {"answered", "timed_out"} : Resolve(q, status)
    BY <1>3, ResolveInv
  <1>4. CASE Crash
    BY <1>4, CrashInv
  <1>5. CASE UNCHANGED vars
    BY <1>5, StutterInv
  <1>. QED  BY <1>1, <1>2, <1>3, <1>4, <1>5 DEF Next

-----------------------------------------------------------------------------
(* Whatever the provider answers, whatever statement fails and wherever    *)
(* the process dies, the inductive invariant holds.                        *)
THEOREM Invariance == Spec => []Inv
  BY InitInv, NextInv, PTL DEF Spec

(* Rows, questions and Handle calls have their types. *)
THEOREM TypeCorrect == Spec => []TypeOK
  <1>1. Inv => TypeOK
    BY DEF Inv
  <1>. QED  BY <1>1, Invariance, PTL

LEMMA DurableKey ==
  ASSUME NEW k \in DurableKeys
  PROVE  \E c \in Commands : KeyOf[c] = k
  BY DEF DurableKeys, Keys

(* Through the outbox a message is shown once, plus once for every         *)
(* accepted call an adapter did not classify, whatever is redelivered.     *)
THEOREM Once == Spec => []ShownOnce
  <1>1. Inv => ShownOnce
    BY DurableKey DEF Inv, ShownInv, ShownOnce
  <1>. QED  BY <1>1, Invariance, PTL

(* Everything shown under one delivery key is the payload its row reserved.*)
THEOREM OnePayload == Spec => []OnePayloadPerKey
  <1>1. Inv => OnePayloadPerKey
    <2>. SUFFICES ASSUME Inv, NEW k \in DurableKeys, NEW m \in shown[k], NEW n \in shown[k]
                  PROVE  m[2] = n[2]
      BY DEF OnePayloadPerKey
    <2>1. PICK c \in Commands : KeyOf[c] = k
      BY DurableKey
    <2>. QED  BY <2>1 DEF Inv, ShownInv
  <1>. QED  BY <1>1, Invariance, PTL

(* A failed question is continued before the last command that could tell  *)
(* of it is acknowledged.                                                  *)
THEOREM Continuation == Spec => []FailureContinued
  <1>1. Inv => FailureContinued
    BY DEF Inv, FailInv, FailureContinued
  <1>. QED  BY <1>1, Invariance, PTL

(* An acknowledged prompt that was sent, and has a message id, is bound    *)
(* while its question is pending.                                          *)
THEOREM PromptBound == Spec => []SentPromptBound
  <1>1. Inv => SentPromptBound
    BY DEF Inv, BoundInv, Unbindable, SentPromptBound
  <1>. QED  BY <1>1, Invariance, PTL

(* After a recorded or an ambiguous send no step calls the provider for    *)
(* that key again.                                                         *)
THEOREM NoSecondCall == Spec => NeverResent
  <1>. DEFINE A == \A k \in DurableKeys :
                      row[k].status = "sent" \/ k \in unsure => calls'[k] = calls[k]
  <1>1. ASSUME Inv, [Next]_vars PROVE A
    <2>. SUFFICES ASSUME NEW k \in DurableKeys, row[k].status = "sent" \/ k \in unsure
                  PROVE  calls'[k] = calls[k]
      OBVIOUS
    <2>1. CASE \E c \in Commands, o \in Outcomes : Send(c, o)
      <3>1. PICK c \in Commands, o \in Outcomes : Send(c, o)
        BY <2>1
      <3>2. KeyOf[c] # k
        <4>. SUFFICES ASSUME KeyOf[c] = k PROVE FALSE
          OBVIOUS
        <4>1. c \in Durable /\ at[c] = "send"
          BY <3>1, CommandTypes DEF Send
        <4>. QED  BY <1>1, <4>1 DEF Inv, RowInv, UnsureInv
      <3>. QED  BY <1>1, <3>1, <3>2 DEF Send, Inv, TypeOK
    <2>2. CASE ~(\E c \in Commands, o \in Outcomes : Send(c, o))
      BY <1>1, <2>2 DEF Next, Handle, Fetch, EnterLane, CheckQuestion, Continue, Reserve, Prepare,
            MarkDeliverySending, RecordOutcome, FailQuestion, Bind, RowAges, Resolve, Crash,
            historyVars, vars
    <2>. QED  BY <2>1, <2>2
  <1>2. Inv /\ [Next]_vars => [A]_vars
    BY <1>1
  <1>. QED  BY <1>2, Invariance, PTL DEF Spec, NeverResent
=============================================================================
