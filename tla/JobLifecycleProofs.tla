------------------------- MODULE JobLifecycleProofs -------------------------
(***************************************************************************)
(* Proofs about the job lifecycle, for every set of jobs, callers and      *)
(* sources and every bound: types, the fate of published events, complete  *)
(* sweeps, the answer to the loser of a terminal race, and the             *)
(* implementation of JobHistory.                                           *)
(***************************************************************************)
EXTENDS JobLifecycle, TLAPS

(* What a caller in the middle of a call relies on: the event it publishes *)
(* is committed, the job it reads again is over, and so is every job its   *)
(* sweep has dealt with.                                                   *)
CallInv ==
    \A c \in Callers :
        /\ pc[c] = "publish" => ev[c] \in outbox
        /\ pc[c] = "reread" => ev[c] \in Events /\ status[ev[c][1]] \in Terminal
        /\ \A j \in listed[c] \ left[c] : status[j] \in Terminal

(* What the stream took is in the history, terminated or still there:      *)
(* every event that is marked, about to be marked, or a duplicate.         *)
Kept == history \cup dropped \cup {m.event : m \in stream}

KeptInv == published \cup recent \subseteq Kept /\ sent \in Kept \cup {NoEvent}

(* Every delivery but the one in hand was cut short. *)
TriesInv ==
    \A m \in stream : m.tries <= failures + crashes + (IF m.held THEN 1 ELSE 0)

SafeInv == KeptInv /\ TriesInv /\ CallInv /\ SweptIsOver /\ LoserIsTold

(* The inductive invariant. *)
Inv == TypeOK /\ SafeInv

StoreTypeOK ==
    /\ status \in [Jobs -> Statuses \cup {"absent"}]
    /\ outbox \subseteq Events
    /\ published \subseteq outbox

Messages == [event : outbox, copy : Nat, tries : 0..MaxDeliver, held : BOOLEAN]

(* The bounds only grow. *)
Counted == failures <= failures' /\ crashes <= crashes'

-----------------------------------------------------------------------------
(* The job of an event, and the events a call can make. *)
LEMMA EventFacts ==
  /\ \A j \in Jobs : CreatedEvent(j) \in Events
  /\ \A j \in Jobs, s \in Targets \cup {"canceled"}, x \in Sources :
        <<j, s, x>> \in Events
  /\ \A e \in Events : e[1] \in Jobs
  BY DEF Events, CreatedEvent

LEMMA StatusFacts ==
  /\ Targets \cup {"canceled"} \subseteq Statuses
  /\ Terminal \subseteq Statuses
  /\ "created" \in Statuses /\ "created" \notin Terminal
  /\ "absent" \notin Terminal /\ "canceled" \in Terminal
  /\ "created" \notin Targets \cup {"canceled"}
  BY JobAssumption DEF Statuses, Active, Terminal

(* The guard lets a terminal status only be confirmed. *)
LEMMA GuardFinal ==
  ASSUME NEW a, NEW b, GuardJobStatusTransition(a, b), a \in Terminal
  PROVE  b = a
  BY DEF GuardJobStatusTransition

(* It refuses a terminal status only to a job that is over. *)
LEMMA GuardRefuses ==
  ASSUME NEW a, NEW b \in Terminal, ~GuardJobStatusTransition(a, b)
  PROVE  a \in Terminal
  BY StatusFacts DEF GuardJobStatusTransition

(* A transaction that respects the guard keeps every terminal status. *)
Final == \A j \in Jobs : status[j] \in Terminal => status'[j] = status[j]

-----------------------------------------------------------------------------
LEMMA InitInv == Init => Inv
  <1>. SUFFICES ASSUME Init PROVE Inv
    OBVIOUS
  <1>1. PICK known \in SUBSET Jobs : InitWith(known)
    BY DEF Init
  <1>2. {CreatedEvent(j) : j \in known} \subseteq Events
    BY EventFacts
  <1>3. StoreTypeOK
    BY <1>1, <1>2, StatusFacts DEF InitWith, StoreTypeOK
  <1>4. history \subseteq outbox /\ KeptInv /\ TriesInv
    BY <1>1 DEF Init, InitWith, KeptInv, Kept, TriesInv
  <1>5. TypeOK
    BY <1>3, <1>4, JobAssumption DEF Init, StoreTypeOK, TypeOK
  <1>6. CallInv /\ SweptIsOver /\ LoserIsTold
    BY DEF Init, CallInv, SweptIsOver, LoserIsTold
  <1>. QED  BY <1>4, <1>5, <1>6 DEF Inv, SafeInv

(* Return ends a call, and a sweep without jobs left: all it listed is     *)
(* over by CallInv.                                                        *)
LEMMA ReturnTypes ==
  ASSUME TypeOK, NEW c \in Callers, Return(c)
  PROVE  /\ pc' \in [Callers -> {"idle", "publish", "reread", "sweep"}]
         /\ ev' \in [Callers -> Events \cup {NoEvent}]
         /\ left' \in [Callers -> SUBSET Jobs]
         /\ listed' \in [Callers -> SUBSET Jobs]
         /\ swept' \subseteq Jobs
  BY DEF TypeOK, Return, GoTo

LEMMA ReturnCalls ==
  ASSUME TypeOK, CallInv, SweptIsOver, NEW c \in Callers, Return(c),
         Final, outbox \subseteq outbox'
  PROVE  CallInv' /\ SweptIsOver'
  <1>1. SweptIsOver'
    BY DEF TypeOK, CallInv, SweptIsOver, Return, Final
  <1>2. CallInv'
    <2>. SUFFICES ASSUME NEW d \in Callers
                  PROVE  /\ pc'[d] = "publish" => ev'[d] \in outbox'
                         /\ pc'[d] = "reread" =>
                              ev'[d] \in Events /\ status'[ev'[d][1]] \in Terminal
                         /\ \A j \in listed'[d] \ left'[d] : status'[j] \in Terminal
      BY DEF CallInv
    <2>1. CASE d = c
      BY <2>1 DEF TypeOK, CallInv, Return, GoTo, Final
    <2>2. CASE d # c
      BY <2>2, EventFacts DEF TypeOK, CallInv, Return, GoTo, Final
    <2>. QED  BY <2>1, <2>2
  <1>. QED  BY <1>1, <1>2

(* Abort forgets the call and the sweep. *)
LEMMA AbortTypes ==
  ASSUME TypeOK, NEW c \in Callers, Abort(c)
  PROVE  /\ pc' \in [Callers -> {"idle", "publish", "reread", "sweep"}]
         /\ ev' \in [Callers -> Events \cup {NoEvent}]
         /\ left' \in [Callers -> SUBSET Jobs]
         /\ listed' \in [Callers -> SUBSET Jobs]
         /\ swept' \subseteq Jobs
  BY DEF TypeOK, Abort, GoTo

LEMMA AbortCalls ==
  ASSUME TypeOK, CallInv, SweptIsOver, NEW c \in Callers, Abort(c),
         UNCHANGED storeVars
  PROVE  CallInv' /\ SweptIsOver'
  <1>1. SweptIsOver'
    BY DEF SweptIsOver, Abort, storeVars
  <1>2. CallInv'
    <2>. SUFFICES ASSUME NEW d \in Callers
                  PROVE  /\ pc'[d] = "publish" => ev'[d] \in outbox'
                         /\ pc'[d] = "reread" =>
                              ev'[d] \in Events /\ status'[ev'[d][1]] \in Terminal
                         /\ \A j \in listed'[d] \ left'[d] : status'[j] \in Terminal
      BY DEF CallInv
    <2>1. CASE d = c
      BY <2>1 DEF TypeOK, Abort, GoTo
    <2>2. CASE d # c
      BY <2>2 DEF TypeOK, CallInv, Abort, GoTo, storeVars
    <2>. QED  BY <2>1, <2>2
  <1>. QED  BY <1>1, <1>2

(* A committed event stays committed, so what is in flight keeps its type. *)
LEMMA FlightTypes ==
  ASSUME TypeOK, outbox \subseteq outbox', UNCHANGED <<pollVars, streamVars, readVars>>
  PROVE  /\ listing' \in outbox' \cup {NoEvent}
         /\ sent' \in outbox' \cup {NoEvent}
         /\ stream' \subseteq Messages'
         /\ recent' \subseteq outbox'
         /\ history' \subseteq outbox'
         /\ dropped' \subseteq outbox'
  BY DEF TypeOK, Messages, pollVars, streamVars, readVars

LEMMA BoundTypes ==
  ASSUME TypeOK, Fails \/ Succeeds \/ \E c \in Callers : Begin(c)
  PROVE  /\ calls' \in 0..MaxCalls /\ failures' \in 0..MaxFailures
         /\ crashes' \in 0..MaxCrashes /\ Counted
  BY JobAssumption DEF TypeOK, Fails, Succeeds, Begin, boundVars, Counted

(* A step away from publishers, stream and projector. *)
LEMMA KeptStays ==
  ASSUME TypeOK, KeptInv, TriesInv, Fails \/ Succeeds \/ \E c \in Callers : Begin(c),
         UNCHANGED <<published, pollVars, streamVars, readVars>>
  PROVE  KeptInv' /\ TriesInv'
  <1>1. KeptInv'
    BY DEF KeptInv, Kept, pollVars, streamVars, readVars
  <1>2. TriesInv'
    <2>. SUFFICES ASSUME NEW m \in stream
                  PROVE  m.tries <= failures' + crashes' + (IF m.held THEN 1 ELSE 0)
      BY DEF TriesInv, streamVars
    <2>1. m.tries <= failures + crashes + (IF m.held THEN 1 ELSE 0)
      BY DEF TriesInv
    <2>2. m.tries \in Nat /\ failures \in Nat /\ crashes \in Nat
      BY JobAssumption DEF TypeOK
    <2>3. failures' \in Nat /\ crashes' \in Nat /\ Counted
      BY BoundTypes, JobAssumption
    <2>. QED  BY <2>1, <2>2, <2>3 DEF Counted
  <1>. QED  BY <1>1, <1>2

(* Who was refused was refused about a job that stays over. *)
LEMMA LoserStays ==
  ASSUME TypeOK, LoserIsTold, Final, UNCHANGED refused,
         Fails \/ Succeeds \/ \E c \in Callers : Begin(c)
  PROVE  LoserIsTold'
  <1>1. \A e \in refused : e[1] \in Jobs
    BY EventFacts DEF TypeOK
  <1>2. refused # {} => failures' > 0
    <2>1. failures \in Nat /\ failures' \in Nat /\ Counted
      BY BoundTypes, JobAssumption DEF TypeOK
    <2>. QED  BY <2>1 DEF LoserIsTold, Counted
  <1>. QED  BY <1>1, <1>2 DEF LoserIsTold, Final

LEMMA CreateInv ==
  ASSUME Inv, NEW c \in Callers, NEW j \in Jobs, Create(c, j)
  PROVE  Inv'
  <1>. USE DEF Inv, SafeInv
  <1>1. Final /\ outbox \subseteq outbox'
    BY StatusFacts DEF TypeOK, Create, Commit, Final
  <1>2. StoreTypeOK'
    BY EventFacts, StatusFacts DEF TypeOK, StoreTypeOK, Create, Commit
  <1>3. TypeOK'
    BY <1>1, <1>2, FlightTypes, BoundTypes, EventFacts
    DEF TypeOK, Messages, StoreTypeOK, Create, GoTo
  <1>4. CallInv'
    BY <1>1, EventFacts DEF TypeOK, CallInv, Create, Commit, GoTo, Final
  <1>5. SweptIsOver' /\ LoserIsTold'
    BY <1>1, LoserStays DEF TypeOK, SweptIsOver, Create, Final
  <1>6. KeptInv' /\ TriesInv'
    BY KeptStays DEF Create, Commit
  <1>. QED  BY <1>3, <1>4, <1>5, <1>6

(* The transaction of a status change, from outside a sweep (left is       *)
(* unchanged) or for the next job of one.                                  *)
LEMMA TransitionInv ==
  ASSUME Inv, NEW c \in Callers, NEW j \in Jobs,
         NEW s \in Targets \cup {"canceled"}, NEW x \in Sources,
         Transition(c, j, s, x),
         \/ UNCHANGED left
         \/ s = "canceled" /\ left' = [left EXCEPT ![c] = @ \ {j}],
         Succeeds \/ Begin(c),
         UNCHANGED <<pollVars, streamVars, readVars, refused>>
  PROVE  Inv'
  <1>. USE DEF Inv, SafeInv
  <1>1. <<j, s, x>> \in Events /\ s \in Statuses
    BY EventFacts, StatusFacts
  <1>2. CASE GuardJobStatusTransition(status[j], s)
    <2>1. Final /\ outbox \subseteq outbox'
      BY <1>2, GuardFinal DEF TypeOK, Transition, Commit, Final
    <2>2. StoreTypeOK'
      BY <1>1, <1>2 DEF TypeOK, StoreTypeOK, Transition, Commit
    <2>3. TypeOK'
      BY <1>1, <1>2, <2>1, <2>2, FlightTypes, BoundTypes
      DEF TypeOK, Messages, StoreTypeOK, Transition, GoTo
    <2>4. CallInv'
      <3>. SUFFICES ASSUME NEW d \in Callers
                    PROVE  /\ pc'[d] = "publish" => ev'[d] \in outbox'
                           /\ pc'[d] = "reread" =>
                                ev'[d] \in Events /\ status'[ev'[d][1]] \in Terminal
                           /\ \A k \in listed'[d] \ left'[d] : status'[k] \in Terminal
        BY DEF CallInv
      <3>1. CASE d = c
        BY <1>2, <2>1, <3>1, StatusFacts
        DEF TypeOK, CallInv, Transition, Commit, GoTo, Final
      <3>2. CASE d # c
        BY <1>2, <2>1, <3>2, EventFacts
        DEF TypeOK, CallInv, Transition, Commit, GoTo, Final
      <3>. QED  BY <3>1, <3>2
    <2>5. SweptIsOver' /\ LoserIsTold'
      BY <1>2, <2>1, LoserStays DEF TypeOK, SweptIsOver, Transition, Final
    <2>6. KeptInv' /\ TriesInv'
      BY <1>2, KeptStays DEF Transition, Commit
    <2>. QED  BY <2>3, <2>4, <2>5, <2>6
  <1>3. CASE ~GuardJobStatusTransition(status[j], s) /\ s \in Terminal
    <2>1. status[j] \in Terminal
      BY <1>3, GuardRefuses
    <2>2. TypeOK'
      BY <1>1, <1>3, FlightTypes, BoundTypes
      DEF TypeOK, Messages, Transition, GoTo, storeVars
    <2>3. CallInv'
      <3>. SUFFICES ASSUME NEW d \in Callers
                    PROVE  /\ pc'[d] = "publish" => ev'[d] \in outbox'
                           /\ pc'[d] = "reread" =>
                                ev'[d] \in Events /\ status'[ev'[d][1]] \in Terminal
                           /\ \A k \in listed'[d] \ left'[d] : status'[k] \in Terminal
        BY DEF CallInv
      <3>1. CASE d = c
        BY <1>1, <1>3, <2>1, <3>1 DEF TypeOK, CallInv, Transition, GoTo, storeVars
      <3>2. CASE d # c
        BY <1>3, <3>2 DEF TypeOK, CallInv, Transition, GoTo, storeVars
      <3>. QED  BY <3>1, <3>2
    <2>4. SweptIsOver' /\ LoserIsTold'
      BY <1>3, LoserStays DEF SweptIsOver, Transition, storeVars, Final
    <2>5. KeptInv' /\ TriesInv'
      BY <1>3, KeptStays DEF Transition, storeVars
    <2>. QED  BY <2>2, <2>3, <2>4, <2>5
  <1>4. CASE ~GuardJobStatusTransition(status[j], s) /\ s \notin Terminal
    <2>1. Return(c) /\ UNCHANGED storeVars
      BY <1>4 DEF Transition
    <2>2. Final /\ outbox \subseteq outbox'
      BY <2>1 DEF Final, storeVars
    <2>3. TypeOK'
      BY <2>1, <2>2, ReturnTypes, FlightTypes, BoundTypes DEF TypeOK, Messages, storeVars
    <2>4. CallInv' /\ SweptIsOver'
      BY <2>1, <2>2, ReturnCalls
    <2>5. LoserIsTold' /\ KeptInv' /\ TriesInv'
      BY <2>1, <2>2, LoserStays, KeptStays DEF storeVars
    <2>. QED  BY <2>3, <2>4, <2>5
  <1>. QED  BY <1>2, <1>3, <1>4

LEMMA SuppressInv ==
  ASSUME Inv, NEW c \in Callers, SuppressStaleTerminalTransition(c)
  PROVE  Inv'
  <1>. USE DEF Inv, SafeInv
  <1>1. status[ev[c][1]] \in Terminal
    BY DEF CallInv, SuppressStaleTerminalTransition
  <1>2. /\ UNCHANGED <<storeVars, pollVars, streamVars, readVars>>
        /\ \/ Return(c) /\ Succeeds /\ UNCHANGED refused
           \/ Abort(c) /\ Fails /\ refused' = refused \cup {ev[c]}
    BY <1>1 DEF SuppressStaleTerminalTransition
  <1>3. Final /\ outbox \subseteq outbox'
    BY <1>2 DEF Final, storeVars
  <1>4. ev[c] \in Events
    BY DEF CallInv, SuppressStaleTerminalTransition
  <1>5. TypeOK'
    BY <1>2, <1>3, <1>4, ReturnTypes, AbortTypes, FlightTypes, BoundTypes
    DEF TypeOK, Messages, storeVars
  <1>6. CallInv' /\ SweptIsOver'
    BY <1>2, <1>3, ReturnCalls, AbortCalls
  <1>7. KeptInv' /\ TriesInv'
    BY <1>2, KeptStays DEF storeVars
  <1>8. LoserIsTold'
    <2>1. CASE UNCHANGED refused
      BY <1>2, <1>3, <2>1, LoserStays
    <2>2. CASE Fails /\ refused' = refused \cup {ev[c]}
      <3>1. failures' > 0
        BY <2>2, JobAssumption DEF TypeOK, Fails
      <3>. QED  BY <1>1, <1>2, <2>2, <3>1 DEF LoserIsTold, storeVars
    <2>. QED  BY <1>2, <2>1, <2>2
  <1>. QED  BY <1>5, <1>6, <1>7, <1>8

LEMMA CancelBySessionInv ==
  ASSUME Inv, NEW c \in Callers, CancelBySession(c)
  PROVE  Inv'
  <1>. USE DEF Inv, SafeInv
  <1>1. outbox \subseteq outbox'
    BY DEF CancelBySession, storeVars
  <1>2. TypeOK'
    BY <1>1, FlightTypes, BoundTypes
    DEF TypeOK, Messages, CancelBySession, GoTo, storeVars
  <1>3. CallInv'
    BY DEF TypeOK, CallInv, CancelBySession, GoTo, storeVars
  <1>4. SweptIsOver' /\ LoserIsTold' /\ KeptInv' /\ TriesInv'
    BY LoserStays, KeptStays DEF SweptIsOver, CancelBySession, storeVars, Final
  <1>. QED  BY <1>2, <1>3, <1>4

LEMMA CancelNextInv ==
  ASSUME Inv, NEW c \in Callers, NEW x \in Sources, CancelNext(c, x)
  PROVE  Inv'
  <1>1. CASE \E j \in left[c] : /\ left' = [left EXCEPT ![c] = @ \ {j}]
                                /\ Transition(c, j, "canceled", x)
                                /\ Succeeds
    <2>1. PICK j \in left[c] : /\ left' = [left EXCEPT ![c] = @ \ {j}]
                               /\ Transition(c, j, "canceled", x)
                               /\ Succeeds
      BY <1>1
    <2>2. j \in Jobs
      BY DEF Inv, TypeOK
    <2>3. UNCHANGED <<pollVars, streamVars, readVars, refused>>
      BY DEF CancelNext
    <2>. QED  BY <2>1, <2>2, <2>3, TransitionInv
  <1>2. CASE Abort(c) /\ Fails /\ UNCHANGED storeVars
    <2>. USE DEF Inv, SafeInv
    <2>1. outbox \subseteq outbox' /\ UNCHANGED <<pollVars, streamVars, readVars, refused>>
      BY <1>2 DEF storeVars, CancelNext
    <2>2. TypeOK'
      BY <1>2, <2>1, AbortTypes, FlightTypes, BoundTypes DEF TypeOK, Messages, storeVars
    <2>3. CallInv' /\ SweptIsOver'
      BY <1>2, AbortCalls
    <2>4. LoserIsTold' /\ KeptInv' /\ TriesInv'
      BY <1>2, <2>1, LoserStays, KeptStays DEF storeVars, Final
    <2>. QED  BY <2>2, <2>3, <2>4
  <1>. QED  BY <1>1, <1>2 DEF CancelNext

(* A message enters the stream for a committed event only, and a duplicate *)
(* is kept as its first copy was.                                          *)
LEMMA AcceptTypes ==
  ASSUME TypeOK, KeptInv, NEW e \in outbox, Accept(e), UNCHANGED <<outbox, readVars>>
  PROVE  /\ recent' \subseteq outbox' /\ stream' \subseteq Messages'
         /\ Kept \subseteq Kept'
         /\ e \in Kept' /\ recent' = recent \cup {e}
         /\ \A m \in stream' : m \in stream \/ (m.tries = 0 /\ m.held = FALSE)
  <1>. DEFINE new == Message(e, crashes, 0, FALSE)
  <1>1. 0 \in 0..MaxDeliver /\ crashes \in Nat
    BY JobAssumption DEF TypeOK
  <1>2. new \in Messages /\ new.event = e /\ new.tries = 0 /\ new.held = FALSE
    BY <1>1 DEF Messages, Message
  <1>3. /\ recent' = recent \cup {e}
        /\ stream' = IF e \in recent THEN stream ELSE stream \cup {new}
    BY DEF Accept
  <1>. HIDE DEF new
  <1>4. stream' \subseteq Messages'
    BY <1>2, <1>3 DEF TypeOK, Messages
  <1>5. Kept \subseteq Kept'
    BY <1>3 DEF Kept, readVars
  <1>6. e \in Kept'
    BY <1>2, <1>3, <1>5 DEF KeptInv, Kept
  <1>. QED  BY <1>2, <1>3, <1>4, <1>5, <1>6 DEF TypeOK

LEMMA AcceptTries ==
  ASSUME TypeOK, TriesInv, Fails \/ Succeeds,
         \A m \in stream' : m \in stream \/ (m.tries = 0 /\ m.held = FALSE)
  PROVE  TriesInv'
  <1>. SUFFICES ASSUME NEW m \in stream'
                PROVE  m.tries <= failures' + crashes' + (IF m.held THEN 1 ELSE 0)
    BY DEF TriesInv
  <1>1. /\ failures \in Nat /\ crashes \in Nat
        /\ failures' \in Nat /\ crashes' \in Nat /\ Counted
    BY BoundTypes, JobAssumption DEF TypeOK
  <1>2. CASE m \in stream
    <2>1. m.tries \in Nat /\ m.tries <= failures + crashes + (IF m.held THEN 1 ELSE 0)
      BY <1>2 DEF TypeOK, TriesInv
    <2>. QED  BY <1>1, <2>1 DEF Counted
  <1>3. CASE m.tries = 0 /\ m.held = FALSE
    <2>1. (IF m.held THEN 1 ELSE 0) = 0
      BY <1>3
    <2>2. \A a, b \in Nat : 0 <= a + b + 0
      OBVIOUS
    <2>. QED  BY <1>1, <1>3, <2>1, <2>2
  <1>. QED  BY <1>2, <1>3

(* A publication: nothing reached the stream, or the event is kept. *)
LEMMA PublicationInv ==
  ASSUME TypeOK, KeptInv, TriesInv, NEW e \in outbox,
         Accept(e) \/ UNCHANGED streamVars,
         UNCHANGED <<outbox, readVars>>, Fails \/ Succeeds
  PROVE  /\ recent' \subseteq outbox' /\ stream' \subseteq Messages'
         /\ Kept \subseteq Kept'
         /\ recent' \subseteq Kept'
         /\ Accept(e) => e \in Kept'
         /\ TriesInv'
  <1>1. CASE Accept(e)
    BY <1>1, AcceptTypes, AcceptTries DEF KeptInv
  <1>2. CASE ~Accept(e)
    <2>1. UNCHANGED <<stream, recent>>
      BY <1>2 DEF streamVars
    <2>2. TriesInv'
      BY <2>1, AcceptTries
    <2>3. Kept \subseteq Kept'
      BY <2>1 DEF Kept, readVars
    <2>. QED  BY <1>2, <2>1, <2>2, <2>3 DEF TypeOK, Messages, KeptInv
  <1>. QED  BY <1>1, <1>2

LEMMA PublishInv ==
  ASSUME Inv, NEW c \in Callers, PublishBestEffort(c)
  PROVE  Inv'
  <1>. USE DEF Inv, SafeInv
  <1>1. ev[c] \in outbox
    BY DEF CallInv, PublishBestEffort
  <1>2. /\ UNCHANGED <<status, outbox, pollVars, readVars, refused>>
        /\ Return(c) /\ (Fails \/ Succeeds)
        /\ Accept(ev[c]) \/ UNCHANGED streamVars
        /\ published' = published \/ (published' = published \cup {ev[c]} /\ Accept(ev[c]))
    BY DEF PublishBestEffort
  <1>3. /\ recent' \subseteq outbox' /\ stream' \subseteq Messages'
        /\ Kept \subseteq Kept'
        /\ recent' \subseteq Kept'
        /\ Accept(ev[c]) => ev[c] \in Kept'
        /\ TriesInv'
    BY <1>1, <1>2, PublicationInv
  <1>4. TypeOK'
    BY <1>1, <1>2, <1>3, ReturnTypes, BoundTypes DEF TypeOK, Messages, pollVars, readVars
  <1>5. Final /\ outbox \subseteq outbox'
    BY <1>2 DEF Final
  <1>6. CallInv' /\ SweptIsOver' /\ LoserIsTold'
    BY <1>2, <1>5, ReturnCalls, LoserStays
  <1>7. KeptInv'
    BY <1>2, <1>3 DEF KeptInv, pollVars
  <1>. QED  BY <1>3, <1>4, <1>6, <1>7

(* Poller, projector and their messages leave jobs and callers alone. *)
LEMMA BackgroundInv ==
  ASSUME Inv, UNCHANGED <<status, outbox, callVars, swept, refused>>, Fails \/ Succeeds
  PROVE  CallInv' /\ SweptIsOver' /\ LoserIsTold'
  <1>1. CallInv' /\ SweptIsOver'
    BY DEF Inv, SafeInv, CallInv, SweptIsOver, callVars
  <1>. QED  BY <1>1, LoserStays DEF Inv, SafeInv, Final

LEMMA PollInv ==
  ASSUME Inv, Poll
  PROVE  Inv'
  <1>. USE DEF Inv, SafeInv
  <1>1. /\ UNCHANGED <<status, outbox, callVars, swept, refused, readVars>>
        /\ Fails \/ Succeeds
    BY DEF Poll, FlushPublish, FlushMark, FlushList, storeVars, Succeeds
  <1>2. CallInv' /\ SweptIsOver' /\ LoserIsTold'
    BY <1>1, BackgroundInv
  <1>3. ASSUME NEW e \in outbox, FlushList(e) PROVE TypeOK' /\ KeptInv' /\ TriesInv'
    BY <1>3 DEF TypeOK, KeptInv, Kept, TriesInv, FlushList, storeVars, callVars,
       streamVars, readVars, boundVars
  <1>4. CASE FlushPublish
    <2>1. listing \in outbox
      BY <1>4 DEF TypeOK, FlushPublish
    <2>2. /\ Accept(listing) \/ UNCHANGED streamVars
          /\ sent' = sent \/ (sent' = listing /\ Accept(listing))
          /\ listing' = NoEvent /\ UNCHANGED published
      BY <1>4 DEF FlushPublish, storeVars
    <2>3. /\ recent' \subseteq outbox' /\ stream' \subseteq Messages'
          /\ Kept \subseteq Kept'
          /\ recent' \subseteq Kept'
          /\ Accept(listing) => listing \in Kept'
          /\ TriesInv'
      BY <1>1, <2>1, <2>2, PublicationInv
    <2>4. TypeOK'
      BY <1>1, <2>1, <2>2, <2>3, BoundTypes DEF TypeOK, Messages, callVars, readVars
    <2>5. KeptInv'
      BY <2>2, <2>3 DEF KeptInv
    <2>. QED  BY <1>2, <2>3, <2>4, <2>5
  <1>5. CASE FlushMark
    <2>1. /\ sent # NoEvent /\ sent' = NoEvent
          /\ published' = published \/ published' = published \cup {sent}
          /\ UNCHANGED <<listing, streamVars>>
      BY <1>5 DEF FlushMark
    <2>2. TypeOK'
      BY <1>1, <2>1, BoundTypes DEF TypeOK, callVars, streamVars, readVars
    <2>3. KeptInv'
      BY <1>1, <2>1 DEF KeptInv, Kept, streamVars, readVars
    <2>4. TriesInv'
      BY <1>1, <2>1, AcceptTries DEF streamVars
    <2>. QED  BY <1>2, <2>2, <2>3, <2>4
  <1>. QED  BY <1>2, <1>3, <1>4, <1>5 DEF Poll

(* A message that is fetched or put back is still the same event's. *)
LEMMA ReplacedMessage ==
  ASSUME TypeOK, NEW m \in stream
  PROVE  /\ m \in Messages /\ m.event \in outbox /\ m.tries \in Nat /\ m.held \in BOOLEAN
         /\ PutBack(m) \in Messages /\ PutBack(m).event = m.event
         /\ PutBack(m).tries = m.tries /\ PutBack(m).held = FALSE
  <1>1. m \in Messages
    BY DEF TypeOK, Messages
  <1>2. m.event \in outbox /\ m.copy \in Nat /\ m.tries \in 0..MaxDeliver
        /\ m.held \in BOOLEAN
    BY <1>1 DEF Messages
  <1>. QED  BY <1>1, <1>2 DEF Messages, PutBack, Message

LEMMA ConsumeInv ==
  ASSUME Inv, NEW m \in stream, FetchEvent(m) \/ Project(m) \/ ProjectFails(m)
  PROVE  Inv'
  <1>. USE DEF Inv, SafeInv
  <1>1. /\ UNCHANGED <<storeVars, callVars, pollVars, recent, swept, refused>>
        /\ Fails \/ Succeeds
    BY DEF FetchEvent, Project, ProjectFails, Succeeds
  <1>2. CallInv' /\ SweptIsOver' /\ LoserIsTold'
    BY <1>1, BackgroundInv DEF storeVars
  <1>3. /\ failures \in Nat /\ crashes \in Nat
        /\ failures' \in Nat /\ crashes' \in Nat /\ Counted
    BY <1>1, BoundTypes, JobAssumption DEF TypeOK
  <1>4. \A n \in stream : /\ n.tries \in Nat
                          /\ n.tries <= failures + crashes + (IF n.held THEN 1 ELSE 0)
    BY DEF TypeOK, TriesInv
  <1>5. CASE FetchEvent(m)
    <2>. DEFINE n == Fetched(m)
    <2>1. stream' = (stream \ {m}) \cup {n} /\ ~m.held /\ RetryLeft(m)
          /\ UNCHANGED <<readVars, boundVars>>
      BY <1>5 DEF FetchEvent, Replace
    <2>2. /\ n \in Messages /\ n.event = m.event /\ n.tries = m.tries + 1 /\ n.held = TRUE
      <3>1. m \in Messages /\ m.tries \in Nat
        BY ReplacedMessage
      <3>2. m.tries + 1 \in 0..MaxDeliver
        BY <2>1, <3>1, JobAssumption DEF RetryLeft
      <3>. QED  BY <3>1, <3>2 DEF Messages, Fetched, Message
    <2>. HIDE DEF n
    <2>3. TypeOK'
      BY <1>1, <2>1, <2>2 DEF TypeOK, Messages, storeVars, callVars, pollVars, readVars,
         boundVars
    <2>4. KeptInv'
      BY <1>1, <2>1, <2>2 DEF KeptInv, Kept, storeVars, pollVars, readVars
    <2>5. TriesInv'
      <3>1. n.tries <= failures + crashes + 1
        BY <1>3, <1>4, <2>1, <2>2
      <3>. QED  BY <1>4, <2>1, <2>2, <3>1 DEF TriesInv, boundVars
    <2>. QED  BY <1>2, <2>3, <2>4, <2>5
  <1>6. CASE Project(m) \/ ProjectFails(m)
    <2>1. /\ m.held
          /\ \/ stream' = stream \ {m} /\ m.event \in history' \cup dropped'
             \/ stream' = (stream \ {m}) \cup {PutBack(m)} /\ Fails
          /\ history' \in {history, history \cup {m.event}}
          /\ dropped' \in {dropped, dropped \cup {m.event}}
      BY <1>6 DEF Project, ProjectFails, Replace
    <2>2. stream' \subseteq Messages
      BY <2>1, ReplacedMessage DEF TypeOK, Messages
    <2>3. TypeOK'
      BY <1>1, <2>1, <2>2, ReplacedMessage, BoundTypes
      DEF TypeOK, Messages, storeVars, callVars, pollVars
    <2>4. Kept \subseteq Kept'
      <3>1. history \subseteq history' /\ dropped \subseteq dropped'
        BY <2>1
      <3>2. m.event \in Kept'
        BY <2>1, ReplacedMessage DEF Kept
      <3>3. \A n \in stream : n # m => n \in stream'
        BY <2>1
      <3>4. \A n \in stream : n.event \in Kept'
        BY <3>2, <3>3 DEF Kept
      <3>. QED  BY <3>1, <3>4 DEF Kept
    <2>5. KeptInv'
      BY <1>1, <2>4 DEF KeptInv, storeVars, pollVars
    <2>6. TriesInv'
      <3>. SUFFICES ASSUME NEW n \in stream'
                    PROVE  n.tries <= failures' + crashes' + (IF n.held THEN 1 ELSE 0)
        BY DEF TriesInv
      <3>1. CASE n \in stream
        BY <1>3, <1>4, <3>1 DEF Counted
      <3>2. CASE n = PutBack(m) /\ Fails
        <4>1. failures' = failures + 1 /\ crashes' = crashes
          BY <3>2 DEF Fails
        <4>2. n.tries = m.tries /\ n.held = FALSE
          BY <3>2, ReplacedMessage
        <4>3. m.tries \in Nat /\ m.tries <= failures + crashes + 1
          BY <1>4, <2>1
        <4>. QED  BY <1>3, <4>1, <4>2, <4>3
      <3>. QED  BY <2>1, <3>1, <3>2
    <2>. QED  BY <1>2, <2>3, <2>5, <2>6
  <1>. QED  BY <1>5, <1>6

LEMMA CrashInv ==
  ASSUME Inv, Crash
  PROVE  Inv'
  <1>. USE DEF Inv, SafeInv
  <1>1. /\ crashes < MaxCrashes /\ crashes' = crashes + 1
        /\ stream' = {PutBack(m) : m \in stream} /\ recent' \subseteq recent
        /\ sent' = NoEvent
        /\ UNCHANGED <<storeVars, readVars, swept, refused, calls, failures>>
    BY DEF Crash
  <1>2. \A n \in stream' : \E m \in stream : n = PutBack(m)
    BY <1>1
  <1>3. stream' \subseteq Messages
    BY <1>2, ReplacedMessage
  <1>4. TypeOK'
    BY <1>1, <1>3, JobAssumption DEF TypeOK, Messages, Crash, storeVars, readVars
  <1>5. CallInv'
    BY DEF CallInv, Crash
  <1>6. SweptIsOver' /\ LoserIsTold'
    BY <1>1 DEF SweptIsOver, LoserIsTold, storeVars
  <1>7. Kept \subseteq Kept'
    <2>1. \A m \in stream : PutBack(m) \in stream' /\ PutBack(m).event = m.event
      BY <1>1, ReplacedMessage
    <2>. QED  BY <1>1, <2>1 DEF Kept, readVars
  <1>8. KeptInv'
    BY <1>1, <1>7 DEF KeptInv, storeVars
  <1>9. TriesInv'
    <2>. SUFFICES ASSUME NEW m \in stream
                  PROVE  PutBack(m).tries <= failures' + crashes'
                           + (IF PutBack(m).held THEN 1 ELSE 0)
      BY <1>2 DEF TriesInv
    <2>1. PutBack(m).tries = m.tries /\ PutBack(m).held = FALSE /\ m.tries \in Nat
      BY ReplacedMessage
    <2>2. m.tries <= failures + crashes + 1
      <3>1. m.tries <= failures + crashes + (IF m.held THEN 1 ELSE 0)
        BY DEF TriesInv
      <3>2. failures \in Nat /\ crashes \in Nat
        BY JobAssumption DEF TypeOK
      <3>. QED  BY <2>1, <3>1, <3>2
    <2>3. failures \in Nat /\ crashes \in Nat
      BY JobAssumption DEF TypeOK
    <2>. QED  BY <1>1, <2>1, <2>2, <2>3
  <1>. QED  BY <1>4, <1>5, <1>6, <1>8, <1>9

LEMMA StutterInv == ASSUME Inv, UNCHANGED vars PROVE Inv'
  BY DEF Inv, SafeInv, TypeOK, KeptInv, Kept, TriesInv, CallInv, SweptIsOver,
         LoserIsTold, vars, storeVars, callVars, pollVars, streamVars, readVars, boundVars

LEMMA NextInv == Inv /\ [Next]_vars => Inv'
  <1>. SUFFICES ASSUME Inv, [Next]_vars PROVE Inv'
    OBVIOUS
  <1>1. ASSUME NEW c \in Callers, CallStep(c) PROVE Inv'
    <2>1. ASSUME NEW j \in Jobs, NEW s \in Targets, NEW x \in Sources,
                 MarkStatus(c, j, s, x)
          PROVE  Inv'
      BY <2>1, TransitionInv DEF MarkStatus
    <2>. QED  BY <1>1, <2>1, CreateInv, CancelBySessionInv, CancelNextInv, SuppressInv,
                 PublishInv DEF CallStep
  <1>. QED  BY <1>1, PollInv, ConsumeInv, CrashInv, StutterInv DEF Next, Consume

(* The invariant holds in every reachable state of the job service. *)
THEOREM Invariance == Spec => []Inv
  <1>. QED  BY InitInv, NextInv, PTL DEF Spec

(* Types of the job service: only committed events are marked, listed, in  *)
(* the stream or in the duplicate window, and no message is delivered more *)
(* than MaxDeliver times.                                                  *)
THEOREM TypeCorrect == Spec => []TypeOK
  <1>1. Inv => TypeOK
    BY DEF Inv
  <1>. QED  BY Invariance, <1>1, PTL

(* What either publisher marked as published is in the history, was        *)
(* terminated, or is on the stream with deliveries left, unless failures   *)
(* and crashes cut max_deliver deliveries short.                           *)
THEOREM PublishedKept == Spec => []NoEventLost
  <1>1. Inv => NoEventLost
    <2>. SUFFICES ASSUME Inv, NEW e \in published, e \notin history \cup dropped
                  PROVE  \E m \in stream :
                           /\ m.event = e
                           /\ Exhausted(m) => failures + crashes >= MaxDeliver
      BY DEF NoEventLost
    <2>1. PICK m \in stream : m.event = e
      BY DEF Inv, SafeInv, KeptInv, Kept
    <2>2. ASSUME Exhausted(m) PROVE failures + crashes >= MaxDeliver
      <3>1. m.tries \in Nat /\ failures \in Nat /\ crashes \in Nat
        BY JobAssumption DEF Inv, TypeOK
      <3>2. m.tries <= failures + crashes + (IF m.held THEN 1 ELSE 0)
        BY DEF Inv, SafeInv, TriesInv
      <3>. QED  BY <2>2, <3>1, <3>2, JobAssumption DEF Exhausted, RetryLeft
    <2>. QED  BY <2>1, <2>2
  <1>. QED  BY Invariance, <1>1, PTL

(* A CancelBySession that returned without error left every job it had     *)
(* listed in a terminal status.                                            *)
THEOREM CompleteSweep == Spec => []SweptIsOver
  <1>1. Inv => SweptIsOver
    BY DEF Inv, SafeInv
  <1>. QED  BY Invariance, <1>1, PTL

(* suppressStaleTerminalTransition hands the error of the status guard to  *)
(* the loser of a race between terminal statuses only after a failed read, *)
(* and only about a job that is over.                                      *)
THEOREM GuardErrorExplained == Spec => []LoserIsTold
  <1>1. Inv => LoserIsTold
    BY DEF Inv, SafeInv
  <1>. QED  BY Invariance, <1>1, PTL

-----------------------------------------------------------------------------
(* The step simulation. *)
LEMMA InitSimulation == Init => Abstract!Init
  <1>. SUFFICES ASSUME Init PROVE Abstract!Init
    OBVIOUS
  <1>1. PICK known \in SUBSET Jobs : InitWith(known)
    BY DEF Init
  <1>2. dropped \cup Stuck = {}
    BY DEF Init, Stuck
  <1>. QED  BY <1>1, <1>2 DEF Init, InitWith, Abstract!Init

LEMMA StuckFacts ==
  /\ \A x : x \in Stuck <=> \E m \in stream : Exhausted(m) /\ m.event = x
  /\ TypeOK => Stuck \subseteq outbox
  BY DEF Stuck, TypeOK

(* A publication makes no message that is used up. *)
LEMMA AcceptStuck ==
  ASSUME NEW e, Accept(e)
  PROVE  Stuck' = Stuck
  <1>1. ~Exhausted(Message(e, crashes, 0, FALSE))
    BY JobAssumption DEF Exhausted, RetryLeft, Message
  <1>. QED  BY <1>1 DEF Accept, Stuck, Exhausted, RetryLeft

(* What a change of one held message does to the set. *)
LEMMA HeldStuck ==
  ASSUME TypeOK, NEW m \in stream, m.held,
         stream' = stream \ {m} \/ stream' = (stream \ {m}) \cup {PutBack(m)}
  PROVE  /\ Stuck' \in {Stuck, Stuck \cup {m.event}}
         /\ stream' = stream \ {m} => Stuck' = Stuck
  <1>1. ~Exhausted(m)
    BY DEF Exhausted
  <1>2. PutBack(m).event = m.event
    BY ReplacedMessage
  <1>. QED  BY <1>1, <1>2 DEF Stuck, Exhausted, RetryLeft

(* Every step of the job service is a step of JobHistory or leaves its     *)
(* variables unchanged.                                                    *)
LEMMA StepSimulation == Inv /\ [Next]_vars => [Abstract!Next]_(Abstract!vars)
  <1>. SUFFICES ASSUME Inv, [Next]_vars PROVE [Abstract!Next]_(Abstract!vars)
    OBVIOUS
  <1>. USE DEF Inv
  <1>0. UNCHANGED stream => Stuck' = Stuck
    BY DEF Stuck, Exhausted, RetryLeft
  <1>1. ASSUME UNCHANGED <<status, outbox, readVars>>, Stuck' = Stuck
        PROVE  UNCHANGED Abstract!vars
    BY <1>1 DEF Abstract!vars, readVars
  <1>2. ASSUME NEW c \in Callers, NEW j \in Jobs, Create(c, j)
        PROVE  Abstract!Next
    <2>0. Stuck' = Stuck
      BY <1>0, <1>2 DEF Create, streamVars
    <2>1. CASE status[j] = "absent"
      BY <1>2, <2>0, <2>1 DEF Create, Commit, readVars, Abstract!Next, Abstract!Create
    <2>2. CASE status[j] # "absent"
      <3>1. Abstract!Move(j, status[j], CreatedEvent(j))
        BY <1>2, <2>0, <2>2 DEF Create, Commit, readVars, Abstract!Move
      <3>2. status[j] \in Statuses /\ CreatedEvent(j) \in Events
        BY <2>2, EventFacts DEF TypeOK
      <3>. QED  BY <3>1, <3>2 DEF Abstract!Next
    <2>. QED  BY <2>1, <2>2
  <1>3. ASSUME NEW c \in Callers, NEW j \in Jobs,
               NEW s \in Targets \cup {"canceled"}, NEW x \in Sources,
               Transition(c, j, s, x), UNCHANGED <<readVars, streamVars>>
        PROVE  [Abstract!Next]_(Abstract!vars)
    <2>0. Stuck' = Stuck
      BY <1>0, <1>3 DEF streamVars
    <2>1. CASE GuardJobStatusTransition(status[j], s)
      <3>1. Abstract!Move(j, s, <<j, s, x>>)
        BY <1>3, <2>0, <2>1, GuardFinal DEF Transition, Commit, readVars, Abstract!Move
      <3>2. s \in Statuses /\ <<j, s, x>> \in Events
        BY StatusFacts, EventFacts
      <3>. QED  BY <3>1, <3>2 DEF Abstract!Next
    <2>2. CASE ~GuardJobStatusTransition(status[j], s)
      BY <1>1, <1>3, <2>0, <2>2 DEF Transition, storeVars
    <2>. QED  BY <2>1, <2>2
  <1>4. ASSUME NEW c \in Callers, CallStep(c)
        PROVE  [Abstract!Next]_(Abstract!vars)
    <2>1. ASSUME NEW j \in Jobs, NEW s \in Targets, NEW x \in Sources,
                 MarkStatus(c, j, s, x)
          PROVE  [Abstract!Next]_(Abstract!vars)
      BY <1>3, <2>1 DEF MarkStatus
    <2>2. ASSUME NEW x \in Sources, CancelNext(c, x)
          PROVE  [Abstract!Next]_(Abstract!vars)
      <3>1. CASE UNCHANGED storeVars
        BY <1>0, <1>1, <2>2, <3>1 DEF CancelNext, storeVars, streamVars
      <3>2. ASSUME NEW j \in left[c], Transition(c, j, "canceled", x)
            PROVE  [Abstract!Next]_(Abstract!vars)
        BY <1>3, <2>2, <3>2 DEF CancelNext, TypeOK
      <3>. QED  BY <2>2, <3>1, <3>2 DEF CancelNext
    <2>3. CASE CancelBySession(c)
      BY <1>0, <1>1, <2>3 DEF CancelBySession, storeVars, streamVars
    <2>4. CASE SuppressStaleTerminalTransition(c)
      BY <1>0, <1>1, <2>4 DEF SuppressStaleTerminalTransition, storeVars, streamVars
    <2>5. CASE PublishBestEffort(c)
      <3>1. Accept(ev[c]) \/ UNCHANGED stream
        BY <2>5 DEF PublishBestEffort, streamVars
      <3>2. Stuck' = Stuck
        BY <1>0, <3>1, AcceptStuck
      <3>. QED  BY <1>1, <2>5, <3>2 DEF PublishBestEffort
    <2>. QED  BY <1>2, <1>4, <2>1, <2>2, <2>3, <2>4, <2>5 DEF CallStep
  <1>5. CASE Poll
    <2>1. Accept(listing) \/ UNCHANGED stream
      BY <1>5 DEF Poll, FlushPublish, FlushMark, FlushList, streamVars
    <2>2. Stuck' = Stuck
      BY <1>0, <2>1, AcceptStuck
    <2>. QED  BY <1>1, <1>5, <2>2 DEF Poll, FlushPublish, FlushMark, FlushList, storeVars
  <1>6. ASSUME NEW m \in stream, FetchEvent(m)
        PROVE  [Abstract!Next]_(Abstract!vars)
    <2>. DEFINE n == Fetched(m)
    <2>1. ~Exhausted(m)
      BY <1>6 DEF FetchEvent, Exhausted
    <2>2. n.held = TRUE
      BY DEF Fetched, Message
    <2>3. stream' = (stream \ {m}) \cup {n}
      BY <1>6 DEF FetchEvent, Replace
    <2>. HIDE DEF n
    <2>4. Stuck' = Stuck
      BY <2>1, <2>2, <2>3 DEF Stuck, Exhausted, RetryLeft
    <2>. QED  BY <1>1, <1>6, <2>4 DEF FetchEvent, storeVars
  <1>7. ASSUME NEW m \in stream, Project(m)
        PROVE  [Abstract!Next]_(Abstract!vars)
    <2>1. m.event \in outbox /\ m.event \in Events
      BY DEF TypeOK
    <2>2. Stuck' \in {Stuck, Stuck \cup {m.event}}
      BY <1>7, HeldStuck DEF Project, Replace
    <2>3. UNCHANGED <<status, outbox, dropped>> /\ history' = history \cup {m.event}
      BY <1>7 DEF Project, storeVars
    <2>4. dropped' \cup Stuck' \in {dropped \cup Stuck, (dropped \cup Stuck) \cup {m.event}}
      BY <2>2, <2>3
    <2>5. Abstract!Show(m.event)
      BY <2>1, <2>3, <2>4 DEF Abstract!Show
    <2>. QED  BY <2>1, <2>5 DEF Abstract!Next
  <1>8. ASSUME NEW m \in stream, ProjectFails(m)
        PROVE  [Abstract!Next]_(Abstract!vars)
    <2>1. m.event \in outbox
      BY DEF TypeOK
    <2>2. UNCHANGED <<status, outbox, history>>
      BY <1>8 DEF ProjectFails, storeVars
    <2>3. Stuck' \in {Stuck, Stuck \cup {m.event}}
      BY <1>8, HeldStuck DEF ProjectFails, Replace
    <2>4. dropped' \in {dropped, dropped \cup {m.event}}
      BY <1>8 DEF ProjectFails
    <2>5. \E lost \in SUBSET outbox : dropped' \cup Stuck' = (dropped \cup Stuck) \cup lost
      <3>1. CASE dropped' \cup Stuck' = dropped \cup Stuck
        <4>1. dropped' \cup Stuck' = (dropped \cup Stuck) \cup {}
          BY <3>1
        <4>. QED  BY <4>1
      <3>2. CASE dropped' \cup Stuck' = (dropped \cup Stuck) \cup {m.event}
        BY <2>1, <3>2
      <3>. QED  BY <2>3, <2>4, <3>1, <3>2
    <2>6. \E lost \in SUBSET outbox : Abstract!GiveUp(lost)
      BY <2>2, <2>5 DEF Abstract!GiveUp
    <2>. QED  BY <2>6 DEF Abstract!Next
  <1>10. CASE Crash
    <2>1. /\ UNCHANGED <<status, outbox, history, dropped>>
          /\ stream' = {PutBack(m) : m \in stream}
      BY <1>10 DEF Crash, storeVars, readVars
    <2>2. ASSUME NEW m \in stream, Exhausted(m)
          PROVE  PutBack(m) \in stream' /\ Exhausted(PutBack(m))
      BY <2>1, <2>2, ReplacedMessage DEF Exhausted, RetryLeft
    <2>3. Stuck \subseteq Stuck'
      <3>. SUFFICES ASSUME NEW m \in stream, Exhausted(m) PROVE m.event \in Stuck'
        BY StuckFacts
      <3>1. PutBack(m) \in stream' /\ Exhausted(PutBack(m)) /\ PutBack(m).event = m.event
        BY <2>2, ReplacedMessage
      <3>. QED  BY <3>1 DEF Stuck, Exhausted, RetryLeft
    <2>4. Stuck' \subseteq outbox
      <3>1. \A n \in stream' : n.event \in outbox
        BY <2>1, ReplacedMessage
      <3>. QED  BY <3>1 DEF Stuck
    <2>5. Abstract!GiveUp(Stuck')
      BY <2>1, <2>3, <2>4 DEF Abstract!GiveUp
    <2>. QED  BY <2>4, <2>5 DEF Abstract!Next
  <1>9. CASE UNCHANGED vars
    BY <1>0, <1>1, <1>9 DEF vars, storeVars, streamVars
  <1>. QED  BY <1>4, <1>5, <1>6, <1>7, <1>8, <1>9, <1>10 DEF Next, Consume

(* The job service, with its outbox, two publishers, stream, redeliveries  *)
(* and crashes, implements the safety part of JobHistory: a terminal       *)
(* status is final, a move commits its event with it, the history shows    *)
(* committed events only, and neither it nor the set of those given up     *)
(* ever loses one.                                                         *)
THEOREM Refinement == Spec => Abstract!SafeSpec
  <1>. QED  BY InitSimulation, StepSimulation, Invariance, PTL DEF Spec, Abstract!SafeSpec
=============================================================================
