---------------------------- MODULE OutboxProofs ----------------------------
(***************************************************************************)
(* Theorems about Outbox, for every set of mails, every retry schedule and  *)
(* every limit: types; deliveries own their rows; what was taken back stays  *)
(* back; the task neither orphans a claim nor naps past a mail; no mail is   *)
(* lost or goes twice; and the outbox implements OutboxPromise.              *)
(***************************************************************************)
EXTENDS Outbox, TLAPS

\* A row starts, and starts over, with no attempts.
LEMMA NoAttempts == 0 \in 0..Len(RetryWaits)
  BY TimesAssumption

\* The blank columns are columns, whatever the constants are.
LEMMA BlankIsRow == Blank \in Row
<1>1. 0 \in Waits
  BY TimesAssumption DEF Waits
<1> QED
  BY <1>1, NoAttempts DEF Blank, Row, HeldStates

-----------------------------------------------------------------------------
(***************************************************************************)
(* The statements on the table keep it well-formed.                        *)
(***************************************************************************)

LEMMA InsertKeepsTable ==
  ASSUME TableOK, NEW m \in Mails, NEW l \in BOOLEAN, NEW t \in Waits, Insert(m, l, t)
  PROVE  TableOK'
<1>1. [Blank EXCEPT !.later = l, !.wait = t] \in Row
  BY BlankIsRow DEF Blank, Row
<1> QED
  BY <1>1 DEF TableOK, Insert

LEMMA RemoveKeepsTable == ASSUME TableOK, NEW m \in Mails, Remove(m) PROVE TableOK'
  BY BlankIsRow DEF TableOK, Remove

LEMMA HoldKeepsTable ==
  ASSUME TableOK, NEW m \in Mails, NEW why \in HeldStates, Hold(m, why)
  PROVE  TableOK'
<1>1. [row[m] EXCEPT !.claimed = FALSE, !.held = why, !.later = TRUE] \in Row
  BY DEF TableOK, Row
<1> QED
  BY <1>1 DEF TableOK, Hold

LEMMA RunOutboxKeepsTask == ASSUME TaskOK, RunOutbox, slept' = slept PROVE TaskOK'
  BY DEF TaskOK, RunOutbox, TaskSteps


-----------------------------------------------------------------------------
(***************************************************************************)
(* Type correctness.                                                       *)
(***************************************************************************)

LEMMA NoCallIsCall == NoCall \in Call
  BY KindsAssumption DEF NoCall, Call, HeldStates

LEMMA InitTypes == Init => TypeOK
<1> SUFFICES ASSUME Init PROVE TypeOK
  OBVIOUS
<1>1. TableOK
  BY BlankIsRow DEF Init, TableOK
<1>2. TaskOK
  <2>1. napLeft \in 0..MaxNap
    BY TimesAssumption DEF Init
  <2> QED
    BY <2>1, Zenon DEF Init, TaskOK, TaskSteps
<1>3. DeliverOK /\ CallOK
  BY NoCallIsCall DEF Init, DeliverOK, DeliverSteps, CallOK
<1>4. ServerOK /\ NotesOK
  BY DEF Init, ServerOK, Copies, NotesOK
<1> QED
  BY <1>1, <1>2, <1>3, <1>4 DEF TypeOK

LEMMA PersonTypes == ASSUME TypeOK, Person PROVE TypeOK'
<1> USE DEF TypeOK
<1>1. ASSUME NEW m \in Mails, QueueSend(m) PROVE TypeOK'
  <2>0. PICK wait \in 0..UndoDelay : Insert(m, FALSE, wait)
    BY <1>1 DEF QueueSend
  <2>1. TableOK'
    <3>1. wait \in Waits
      BY TimesAssumption DEF Waits
    <3> QED
      BY <2>0, <3>1, InsertKeepsTable
  <2>2. TaskOK'
    BY <1>1, RunOutboxKeepsTask DEF QueueSend
  <2> QED
    BY <1>1, <2>1, <2>2 DEF QueueSend, server, DeliverOK, CallOK, ServerOK, NotesOK
<1>2. ASSUME NEW m \in Mails, SendLater(m) PROVE TypeOK'
  <2>0. PICK wait \in MinAhead..MaxDelay : Insert(m, TRUE, wait)
    BY <1>2 DEF SendLater
  <2>1. TableOK'
    <3>1. wait \in Waits
      BY TimesAssumption DEF Waits
    <3> QED
      BY <2>0, <3>1, InsertKeepsTable
  <2>2. TaskOK'
    BY <1>2, RunOutboxKeepsTask DEF SendLater
  <2>3. ServerOK'
    BY <1>2 DEF SendLater, ServerOK
  <2> QED
    BY <1>2, <2>1, <2>2, <2>3 DEF SendLater, DeliverOK, CallOK, NotesOK
<1>3. ASSUME NEW m \in Mails, CancelSend(m) PROVE TypeOK'
  BY <1>3, RemoveKeepsTable DEF CancelSend, server, task, TaskOK, DeliverOK, CallOK, ServerOK, NotesOK
<1>4. ASSUME NEW m \in Mails, NEW t \in Waits, Release(m, t) PROVE TypeOK'
  <2>1. [row[m] EXCEPT !.wait = t, !.attempts = 0, !.held = "no"] \in Row
    BY NoAttempts DEF TableOK, Row, HeldStates
  <2>2. TableOK'
    BY <1>4, <2>1 DEF Release, Pickable, Listed, TableOK
  <2>3. TaskOK'
    BY <1>4, RunOutboxKeepsTask DEF Release
  <2> QED
    BY <1>4, <2>2, <2>3 DEF Release, server, DeliverOK, CallOK, ServerOK, NotesOK
<1>5. ASSUME NEW m \in Mails, EditScheduled(m) PROVE TypeOK'
  BY <1>5, RemoveKeepsTable DEF EditScheduled, server, task, TaskOK, DeliverOK, CallOK, ServerOK, NotesOK
<1>6. ASSUME NEW w \in Windows, NEW m \in Mails, StopScheduled(w, m) PROVE TypeOK'
  <2>1. [row[m] EXCEPT !.held = "failed"] \in Row /\ row[m].held \in HeldStates
    BY DEF TableOK, Row, HeldStates
  <2>2. TableOK'
    BY <1>6, <2>1 DEF StopScheduled, Pickable, Listed, TableOK
  <2>3. CallOK'
    BY <1>6, <2>1 DEF StopScheduled, CallOK, Call
  <2> QED
    BY <1>6, <2>2, <2>3 DEF StopScheduled, server, task, notes, TaskOK, DeliverOK, ServerOK, NotesOK
<1>7. CASE RemoveAccount
  BY <1>7, BlankIsRow
     DEF RemoveAccount, TableOK, task, server, notes, TaskOK, DeliverOK, CallOK, ServerOK, NotesOK
<1> QED
  BY <1>1, <1>2, <1>3, <1>4, <1>5, <1>6, <1>7, TimesAssumption
     DEF Person, RescheduleSend, SendScheduledNow, Waits

LEMMA StopTypes == ASSUME TypeOK, NEW w \in Windows, StopStep(w) PROVE TypeOK'
<1> USE DEF TypeOK
<1>a. call[w] \in Call
  BY DEF CallOK
<1>b. call[w].mail \in Mails /\ call[w].old \in HeldStates
  BY <1>a DEF Call
<1>1. CASE StopDraftSaved(w)
  <2>1. CallOK'
    BY <1>1, <1>a DEF StopDraftSaved, CallOK, Call
  <2>2. ServerOK'
    BY <1>1, <1>b DEF StopDraftSaved, DraftSaved, ServerOK, Copies
  <2> QED
    BY <1>1, <2>1, <2>2 DEF StopDraftSaved, table, task, notes, TableOK, TaskOK, DeliverOK, NotesOK
<1>2. CASE StopTakesRow(w)
  <2>1. TableOK'
    <3>1. CASE Remove(call[w].mail)
      BY <3>1, <1>b, RemoveKeepsTable
    <3>2. CASE UNCHANGED table
      BY <3>2 DEF table, TableOK
    <3> QED
      BY <1>2, <3>1, <3>2 DEF StopTakesRow
  <2>2. CallOK'
    BY <1>2, NoCallIsCall DEF StopTakesRow, CallOK
  <2> QED
    BY <1>2, <2>1, <2>2 DEF StopTakesRow, task, server, notes, TaskOK, DeliverOK, ServerOK, NotesOK
<1>3. CASE StopDraftFails(w)
  <2> DEFINE m == call[w].mail
  <2>1. [row[m] EXCEPT !.held = call[w].old] \in Row
    BY <1>b DEF TableOK, Row
  <2>2. TableOK'
    BY <1>3, <1>b, <2>1 DEF StopDraftFails, Listed, TableOK
  <2>3. CallOK'
    BY <1>3, NoCallIsCall DEF StopDraftFails, CallOK
  <2>4. ServerOK'
    BY <1>3, <1>b DEF StopDraftFails, DraftNotSaved, ServerOK, Copies
  <2>5. TaskOK'
    BY <1>3, RunOutboxKeepsTask DEF StopDraftFails, notes, task, TaskOK
  <2> QED
    BY <1>3, <2>2, <2>3, <2>4, <2>5 DEF StopDraftFails, notes, DeliverOK, NotesOK
<1> QED
  BY <1>1, <1>2, <1>3 DEF StopStep

LEMMA TaskTypes == ASSUME TypeOK, TaskStep PROVE TypeOK'
<1> USE DEF TypeOK
<1>1. CASE TaskReleases
  <2>1. \A m \in Mails : [row[m] EXCEPT !.claimed = FALSE, !.held = "unsure", !.later = TRUE] \in Row
    BY DEF TableOK, Row, HeldStates
  <2>2. TableOK'
    BY <1>1, <2>1 DEF TaskReleases, TableOK
  <2> QED
    BY <1>1, <2>2 DEF TaskReleases, server, TaskOK, TaskSteps, DeliverOK, CallOK, ServerOK, NotesOK, TableOK
<1>2. CASE TaskTakesDue
  <2>1. \A m \in Mails : [row[m] EXCEPT !.claimed = TRUE] \in Row
    BY DEF TableOK, Row
  <2>2. TableOK'
    BY <1>2, <2>1 DEF TaskTakesDue, Due, Waiting, TableOK
  <2>3. DeliverOK'
    BY <1>2 DEF TaskTakesDue, DeliverOK, DeliverSteps
  <2> QED
    BY <1>2, <2>2, <2>3 DEF TaskTakesDue, server, notes, TaskOK, TaskSteps, CallOK, ServerOK, NotesOK
<1>3. CASE TaskNaps
  <2>1. \A m \in Mails : row[m].wait \in Nat
    BY TimesAssumption DEF TableOK, Row, Waits
  <2>2. ASSUME NEW n, IsNap(n) PROVE n \in 0..MaxNap
    BY <2>1, <2>2, TimesAssumption DEF IsNap
  <2>3. napLeft' \in 0..MaxNap
    BY <1>3, <2>2, TimesAssumption DEF TaskNaps
  <2>4. TaskOK'
    BY <1>3, <2>3, Zenon DEF TaskNaps, TaskOK, TaskSteps
  <2> QED
    BY <1>3, <2>4 DEF TaskNaps, table, server, TableOK, DeliverOK, CallOK, ServerOK, NotesOK
<1>4. CASE TaskWakes
  <2>1. TaskOK'
    <3>1. napLeft' \in 0..MaxNap
      BY <1>4, TimesAssumption DEF TaskWakes
    <3> QED
      BY <1>4, <3>1, Zenon DEF TaskWakes, notes, TaskOK, TaskSteps
  <2> QED
    BY <1>4, <2>1 DEF TaskWakes, table, server, notes, TableOK, DeliverOK, CallOK, ServerOK, NotesOK
<1> QED
  BY <1>1, <1>2, <1>3, <1>4 DEF TaskStep

LEMMA DeliverTypes == ASSUME TypeOK, NEW m \in Mails, DeliverStep(m) PROVE TypeOK'
<1> USE DEF TypeOK
<1>1. CASE DeliverUnreadable(m)
  BY <1>1, HoldKeepsTable
     DEF DeliverUnreadable, HeldStates, task, server, notes, TaskOK, DeliverOK, DeliverSteps, CallOK, ServerOK, NotesOK
<1>2. CASE DeliverHandsOver(m) \/ DeliverGivesUp(m) \/ DeliverSent(m) \/ DeliverFailsLate(m)
  BY <1>2 DEF DeliverHandsOver, DeliverGivesUp, DeliverSent, DeliverFailsLate, table, task, server, notes,
              TableOK, TaskOK, DeliverOK, DeliverSteps, CallOK, ServerOK, NotesOK
<1>3. CASE ServerTakes(m)
  BY <1>3 DEF ServerTakes, table, task, server, TableOK, TaskOK, DeliverOK, DeliverSteps, CallOK, ServerOK, NotesOK
<1>4. CASE DeliverRetries(m)
  <2>1. row[m] \in Row /\ row[m].attempts \in Nat /\ row[m].attempts < Len(RetryWaits)
    BY <1>4, TimesAssumption DEF DeliverRetries, CanRetry, TableOK, Row
  <2>2. RetryWaits[row[m].attempts + 1] \in Waits
    BY <2>1, TimesAssumption
  <2>3. row[m].attempts + 1 \in 0..Len(RetryWaits)
    BY <2>1, TimesAssumption
  <2>4. [row[m] EXCEPT !.claimed = FALSE, !.attempts = row[m].attempts + 1,
                       !.wait = RetryWaits[row[m].attempts + 1]] \in Row
    BY <2>1, <2>2, <2>3 DEF Row
  <2>5. TableOK'
    BY <1>4, <2>4 DEF DeliverRetries, CanRetry, TableOK
  <2>6. TaskOK'
    BY <1>4, RunOutboxKeepsTask DEF DeliverRetries, notes
  <2> QED
    BY <1>4, <2>5, <2>6 DEF DeliverRetries, server, notes, DeliverOK, DeliverSteps, CallOK, ServerOK, NotesOK
<1>5. CASE DeliverBreaksOff(m)
  BY <1>5, HoldKeepsTable
     DEF DeliverBreaksOff, HeldStates, task, server, TaskOK, DeliverOK, DeliverSteps, CallOK, ServerOK, NotesOK
<1>6. CASE DeliverRemovesDraft(m)
  BY <1>6 DEF DeliverRemovesDraft, table, task, notes, TableOK, TaskOK, DeliverOK, DeliverSteps, CallOK, ServerOK, NotesOK
<1>7. CASE DeliverFinishes(m) \/ DeliverClearsKept(m)
  <2>1. TableOK'
    BY <1>7, RemoveKeepsTable DEF DeliverFinishes, DeliverClearsKept, Finish, table, TableOK
  <2> QED
    BY <1>7, <2>1 DEF DeliverFinishes, DeliverClearsKept, task, server, notes,
                      TaskOK, DeliverOK, DeliverSteps, CallOK, ServerOK, NotesOK
<1>8. CASE DeliverKeepsDraft(m)
  BY <1>8 DEF DeliverKeepsDraft, DraftSaved, table, task, notes, TableOK, TaskOK,
              DeliverOK, DeliverSteps, CallOK, ServerOK, Copies, NotesOK
<1>9. CASE DeliverHolds(m)
  <2>1. TableOK'
    BY <1>9, HoldKeepsTable DEF DeliverHolds, HeldStates
  <2>2. ServerOK'
    BY <1>9 DEF DeliverHolds, DraftNotSaved, ServerOK, Copies
  <2> QED
    BY <1>9, <2>1, <2>2 DEF DeliverHolds, task, notes, TaskOK, DeliverOK, DeliverSteps, CallOK, NotesOK
<1> QED
  BY <1>1, <1>2, <1>3, <1>4, <1>5, <1>6, <1>7, <1>8, <1>9 DEF DeliverStep

LEMMA SweepTypes == ASSUME TypeOK, NEW m \in Mails, SweepStep(m) PROVE TypeOK'
  BY DEF SweepStep, SweepFinds, SweepDeletes, SweepFails, TypeOK, table, task, notes,
         TableOK, TaskOK, DeliverOK, CallOK, ServerOK, NotesOK

LEMMA WorldTypes == ASSUME TypeOK, Tick \/ ComputerSleeps \/ Quit \/ Start PROVE TypeOK'
<1> USE DEF TypeOK
<1>1. ASSUME WallClock, rows' = rows PROVE TableOK'
  <2>1. ASSUME NEW m \in Mails PROVE [row[m] EXCEPT !.wait = Sooner(@)] \in Row
    <3>1. row[m] \in Row /\ row[m].wait \in Waits
      BY DEF TableOK, Row
    <3>2. Sooner(row[m].wait) \in Waits
      BY <3>1, TimesAssumption DEF Sooner, Waits
    <3> QED
      BY <3>1, <3>2 DEF Row
  <2>2. [Blank EXCEPT !.wait = Sooner(@)] = Blank
    BY DEF Blank, Sooner
  <2> QED
    BY <1>1, <2>1, <2>2 DEF WallClock, TableOK
<1>2. CASE Tick
  <2>1. TaskOK'
    BY <1>2, TimesAssumption DEF Tick, Sooner, TaskOK, notes
  <2> QED
    BY <1>1, <1>2, <2>1 DEF Tick, server, notes, DeliverOK, CallOK, ServerOK, NotesOK
<1>3. CASE ComputerSleeps
  BY <1>1, <1>3 DEF ComputerSleeps, task, server, TaskOK, DeliverOK, CallOK, ServerOK, NotesOK
<1>4. CASE Quit
  <2>1. TaskOK'
    <3>1. napLeft' \in 0..MaxNap
      BY <1>4, TimesAssumption DEF Quit
    <3> QED
      BY <1>4, <3>1, Zenon DEF Quit, TaskOK, TaskSteps
  <2>2. CallOK'
    BY <1>4, NoCallIsCall, Zenon DEF Quit, CallOK
  <2>3. TableOK' /\ DeliverOK' /\ ServerOK' /\ NotesOK'
    BY <1>4 DEF Quit, table, TableOK, DeliverOK, DeliverSteps, ServerOK, NotesOK
  <2> QED
    BY <2>1, <2>2, <2>3
<1>5. CASE Start
  <2>1. TaskOK'
    BY <1>5, RunOutboxKeepsTask DEF Start, notes
  <2> QED
    BY <1>5, <2>1 DEF Start, table, server, notes, TableOK, DeliverOK, CallOK, ServerOK, NotesOK
<1> QED
  BY <1>2, <1>3, <1>4, <1>5

LEMMA TypesStep == ASSUME TypeOK, [Next]_vars PROVE TypeOK'
<1>1. CASE UNCHANGED vars
  BY <1>1 DEF vars, TypeOK, TableOK, TaskOK, DeliverOK, CallOK, ServerOK, NotesOK
<1> QED
  BY <1>1, PersonTypes, StopTypes, TaskTypes, DeliverTypes, SweepTypes, WorldTypes DEF Next

\* TypeOK holds in every reachable state: the columns of the table, the task, the deliveries
\* and the calls never leave their ranges, whatever the schedule of retries and the limits.
THEOREM TypesHold == Spec => []TypeOK
  BY InitTypes, TypesStep, PTL DEF Spec

-----------------------------------------------------------------------------
(***************************************************************************)
(* A delivery owns its row, and a mail given back to the composer is out of *)
(* the outbox's hands.  The induction needs, besides, that no delivery is   *)
(* running before the task has released what an earlier run left claimed,   *)
(* and that a mail enters the outbox only once.                             *)
(***************************************************************************)

QuietBeforeRelease == taskAt \in {"off", "release"} => \A m \in Mails : deliver[m] = "idle"
RemovedIsEmpty == ~account => rows = {}
EntersOnce == rows \subseteq accepted /\ back \subseteq accepted
BackIsOut == \A m \in back : m \notin rows /\ deliver[m] = "idle"
Ownership == DeliveryOwnsRow /\ QuietBeforeRelease /\ RemovedIsEmpty /\ EntersOnce /\ BackIsOut

\* Starting or waking the task never takes it back to the release of old claims.
LEMMA RunOutboxKeepsQuiet ==
  ASSUME RunOutbox PROVE taskAt' \in {"off", "release"} => taskAt \in {"off", "release"}
  BY DEF RunOutbox

\* A statement that leaves claimed rows alone, in or out of the table.
LEMMA UnclaimedStep ==
  ASSUME TypeOK, Ownership, UNCHANGED <<deliver, account>>,
         taskAt' \in {"off", "release"} => taskAt \in {"off", "release"},
         rows' \subseteq rows, back' = back,
         \A m \in rows : row[m].claimed => m \in rows' /\ row'[m].claimed,
         accepted' = accepted
  PROVE  Ownership'
  BY DEF TypeOK, NotesOK, Ownership, DeliveryOwnsRow, QuietBeforeRelease, RemovedIsEmpty, EntersOnce, BackIsOut

\* A row that is taken back to the composer wasn't claimed, so nobody delivers it.
LEMMA TakeBackStep ==
  ASSUME TypeOK, Ownership, NEW m \in Mails, m \in rows, ~row[m].claimed, Remove(m),
         back' = back \union {m}, UNCHANGED <<deliver, account, taskAt, accepted>>
  PROVE  Ownership'
<1>1. deliver[m] = "idle"
  BY DEF Ownership, DeliveryOwnsRow, RemovedIsEmpty
<1>2. \A n \in rows \ {m} : row'[n] = row[n]
  BY DEF Remove, TypeOK, TableOK
<1> QED
  BY <1>1, <1>2 DEF Remove, TypeOK, TableOK, NotesOK, Ownership, DeliveryOwnsRow,
     QuietBeforeRelease, RemovedIsEmpty, EntersOnce, BackIsOut

\* A delivery that goes on leaves its row as it is.
LEMMA DeliverGoesOnStep ==
  ASSUME TypeOK, Ownership, NEW m \in Mails, deliver[m] # "idle", NEW s \in DeliverSteps,
         deliver' = [deliver EXCEPT ![m] = s], UNCHANGED <<rows, row, account, taskAt, accepted, back>>
  PROVE  Ownership'
  BY DEF TypeOK, DeliverOK, NotesOK, Ownership, DeliveryOwnsRow, QuietBeforeRelease,
         RemovedIsEmpty, EntersOnce, BackIsOut

\* A delivery that ends changes no row but its own.
LEMMA DeliverEndsStep ==
  ASSUME TypeOK, Ownership, NEW m \in Mails, deliver[m] # "idle",
         deliver' = [deliver EXCEPT ![m] = "idle"],
         taskAt' \in {"off", "release"} => taskAt \in {"off", "release"},
         rows \ {m} \subseteq rows', rows' \subseteq rows, \A n \in rows \ {m} : row'[n] = row[n],
         UNCHANGED <<account, accepted, back>>
  PROVE  Ownership'
  BY DEF TypeOK, DeliverOK, NotesOK, Ownership, DeliveryOwnsRow, QuietBeforeRelease,
         RemovedIsEmpty, EntersOnce, BackIsOut

LEMMA InsertStep ==
  ASSUME TypeOK, Ownership, NEW m \in Mails, NEW l, NEW t, Insert(m, l, t), account, m \notin accepted,
         RunOutbox, accepted' = accepted \union {m}, UNCHANGED <<deliver, account, back>>
  PROVE  Ownership'
<1>1. \A n \in Mails \ {m} : row'[n] = row[n]
  BY DEF Insert, TypeOK, TableOK
<1>2. taskAt' \in {"off", "release"} => taskAt \in {"off", "release"}
  BY RunOutboxKeepsQuiet
<1>3. deliver[m] = "idle" /\ m \notin back
  BY DEF Ownership, DeliveryOwnsRow, EntersOnce
<1> QED
  BY <1>1, <1>2, <1>3 DEF Insert, TypeOK, NotesOK, Ownership, DeliveryOwnsRow, QuietBeforeRelease,
     RemovedIsEmpty, EntersOnce, BackIsOut

LEMMA PersonOwns == ASSUME TypeOK, Ownership, Person PROVE Ownership'
<1>1. ASSUME NEW m \in Mails, QueueSend(m) \/ SendLater(m) PROVE Ownership'
  <2>1. PICK l, t : Insert(m, l, t)
    BY <1>1 DEF QueueSend, SendLater
  <2> QED
    BY <1>1, <2>1, InsertStep DEF QueueSend, SendLater
<1>2. ASSUME NEW m \in Mails, CancelSend(m) \/ EditScheduled(m) PROVE Ownership'
  BY <1>2, TakeBackStep DEF CancelSend, EditScheduled, Pickable, Listed, task
<1>3. ASSUME NEW m \in Mails, NEW t, Release(m, t) PROVE Ownership'
  <2>1. \A n \in rows : row[n].claimed => row'[n].claimed
    BY <1>3 DEF Release, Pickable, Listed, TypeOK, TableOK
  <2> QED
    BY <1>3, <2>1, RunOutboxKeepsQuiet, UnclaimedStep DEF Release
<1>4. ASSUME NEW w \in Windows, NEW m \in Mails, StopScheduled(w, m) PROVE Ownership'
  <2>1. \A n \in rows : row[n].claimed => row'[n].claimed
    BY <1>4 DEF StopScheduled, Pickable, Listed, TypeOK, TableOK
  <2> QED
    BY <1>4, <2>1, UnclaimedStep DEF StopScheduled, task, notes
<1>5. CASE RemoveAccount
  BY <1>5 DEF RemoveAccount, task, notes, Ownership, DeliveryOwnsRow, QuietBeforeRelease,
              RemovedIsEmpty, EntersOnce, BackIsOut
<1> QED
  BY <1>1, <1>2, <1>3, <1>4, <1>5 DEF Person, RescheduleSend, SendScheduledNow

LEMMA StopOwns == ASSUME TypeOK, Ownership, NEW w \in Windows, StopStep(w) PROVE Ownership'
<1>a. call[w].mail \in Mails
  BY DEF TypeOK, CallOK, Call
<1>1. CASE StopDraftSaved(w)
  BY <1>1, UnclaimedStep DEF StopDraftSaved, table, task, notes
<1>2. CASE StopTakesRow(w)
  <2>1. rows' \subseteq rows /\ \A n \in rows : row[n].claimed => n \in rows' /\ row'[n].claimed
    BY <1>2, <1>a DEF StopTakesRow, Listed, Remove, table, TypeOK, TableOK
  <2> QED
    BY <1>2, <2>1, UnclaimedStep DEF StopTakesRow, task, notes
<1>3. CASE StopDraftFails(w)
  <2>1. \A n \in rows : row[n].claimed => row'[n].claimed
    BY <1>3, <1>a DEF StopDraftFails, Listed, TypeOK, TableOK
  <2>2. taskAt' \in {"off", "release"} => taskAt \in {"off", "release"}
    BY <1>3, RunOutboxKeepsQuiet DEF StopDraftFails, task
  <2> QED
    BY <1>3, <2>1, <2>2, UnclaimedStep DEF StopDraftFails, notes
<1> QED
  BY <1>1, <1>2, <1>3 DEF StopStep

LEMMA TaskOwns == ASSUME TypeOK, Ownership, TaskStep PROVE Ownership'
<1>1. CASE TaskReleases
  <2>1. \A m \in Mails : deliver[m] = "idle"
    BY <1>1 DEF TaskReleases, Ownership, QuietBeforeRelease
  <2> QED
    BY <1>1, <2>1 DEF TaskReleases, server, Ownership, DeliveryOwnsRow, QuietBeforeRelease,
                      RemovedIsEmpty, EntersOnce, BackIsOut
<1>2. CASE TaskTakesDue
  <2>1. \A m \in Mails : deliver'[m] # "idle" =>
            \/ m \in Due /\ m \in rows /\ row'[m].claimed
            \/ deliver[m] # "idle" /\ (m \in rows /\ row[m].claimed => row'[m].claimed)
    BY <1>2 DEF TaskTakesDue, Due, Waiting, TypeOK, TableOK, Row, DeliverOK
  <2>2. taskAt' = "next"
    BY <1>2 DEF TaskTakesDue
  <2>3. \A m \in back : deliver'[m] = "idle"
    BY <1>2, <2>1 DEF TaskTakesDue, Due, Waiting, Ownership, BackIsOut, TypeOK, NotesOK
  <2> QED
    BY <1>2, <2>1, <2>2, <2>3 DEF TaskTakesDue, notes, Ownership, DeliveryOwnsRow, QuietBeforeRelease,
       RemovedIsEmpty, EntersOnce, BackIsOut
<1>3. CASE TaskNaps \/ TaskWakes
  BY <1>3, UnclaimedStep DEF TaskNaps, TaskWakes, table, server, notes
<1> QED
  BY <1>1, <1>2, <1>3 DEF TaskStep

LEMMA DeliverOwns == ASSUME TypeOK, Ownership, NEW m \in Mails, DeliverStep(m) PROVE Ownership'
<1>1. CASE DeliverHandsOver(m) \/ ServerTakes(m) \/ DeliverGivesUp(m) \/ DeliverSent(m)
           \/ DeliverRemovesDraft(m) \/ DeliverFailsLate(m) \/ DeliverKeepsDraft(m)
  <2>1. PICK s \in DeliverSteps : deliver' = [deliver EXCEPT ![m] = s]
    BY <1>1 DEF DeliverHandsOver, ServerTakes, DeliverGivesUp, DeliverSent, DeliverRemovesDraft,
                DeliverFailsLate, DeliverKeepsDraft, DeliverSteps
  <2>2. deliver[m] # "idle" /\ UNCHANGED <<rows, row, account, taskAt, accepted, back>>
    BY <1>1 DEF DeliverHandsOver, ServerTakes, DeliverGivesUp, DeliverSent, DeliverRemovesDraft,
                DeliverFailsLate, DeliverKeepsDraft, table, task, notes
  <2> QED
    BY <2>1, <2>2, DeliverGoesOnStep
<1>2. CASE DeliverUnreadable(m) \/ DeliverBreaksOff(m) \/ DeliverHolds(m)
  <2>1. rows' = rows /\ \A n \in rows \ {m} : row'[n] = row[n]
    BY <1>2 DEF DeliverUnreadable, DeliverBreaksOff, DeliverHolds, Hold, TypeOK, TableOK
  <2>2. deliver[m] # "idle" /\ deliver' = [deliver EXCEPT ![m] = "idle"]
        /\ UNCHANGED <<account, taskAt, accepted, back>>
    BY <1>2 DEF DeliverUnreadable, DeliverBreaksOff, DeliverHolds, task, notes
  <2> QED
    BY <2>1, <2>2, DeliverEndsStep
<1>3. CASE DeliverFinishes(m) \/ DeliverClearsKept(m)
  <2>1. rows \ {m} \subseteq rows' /\ rows' \subseteq rows /\ \A n \in rows \ {m} : row'[n] = row[n]
    BY <1>3 DEF DeliverFinishes, DeliverClearsKept, Finish, Remove, table, TypeOK, TableOK
  <2>2. deliver[m] # "idle" /\ deliver' = [deliver EXCEPT ![m] = "idle"]
        /\ UNCHANGED <<account, taskAt, accepted, back>>
    BY <1>3 DEF DeliverFinishes, DeliverClearsKept, task, notes
  <2> QED
    BY <2>1, <2>2, DeliverEndsStep
<1>4. CASE DeliverRetries(m)
  <2>1. rows' = rows /\ \A n \in rows \ {m} : row'[n] = row[n]
    BY <1>4 DEF DeliverRetries, TypeOK, TableOK
  <2>2. deliver[m] # "idle" /\ deliver' = [deliver EXCEPT ![m] = "idle"]
        /\ UNCHANGED <<account, accepted, back>>
    BY <1>4 DEF DeliverRetries, notes
  <2>3. taskAt' \in {"off", "release"} => taskAt \in {"off", "release"}
    BY <1>4, RunOutboxKeepsQuiet DEF DeliverRetries
  <2> QED
    BY <2>1, <2>2, <2>3, DeliverEndsStep
<1> QED
  BY <1>1, <1>2, <1>3, <1>4 DEF DeliverStep

LEMMA SweepOwns == ASSUME TypeOK, Ownership, NEW m \in Mails, SweepStep(m) PROVE Ownership'
  BY UnclaimedStep DEF SweepStep, SweepFinds, SweepDeletes, SweepFails, table, task, notes

LEMMA WorldOwns == ASSUME TypeOK, Ownership, Tick \/ ComputerSleeps \/ Quit \/ Start PROVE Ownership'
<1>1. CASE Tick \/ ComputerSleeps
  <2>1. \A m \in rows : row'[m].claimed = row[m].claimed
    BY <1>1 DEF Tick, ComputerSleeps, WallClock, TypeOK, TableOK, Row
  <2> QED
    BY <1>1, <2>1, UnclaimedStep DEF Tick, ComputerSleeps, task, server, notes
<1>2. CASE Quit
  BY <1>2 DEF Quit, table, TypeOK, NotesOK, Ownership, DeliveryOwnsRow, QuietBeforeRelease,
              RemovedIsEmpty, EntersOnce, BackIsOut
<1>3. CASE Start
  BY <1>3, RunOutboxKeepsQuiet, UnclaimedStep DEF Start, table, notes
<1> QED
  BY <1>1, <1>2, <1>3

THEOREM OwnershipHolds == Spec => []Ownership
<1>1. Init => Ownership
  BY DEF Init, Ownership, DeliveryOwnsRow, QuietBeforeRelease, RemovedIsEmpty, EntersOnce, BackIsOut
<1>2. TypeOK /\ Ownership /\ [Next]_vars => Ownership'
  <2>1. TypeOK /\ Ownership /\ UNCHANGED vars => Ownership'
    BY UnclaimedStep DEF vars
  <2> QED
    BY <2>1, PersonOwns, StopOwns, TaskOwns, DeliverOwns, SweepOwns, WorldOwns DEF Next
<1> QED
  BY <1>1, <1>2, TypesHold, PTL DEF Spec

\* While a delivery runs, its row is there and claimed: no statement of the person and no
\* second claim can have touched it, however the person's calls, the task and the other
\* deliveries interleave, and whatever stops or fails in between.
THEOREM DeliveriesOwnTheirRows == Spec => []DeliveryOwnsRow
<1>1. Ownership => DeliveryOwnsRow
  BY DEF Ownership
<1> QED
  BY <1>1, OwnershipHolds, PTL

\* A mail handed back to the composer, from the undo window or from the scheduled list, is
\* never given to the mail server afterwards.
THEOREM TakenBackStaysBack == Spec => TakenBackNeverGoes
<1>1. TypeOK /\ Ownership /\ [Next]_vars => \A m \in back : m \in taken' => m \in taken
  <2> SUFFICES ASSUME TypeOK, Ownership, [Next]_vars, NEW m \in back, m \in taken' PROVE m \in taken
    OBVIOUS
  <2>1. deliver[m] = "idle"
    BY DEF Ownership, BackIsOut
  <2>2. taken' = taken \/ \E n \in Mails : ServerTakes(n)
    BY DEF Next, vars, notes, Person, QueueSend, SendLater, CancelSend, RescheduleSend, SendScheduledNow,
       Release, EditScheduled, StopScheduled, RemoveAccount, StopStep, StopDraftSaved, StopTakesRow,
       StopDraftFails, TaskStep, TaskReleases, TaskTakesDue, TaskNaps, TaskWakes, DeliverStep,
       DeliverUnreadable, DeliverHandsOver, DeliverRetries, DeliverGivesUp, DeliverBreaksOff,
       DeliverSent, DeliverRemovesDraft, DeliverFinishes, DeliverFailsLate, DeliverKeepsDraft,
       DeliverClearsKept, DeliverHolds, SweepStep, SweepFinds, SweepDeletes, SweepFails,
       Tick, ComputerSleeps, Quit, Start
  <2> QED
    BY <2>1, <2>2 DEF ServerTakes
<1> QED
  BY <1>1, TypesHold, OwnershipHolds, PTL DEF Spec, TakenBackNeverGoes

-----------------------------------------------------------------------------
(***************************************************************************)
(* What a step may do to one mail, seen from the mail.                     *)
(***************************************************************************)

SameRow(x) == x \in rows /\ x \in rows' /\ row'[x].claimed = row[x].claimed /\ row'[x].held = row[x].held
Enters(x) == x \notin accepted /\ x \in rows' /\ x \in asked'
GoesAgain(x) == FreeWindow /\ x \in rows /\ ~row[x].claimed /\ x \in asked'
IsStopped(x) == x \in rows /\ ~row[x].claimed /\ ~row'[x].claimed /\ row'[x].held = "failed"
StopGivenUp(x) ==
    \E w \in Windows : /\ call[w].at = "saving" /\ call[w].mail = x /\ call'[w].at = "idle"
                       /\ x \in rows /\ ~row[x].claimed /\ row'[x].held = call[w].old
IsReleased(x) == x \in rows /\ row[x].claimed /\ row'[x].held = "unsure" /\ x \in warned'
IsClaimed(x) == Waiting(x) /\ row'[x].claimed
IsHeld(x) ==
    /\ x \in rows /\ row'[x].held # "no" /\ deliver[x] \in {"send", "wire", "took", "keep"}
    /\ deliver[x] = "took" => x \in warned'
IsRetried(x) == x \in rows /\ deliver[x] \in {"send", "wire"}
Leaves(x) ==
    \/ ~account'
    \/ x \in rows /\ ~row[x].claimed /\ x \in back'
    \/ \E w \in Windows : call[w].at = "saved" /\ call[w].mail = x
    \/ deliver[x] \in {"filed", "kept"}

RowStep(x) ==
    \/ x \notin rows /\ x \notin rows'
    \/ SameRow(x) \/ Enters(x) \/ GoesAgain(x) \/ IsStopped(x) \/ StopGivenUp(x) \/ IsReleased(x)
    \/ IsClaimed(x) \/ IsHeld(x) \/ IsRetried(x)
    \/ x \notin rows' /\ Leaves(x)

\* A mail leaves only where Leaves says so.
RowsStep(x) == RowStep(x) /\ (x \in rows /\ x \notin rows' => Leaves(x))

LEMMA UntouchedRow == ASSUME UNCHANGED table, NEW x PROVE RowsStep(x)
  BY DEF table, RowsStep, RowStep, SameRow

\* One row changes: the others are as they were.
LEMMA OtherRow ==
  ASSUME NEW x \in Mails, (x \in rows) = (x \in rows'), row'[x] = row[x] PROVE RowsStep(x)
  BY DEF RowsStep, RowStep, SameRow

LEMMA PersonRows == ASSUME TypeOK, Person, NEW x \in Mails PROVE RowsStep(x)
<1>0. row \in [Mails -> Row] /\ rows \subseteq Mails
  BY DEF TypeOK, TableOK
<1>1. ASSUME NEW m \in Mails, QueueSend(m) \/ SendLater(m) PROVE RowsStep(x)
  <2>0. PICK l, t : Insert(m, l, t)
    BY <1>1 DEF QueueSend, SendLater
  <2>1. /\ m \in rows' /\ m \notin accepted /\ m \in asked'
        /\ x # m => (x \in rows) = (x \in rows') /\ row'[x] = row[x]
    <3>1. m \notin accepted /\ m \in asked'
      BY <1>1 DEF QueueSend, SendLater
    <3>2. m \in rows' /\ (x # m => (x \in rows) = (x \in rows') /\ row'[x] = row[x])
      <4>1. rows' = rows \union {m} /\ (x # m => row'[x] = row[x])
        BY <1>0, <2>0 DEF Insert
      <4> QED
        BY <4>1
    <3> QED
      BY <3>1, <3>2
  <2>2. CASE x = m
    BY <2>1, <2>2 DEF RowsStep, RowStep, Enters
  <2> QED
    BY <2>1, <2>2, OtherRow
<1>2. ASSUME NEW m \in Mails, CancelSend(m) \/ EditScheduled(m) PROVE RowsStep(x)
  <2>1. /\ m \in rows /\ ~row[m].claimed /\ m \in back' /\ m \notin rows'
        /\ x # m => (x \in rows) = (x \in rows') /\ row'[x] = row[x]
    BY <1>0, <1>2 DEF CancelSend, EditScheduled, Pickable, Listed, Remove
  <2>2. CASE x = m
    BY <2>1, <2>2 DEF RowsStep, RowStep, Leaves
  <2> QED
    BY <2>1, <2>2, OtherRow
<1>3. ASSUME NEW m \in Mails, NEW t, Release(m, t) PROVE RowsStep(x)
  <2>1. /\ FreeWindow /\ m \in rows /\ ~row[m].claimed /\ m \in asked' /\ rows' = rows
        /\ x # m => row'[x] = row[x]
    BY <1>0, <1>3 DEF Release, Pickable, Listed
  <2>2. CASE x = m
    BY <2>1, <2>2 DEF RowsStep, RowStep, GoesAgain
  <2> QED
    BY <2>1, <2>2, OtherRow
<1>4. ASSUME NEW w \in Windows, NEW m \in Mails, StopScheduled(w, m) PROVE RowsStep(x)
  <2>1. /\ m \in rows /\ ~row[m].claimed /\ ~row'[m].claimed /\ row'[m].held = "failed" /\ rows' = rows
        /\ x # m => row'[x] = row[x]
    BY <1>0, <1>4 DEF StopScheduled, Pickable, Listed, Row
  <2>2. CASE x = m
    BY <2>1, <2>2 DEF RowsStep, RowStep, IsStopped
  <2> QED
    BY <2>1, <2>2, OtherRow
<1>5. CASE RemoveAccount
  BY <1>5 DEF RemoveAccount, RowsStep, RowStep, Leaves
<1> QED
  BY <1>1, <1>2, <1>3, <1>4, <1>5 DEF Person, RescheduleSend, SendScheduledNow

LEMMA StopRows == ASSUME TypeOK, NEW w \in Windows, StopStep(w), NEW x \in Mails PROVE RowsStep(x)
<1>0. row \in [Mails -> Row] /\ rows \subseteq Mails /\ call[w].mail \in Mails /\ call \in [Windows -> Call]
  BY DEF TypeOK, TableOK, CallOK, Call
<1>1. CASE StopDraftSaved(w)
  BY <1>1, UntouchedRow DEF StopDraftSaved
<1>2. CASE StopTakesRow(w)
  <2>1. CASE UNCHANGED table
    BY <2>1, UntouchedRow
  <2>2. CASE Remove(call[w].mail)
    <3>1. x # call[w].mail => (x \in rows) = (x \in rows') /\ row'[x] = row[x]
      BY <1>0, <2>2 DEF Remove
    <3>2. CASE x = call[w].mail
      BY <1>2, <2>2, <3>2 DEF StopTakesRow, Remove, RowsStep, RowStep, Leaves
    <3> QED
      BY <3>1, <3>2, OtherRow
  <2> QED
    BY <1>2, <2>1, <2>2 DEF StopTakesRow
<1>3. CASE StopDraftFails(w)
  <2>0. rows' = rows /\ call[w].at = "saving" /\ call' = [call EXCEPT ![w] = NoCall]
    BY <1>3 DEF StopDraftFails
  <2>1. CASE UNCHANGED row
    BY <2>0, <2>1, UntouchedRow DEF table
  <2>2. CASE Listed(call[w].mail) /\ row' = [row EXCEPT ![call[w].mail] = [@ EXCEPT !.held = call[w].old]]
    <3>1. x # call[w].mail => row'[x] = row[x]
      BY <1>0, <2>2
    <3>2. CASE x = call[w].mail
      <4>1. x \in rows /\ ~row[x].claimed /\ row'[x].held = call[w].old
        BY <1>0, <2>2, <3>2 DEF Listed, Row
      <4>2. call'[w].at = "idle"
        BY <1>0, <2>0 DEF NoCall
      <4>3. StopGivenUp(x)
        BY <2>0, <3>2, <4>1, <4>2 DEF StopGivenUp
      <4> QED
        BY <2>0, <4>1, <4>3 DEF RowsStep, RowStep
    <3> QED
      BY <2>0, <3>1, <3>2, OtherRow
  <2> QED
    BY <1>3, <2>1, <2>2 DEF StopDraftFails
<1> QED
  BY <1>1, <1>2, <1>3 DEF StopStep

LEMMA TaskRows == ASSUME TypeOK, TaskStep, NEW x \in Mails PROVE RowsStep(x)
<1>0. row \in [Mails -> Row] /\ rows \subseteq Mails
  BY DEF TypeOK, TableOK
<1>1. CASE TaskReleases
  <2>1. rows' = rows /\ (row'[x] = row[x] \/ IsReleased(x))
    BY <1>0, <1>1 DEF TaskReleases, IsReleased, Row
  <2> QED
    BY <2>1, OtherRow DEF RowsStep, RowStep
<1>2. CASE TaskTakesDue
  <2>1. rows' = rows /\ (row'[x] = row[x] \/ IsClaimed(x))
    BY <1>0, <1>2 DEF TaskTakesDue, IsClaimed, Due, Row
  <2> QED
    BY <2>1, OtherRow DEF RowsStep, RowStep, IsClaimed, Waiting
<1>3. CASE TaskNaps \/ TaskWakes
  BY <1>3, UntouchedRow DEF TaskNaps, TaskWakes
<1> QED
  BY <1>1, <1>2, <1>3 DEF TaskStep

LEMMA DeliverRows == ASSUME TypeOK, NEW m \in Mails, DeliverStep(m), NEW x \in Mails PROVE RowsStep(x)
<1>0. row \in [Mails -> Row] /\ rows \subseteq Mails
  BY DEF TypeOK, TableOK
<1>1. CASE UNCHANGED table
  BY <1>1, UntouchedRow
<1>2. ASSUME NEW why \in {"failed", "unsure"}, Hold(m, why), deliver[m] \in {"send", "wire", "took", "keep"},
             deliver[m] = "took" /\ m \in rows => m \in warned'
      PROVE  RowsStep(x)
  <2>1. rows' = rows /\ (x # m => row'[x] = row[x]) /\ (row'[m] = row[m] \/ (m \in rows /\ row'[m].held = why))
    BY <1>0, <1>2 DEF Hold, Row
  <2>2. CASE x = m /\ m \in rows /\ row'[m].held = why
    BY <1>2, <2>1, <2>2 DEF RowsStep, RowStep, IsHeld
  <2> QED
    BY <2>1, <2>2, OtherRow
<1>3. CASE Finish(m) /\ deliver[m] \in {"filed", "kept"}
  <2>1. CASE Remove(m)
    <3>1. m \notin rows' /\ (x # m => (x \in rows) = (x \in rows') /\ row'[x] = row[x])
      BY <1>0, <2>1 DEF Remove
    <3>2. CASE x = m
      BY <1>3, <3>1, <3>2 DEF RowsStep, RowStep, Leaves
    <3> QED
      BY <3>1, <3>2, OtherRow
  <2> QED
    BY <1>3, <2>1, UntouchedRow DEF Finish
<1>4. CASE DeliverRetries(m)
  <2>1. rows' = rows /\ m \in rows /\ deliver[m] \in {"send", "wire"} /\ (x # m => row'[x] = row[x])
    BY <1>0, <1>4 DEF DeliverRetries, CanRetry
  <2>2. CASE x = m
    BY <2>1, <2>2 DEF RowsStep, RowStep, IsRetried
  <2> QED
    BY <2>1, <2>2, OtherRow
<1>5. CASE DeliverUnreadable(m) \/ DeliverHolds(m) \/ DeliverBreaksOff(m)
  BY <1>2, <1>5 DEF DeliverUnreadable, DeliverHolds, DeliverBreaksOff
<1>6. CASE DeliverFinishes(m) \/ DeliverClearsKept(m)
  BY <1>3, <1>6 DEF DeliverFinishes, DeliverClearsKept
<1> QED
  BY <1>1, <1>4, <1>5, <1>6
     DEF DeliverStep, DeliverHandsOver, ServerTakes, DeliverGivesUp, DeliverSent, DeliverRemovesDraft,
         DeliverFailsLate, DeliverKeepsDraft

LEMMA WorldRows ==
  ASSUME TypeOK, Tick \/ ComputerSleeps \/ Quit \/ Start \/ (\E m \in Mails : SweepStep(m)) \/ UNCHANGED vars,
         NEW x \in Mails
  PROVE  RowsStep(x)
<1>1. CASE Tick \/ ComputerSleeps
  <2>1. rows' = rows /\ row'[x].claimed = row[x].claimed /\ row'[x].held = row[x].held
    BY <1>1 DEF Tick, ComputerSleeps, WallClock, TypeOK, TableOK, Row
  <2> QED
    BY <2>1 DEF RowsStep, RowStep, SameRow
<1> QED
  BY <1>1, UntouchedRow DEF Quit, Start, SweepStep, SweepFinds, SweepDeletes, SweepFails, vars, table

LEMMA RowsMove == ASSUME TypeOK, [Next]_vars, NEW x \in Mails PROVE RowsStep(x)
  BY PersonRows, StopRows, TaskRows, DeliverRows, WorldRows DEF Next

\* How far the delivery of a mail comes in a step.
DeliveryStep(x) ==
    \/ deliver'[x] \in {deliver[x], "idle"}
    \/ deliver'[x] = "send" /\ Waiting(x)
    \/ deliver'[x] = "wire" /\ deliver[x] = "send"
    \/ deliver'[x] = "took" /\ deliver[x] = "wire" /\ x \in taken'
    \/ deliver'[x] = "keep" /\ (deliver[x] \in {"send", "wire"} \/ (deliver[x] = "filed" /\ DiskErrors))
    \/ deliver'[x] = "sent" /\ deliver[x] = "took"
    \/ deliver'[x] = "filed" /\ deliver[x] = "sent"
    \/ deliver'[x] = "kept" /\ deliver[x] = "keep" /\ "kept" \in drafts'[x]

LEMMA DeliveriesMove == ASSUME TypeOK, [Next]_vars, NEW x \in Mails PROVE DeliveryStep(x)
<1>0. deliver \in [Mails -> DeliverSteps] /\ drafts \in [Mails -> SUBSET Copies]
  BY DEF TypeOK, DeliverOK, ServerOK
<1>1. CASE UNCHANGED deliver
  BY <1>1 DEF DeliveryStep
<1>2. CASE TaskTakesDue
  BY <1>0, <1>2 DEF TaskTakesDue, Due, DeliveryStep
<1>3. ASSUME NEW m \in Mails, DeliverStep(m) PROVE DeliveryStep(x)
  <2>1. CASE x # m
    BY <1>0, <1>3, <2>1
       DEF DeliveryStep, DeliverStep, DeliverUnreadable, DeliverHandsOver, ServerTakes, DeliverRetries,
           DeliverGivesUp, DeliverBreaksOff, DeliverSent, DeliverRemovesDraft, DeliverFinishes, DeliverFailsLate,
           DeliverKeepsDraft, DeliverClearsKept, DeliverHolds
  <2>2. CASE x = m
    <3>1. CASE DeliverUnreadable(m) \/ DeliverRetries(m) \/ DeliverBreaksOff(m) \/ DeliverFinishes(m)
               \/ DeliverClearsKept(m) \/ DeliverHolds(m)
      BY <1>0, <2>2, <3>1
         DEF DeliveryStep, DeliverUnreadable, DeliverRetries, DeliverBreaksOff, DeliverFinishes,
             DeliverClearsKept, DeliverHolds
    <3>2. CASE DeliverHandsOver(m) \/ ServerTakes(m) \/ DeliverSent(m) \/ DeliverRemovesDraft(m)
      BY <1>0, <2>2, <3>2 DEF DeliveryStep, DeliverHandsOver, ServerTakes, DeliverSent, DeliverRemovesDraft
    <3>3. CASE DeliverGivesUp(m) \/ DeliverFailsLate(m)
      BY <1>0, <2>2, <3>3 DEF DeliveryStep, DeliverGivesUp, DeliverFailsLate
    <3>4. CASE DeliverKeepsDraft(m)
      BY <1>0, <2>2, <3>4 DEF DeliveryStep, DeliverKeepsDraft, DraftSaved
    <3> QED
      BY <1>3, <3>1, <3>2, <3>3, <3>4 DEF DeliverStep
  <2> QED
    BY <2>1, <2>2
<1>4. CASE Quit
  BY <1>4 DEF Quit, DeliveryStep
<1>5. CASE Person \/ (\E w \in Windows : StopStep(w)) \/ TaskReleases \/ TaskNaps \/ TaskWakes
           \/ (\E m \in Mails : SweepStep(m)) \/ Tick \/ ComputerSleeps \/ Start \/ UNCHANGED vars
  BY <1>1, <1>5
     DEF Person, QueueSend, SendLater, CancelSend, RescheduleSend, SendScheduledNow, Release, EditScheduled,
         StopScheduled, RemoveAccount, StopStep, StopDraftSaved, StopTakesRow, StopDraftFails, TaskReleases,
         TaskNaps, TaskWakes, SweepStep, SweepFinds, SweepDeletes, SweepFails, Tick, ComputerSleeps, Start, vars
<1> QED
  BY <1>2, <1>3, <1>4, <1>5 DEF Next, TaskStep

\* What an observer notes down of a mail.
NotesStep(x) ==
    /\ x \in accepted => x \in accepted'
    /\ x \in accepted' => x \in accepted \/ x \in rows'
    /\ x \in taken => x \in taken'
    /\ x \in taken' \ taken => deliver[x] = "wire" /\ deliver'[x] = "took" /\ UNCHANGED <<table, warned, back>>
    /\ x \in asked \ asked' => x \in taken' /\ deliver[x] = "wire" /\ deliver'[x] = "took" /\ UNCHANGED <<table, warned, back>>
    /\ x \in warned => x \in warned'
    /\ x \in swept => x \in swept'
    /\ x \in back => x \in back'
    /\ x \in back' \ back => x \in rows /\ ~row[x].claimed
    /\ account' => account

LEMMA NotesMove == ASSUME TypeOK, [Next]_vars, NEW x \in Mails PROVE NotesStep(x)
<1>1. CASE UNCHANGED <<notes, account>>
  BY <1>1 DEF notes, NotesStep
<1>2. ASSUME NEW m \in Mails, QueueSend(m) \/ SendLater(m) PROVE NotesStep(x)
  BY <1>2 DEF QueueSend, SendLater, Insert, NotesStep
<1>3. ASSUME NEW m \in Mails, CancelSend(m) \/ EditScheduled(m) PROVE NotesStep(x)
  BY <1>3 DEF CancelSend, EditScheduled, Pickable, Listed, NotesStep
<1>4. ASSUME NEW m \in Mails, NEW t, Release(m, t) PROVE NotesStep(x)
  BY <1>4 DEF Release, NotesStep
<1>5. ASSUME NEW m \in Mails, ServerTakes(m) PROVE NotesStep(x)
  BY <1>5 DEF ServerTakes, NotesStep, TypeOK, DeliverOK
<1>6. ASSUME NEW m \in Mails, DeliverBreaksOff(m) PROVE NotesStep(x)
  BY <1>6 DEF DeliverBreaksOff, NotesStep
<1>7. ASSUME NEW m \in Mails, SweepDeletes(m) PROVE NotesStep(x)
  <2>1. swept \subseteq swept'
    BY <1>7 DEF SweepDeletes
  <2> QED
    BY <1>7, <2>1 DEF SweepDeletes, NotesStep
<1>8. CASE TaskReleases \/ TaskNaps \/ ComputerSleeps \/ Quit \/ RemoveAccount
  <2>1. CASE TaskReleases
    <3>1. warned \subseteq warned'
      BY <2>1 DEF TaskReleases
    <3> QED
      BY <2>1, <3>1 DEF TaskReleases, NotesStep
  <2>2. CASE TaskNaps \/ ComputerSleeps \/ Quit \/ RemoveAccount
    BY <2>2 DEF TaskNaps, ComputerSleeps, Quit, RemoveAccount, notes, NotesStep
  <2> QED
    BY <1>8, <2>1, <2>2
<1>9. CASE \/ \E w \in Windows, m \in Mails : StopScheduled(w, m)
           \/ \E w \in Windows : StopStep(w)
           \/ TaskTakesDue \/ TaskWakes \/ Tick \/ Start \/ UNCHANGED vars
  BY <1>1, <1>9
     DEF StopScheduled, StopStep, StopDraftSaved, StopTakesRow, StopDraftFails, TaskTakesDue, TaskWakes,
         Tick, Start, vars, notes
<1>10. ASSUME NEW m \in Mails,
              \/ SweepFinds(m) \/ SweepFails(m) \/ DeliverUnreadable(m) \/ DeliverHandsOver(m) \/ DeliverRetries(m)
              \/ DeliverGivesUp(m) \/ DeliverSent(m) \/ DeliverRemovesDraft(m) \/ DeliverFinishes(m)
              \/ DeliverFailsLate(m) \/ DeliverKeepsDraft(m) \/ DeliverClearsKept(m) \/ DeliverHolds(m)
       PROVE  NotesStep(x)
  BY <1>1, <1>10
     DEF SweepFinds, SweepFails, DeliverUnreadable, DeliverHandsOver, DeliverRetries, DeliverGivesUp, DeliverSent,
         DeliverRemovesDraft, DeliverFinishes, DeliverFailsLate, DeliverKeepsDraft, DeliverClearsKept, DeliverHolds
<1> QED
  BY <1>2, <1>3, <1>4, <1>5, <1>6, <1>7, <1>8, <1>9, <1>10
     DEF Next, Person, RescheduleSend, SendScheduledNow, TaskStep, DeliverStep, SweepStep

-----------------------------------------------------------------------------
(***************************************************************************)
(* Theorems about the outbox task: the claims it makes and the naps it      *)
(* takes.                                                                   *)
(***************************************************************************)

(***************************************************************************)
(* With a local database that doesn't fail: no claim is ever left behind,   *)
(* and the task never naps past what is due.  (With failing statements both *)
(* are false: a hold or a finish that fails leaves its row claimed until    *)
(* the next start, and a failed query for the next time naps for MaxNap.)   *)
(***************************************************************************)

\* A step that ends no delivery and claims nothing.
LEMMA NoNewClaimStep ==
  ASSUME TypeOK, NoOrphanClaim, UNCHANGED deliver,
         taskAt \in {"off", "release"} => taskAt' \in {"off", "release"},
         \A m \in rows' : row'[m].claimed => m \in rows /\ row[m].claimed
  PROVE  NoOrphanClaim'
  BY DEF NoOrphanClaim

\* A delivery's own step: it goes on, or its row is unclaimed or gone.
LEMMA DeliverClaimStep ==
  ASSUME TypeOK, NoOrphanClaim, NEW m \in Mails, NEW s \in DeliverSteps,
         deliver' = [deliver EXCEPT ![m] = s],
         taskAt \in {"off", "release"} => taskAt' \in {"off", "release"},
         s = "idle" => m \notin rows' \/ ~row'[m].claimed,
         \A n \in rows' \ {m} : n \in rows /\ row'[n] = row[n]
  PROVE  NoOrphanClaim'
  BY DEF NoOrphanClaim, TypeOK, TableOK, DeliverOK

LEMMA RunOutboxKeepsOff ==
  ASSUME RunOutbox PROVE taskAt \in {"off", "release"} => taskAt' \in {"off", "release"}
  BY DEF RunOutbox

\* The person's calls and the stops claim nothing.
LEMMA CallsClaimNothing ==
  ASSUME TypeOK, NoOrphanClaim, Person \/ \E w \in Windows : StopStep(w) PROVE NoOrphanClaim'
<1>1. ASSUME NEW m \in Mails, QueueSend(m) \/ SendLater(m) PROVE NoOrphanClaim'
  <2>1. PICK l, t : Insert(m, l, t)
    BY <1>1 DEF QueueSend, SendLater
  <2>2. ~row'[m].claimed /\ \A n \in rows' \ {m} : n \in rows /\ row'[n] = row[n]
    BY <2>1 DEF Insert, Blank, TypeOK, TableOK
  <2> QED
    BY <1>1, <2>2, RunOutboxKeepsOff, NoNewClaimStep DEF QueueSend, SendLater
<1>2. ASSUME NEW m \in Mails, CancelSend(m) \/ EditScheduled(m) PROVE NoOrphanClaim'
  BY <1>2, NoNewClaimStep DEF CancelSend, EditScheduled, Remove, task, TypeOK, TableOK
<1>3. ASSUME NEW m \in Mails, NEW t, Release(m, t) PROVE NoOrphanClaim'
  <2>1. \A n \in rows' : row'[n].claimed => n \in rows /\ row[n].claimed
    BY <1>3 DEF Release, TypeOK, TableOK, Row
  <2> QED
    BY <1>3, <2>1, RunOutboxKeepsOff, NoNewClaimStep DEF Release
<1>4. ASSUME NEW w \in Windows, NEW m \in Mails, StopScheduled(w, m) PROVE NoOrphanClaim'
  <2>1. \A n \in rows' : row'[n].claimed => n \in rows /\ row[n].claimed
    BY <1>4 DEF StopScheduled, TypeOK, TableOK, Row
  <2> QED
    BY <1>4, <2>1, NoNewClaimStep DEF StopScheduled, task
<1>5. CASE RemoveAccount
  BY <1>5, NoNewClaimStep DEF RemoveAccount, task
<1>6. ASSUME NEW w \in Windows, StopStep(w) PROVE NoOrphanClaim'
  <2>a. call[w].mail \in Mails
    BY DEF TypeOK, CallOK, Call
  <2>1. \A n \in rows' : row'[n].claimed => n \in rows /\ row[n].claimed
    BY <1>6, <2>a DEF StopStep, StopDraftSaved, StopTakesRow, StopDraftFails, Remove, table,
                      TypeOK, TableOK, Row
  <2>2. taskAt \in {"off", "release"} => taskAt' \in {"off", "release"}
    BY <1>6, RunOutboxKeepsOff DEF StopStep, StopDraftSaved, StopTakesRow, StopDraftFails, task
  <2>3. UNCHANGED deliver
    BY <1>6 DEF StopStep, StopDraftSaved, StopTakesRow, StopDraftFails
  <2> QED
    BY <2>1, <2>2, <2>3, NoNewClaimStep
<1> QED
  BY <1>1, <1>2, <1>3, <1>4, <1>5, <1>6 DEF Person, RescheduleSend, SendScheduledNow

LEMMA DeliverClaims ==
  ASSUME ~DiskErrors, TypeOK, NoOrphanClaim, NEW m \in Mails, DeliverStep(m) PROVE NoOrphanClaim'
<1>1. CASE DeliverHandsOver(m) \/ ServerTakes(m) \/ DeliverGivesUp(m) \/ DeliverSent(m)
           \/ DeliverRemovesDraft(m) \/ DeliverFailsLate(m) \/ DeliverKeepsDraft(m)
  <2>1. PICK s \in DeliverSteps \ {"idle"} : deliver' = [deliver EXCEPT ![m] = s]
    BY <1>1 DEF DeliverHandsOver, ServerTakes, DeliverGivesUp, DeliverSent, DeliverRemovesDraft,
                DeliverFailsLate, DeliverKeepsDraft, DeliverSteps
  <2>2. UNCHANGED <<rows, row, taskAt>>
    BY <1>1 DEF DeliverHandsOver, ServerTakes, DeliverGivesUp, DeliverSent, DeliverRemovesDraft,
                DeliverFailsLate, DeliverKeepsDraft, table, task
  <2> QED
    BY <2>1, <2>2, DeliverClaimStep
<1>2. CASE DeliverUnreadable(m) \/ DeliverBreaksOff(m) \/ DeliverHolds(m)
  <2>1. PICK why : Hold(m, why)
    BY <1>2 DEF DeliverUnreadable, DeliverBreaksOff, DeliverHolds
  <2>2. rows' = rows /\ (m \in rows => ~row'[m].claimed) /\ \A n \in rows \ {m} : row'[n] = row[n]
    BY <2>1 DEF Hold, TypeOK, TableOK, Row
  <2>3. UNCHANGED taskAt /\ deliver' = [deliver EXCEPT ![m] = "idle"]
    BY <1>2 DEF DeliverUnreadable, DeliverBreaksOff, DeliverHolds, task
  <2> QED
    BY <2>2, <2>3, DeliverClaimStep DEF DeliverSteps
<1>3. CASE DeliverFinishes(m) \/ DeliverClearsKept(m)
  <2>1. Remove(m)
    BY <1>3 DEF DeliverFinishes, DeliverClearsKept, Finish
  <2>2. m \notin rows' /\ \A n \in rows' : n \in rows /\ row'[n] = row[n]
    BY <2>1 DEF Remove, TypeOK, TableOK
  <2>3. UNCHANGED taskAt /\ deliver' = [deliver EXCEPT ![m] = "idle"]
    BY <1>3 DEF DeliverFinishes, DeliverClearsKept, task
  <2> QED
    BY <2>2, <2>3, DeliverClaimStep DEF DeliverSteps
<1>4. CASE DeliverRetries(m)
  <2>1. rows' = rows /\ ~row'[m].claimed /\ \A n \in rows \ {m} : row'[n] = row[n]
    BY <1>4 DEF DeliverRetries, TypeOK, TableOK, Row
  <2>2. deliver' = [deliver EXCEPT ![m] = "idle"]
    BY <1>4 DEF DeliverRetries
  <2> QED
    BY <1>4, <2>1, <2>2, RunOutboxKeepsOff, DeliverClaimStep DEF DeliverRetries, DeliverSteps
<1> QED
  BY <1>1, <1>2, <1>3, <1>4 DEF DeliverStep

LEMMA TaskClaims == ASSUME ~DiskErrors, TypeOK, NoOrphanClaim, TaskStep PROVE NoOrphanClaim'
<1>1. CASE TaskReleases
  <2>1. \A m \in rows : ~row'[m].claimed
    BY <1>1 DEF TaskReleases, TypeOK, TableOK, Row
  <2> QED
    BY <1>1, <2>1 DEF TaskReleases, NoOrphanClaim
<1>2. CASE TaskTakesDue
  <2>1. \A m \in rows : row'[m].claimed => deliver'[m] # "idle"
    BY <1>2 DEF TaskTakesDue, TypeOK, TableOK, Row, NoOrphanClaim
  <2> QED
    BY <1>2, <2>1 DEF TaskTakesDue, NoOrphanClaim
<1>3. CASE TaskNaps \/ TaskWakes
  BY <1>3, NoNewClaimStep DEF TaskNaps, TaskWakes, table, server, notes
<1> QED
  BY <1>1, <1>2, <1>3 DEF TaskStep

\* No row stays claimed with nobody delivering it: what an earlier run left claimed is released
\* before anything new is claimed, and every end of a delivery takes its claim with it.
THEOREM NoClaimIsOrphaned == ASSUME ~DiskErrors PROVE Spec => []NoOrphanClaim
<1>1. Init => NoOrphanClaim
  BY DEF Init, NoOrphanClaim
<1>2. ASSUME TypeOK, NoOrphanClaim, Tick \/ ComputerSleeps \/ Quit \/ Start PROVE NoOrphanClaim'
  <2>1. CASE Tick \/ ComputerSleeps
    <3>1. \A m \in rows : row'[m].claimed = row[m].claimed
      BY <1>2, <2>1 DEF Tick, ComputerSleeps, WallClock, TypeOK, TableOK, Row
    <3> QED
      BY <1>2, <2>1, <3>1, NoNewClaimStep DEF Tick, ComputerSleeps, task
  <2>2. CASE Quit
    BY <2>2 DEF Quit, NoOrphanClaim
  <2>3. CASE Start
    BY <1>2, <2>3, RunOutboxKeepsOff, NoNewClaimStep DEF Start, table
  <2> QED
    BY <1>2, <2>1, <2>2, <2>3
<1>3. TypeOK /\ NoOrphanClaim /\ [Next]_vars => NoOrphanClaim'
  <2>1. TypeOK /\ NoOrphanClaim /\ UNCHANGED vars => NoOrphanClaim'
    BY NoNewClaimStep DEF vars
  <2>2. ASSUME TypeOK, NoOrphanClaim, NEW m \in Mails, SweepStep(m) PROVE NoOrphanClaim'
    BY <2>2, NoNewClaimStep DEF SweepStep, SweepFinds, SweepDeletes, SweepFails, table, task
  <2> QED
    BY <1>2, <2>1, <2>2, CallsClaimNothing, TaskClaims, DeliverClaims DEF Next
<1> QED
  BY <1>1, <1>3, TypesHold, PTL DEF Spec

\* A step that lets nothing go earlier, and leaves the nap alone.
LEMMA NothingSoonerStep ==
  ASSUME SleepsNoLonger, UNCHANGED task, slept' = slept,
         \A m \in Mails : Waiting(m)' => Waiting(m) /\ row'[m].wait = row[m].wait
  PROVE  SleepsNoLonger'
  BY DEF SleepsNoLonger, task, Waiting

\* A step that wakes the task.
LEMMA RunOutboxWakes == ASSUME RunOutbox PROVE SleepsNoLonger'
  BY DEF RunOutbox, SleepsNoLonger

\* The nap never outlasts the time left to the next waiting entry, unless the task has been
\* woken or the computer slept: every statement that lets an entry go, or go earlier, wakes it.
THEOREM NapsEndInTime == ASSUME ~DiskErrors PROVE Spec => []SleepsNoLonger
<1>1. Init => SleepsNoLonger
  BY DEF Init, SleepsNoLonger
<1>2. ASSUME TypeOK, SleepsNoLonger, Person PROVE SleepsNoLonger'
  <2>1. ASSUME NEW m \in Mails, CancelSend(m) \/ EditScheduled(m) PROVE SleepsNoLonger'
    BY <1>2, <2>1, NothingSoonerStep DEF CancelSend, EditScheduled, Remove, Waiting, TypeOK, TableOK
  <2>2. ASSUME NEW w \in Windows, NEW m \in Mails, StopScheduled(w, m) PROVE SleepsNoLonger'
    <3>1. \A n \in Mails : Waiting(n)' => Waiting(n) /\ row'[n].wait = row[n].wait
      BY <1>2, <2>2 DEF StopScheduled, Waiting, TypeOK, TableOK, Row
    <3> QED
      BY <1>2, <2>2, <3>1, NothingSoonerStep DEF StopScheduled, notes
  <2>3. CASE RemoveAccount
    BY <1>2, <2>3, NothingSoonerStep DEF RemoveAccount, Waiting, notes
  <2> QED
    BY <1>2, <2>1, <2>2, <2>3, RunOutboxWakes
       DEF Person, QueueSend, SendLater, Release, RescheduleSend, SendScheduledNow
<1>3. ASSUME ~DiskErrors, TypeOK, SleepsNoLonger, NEW w \in Windows, StopStep(w) PROVE SleepsNoLonger'
  <2>1. CASE StopDraftSaved(w)
    BY <1>3, <2>1, NothingSoonerStep DEF StopDraftSaved, Waiting, table, notes
  <2>2. CASE StopTakesRow(w)
    BY <1>3, <2>2, NothingSoonerStep
       DEF StopTakesRow, Remove, Waiting, table, notes, TypeOK, TableOK, CallOK, Call
  <2>3. CASE StopDraftFails(w)
    BY <1>3, <2>3, RunOutboxWakes DEF StopDraftFails
  <2> QED
    BY <1>3, <2>1, <2>2, <2>3 DEF StopStep
<1>4. ASSUME ~DiskErrors, TypeOK, SleepsNoLonger, TaskStep PROVE SleepsNoLonger'
  <2>1. CASE TaskReleases \/ TaskTakesDue \/ TaskWakes
    BY <2>1 DEF TaskReleases, TaskTakesDue, TaskWakes, SleepsNoLonger
  <2>2. CASE TaskNaps
    <3>1. IsNap(napLeft')
      BY <1>4, <2>2 DEF TaskNaps
    <3> QED
      BY <2>2, <3>1 DEF TaskNaps, IsNap, SleepsNoLonger, Waiting, table
  <2> QED
    BY <1>4, <2>1, <2>2 DEF TaskStep
<1>5. ASSUME ~DiskErrors, TypeOK, SleepsNoLonger, NEW m \in Mails, DeliverStep(m) PROVE SleepsNoLonger'
  <2>1. CASE DeliverRetries(m)
    BY <2>1, RunOutboxWakes DEF DeliverRetries
  <2>2. CASE ~DeliverRetries(m)
    <3>1. UNCHANGED table \/ (\E why \in {"failed", "unsure"} : Hold(m, why)) \/ Remove(m)
      BY <1>5, <2>2 DEF DeliverStep, DeliverUnreadable, DeliverHandsOver, ServerTakes, DeliverGivesUp,
         DeliverBreaksOff, DeliverSent, DeliverRemovesDraft, DeliverFinishes, DeliverFailsLate,
         DeliverKeepsDraft, DeliverClearsKept, DeliverHolds, Finish
    <3>2. UNCHANGED task /\ slept' = slept
      BY <1>5, <2>2 DEF DeliverStep, DeliverUnreadable, DeliverHandsOver, ServerTakes, DeliverGivesUp,
         DeliverBreaksOff, DeliverSent, DeliverRemovesDraft, DeliverFinishes, DeliverFailsLate,
         DeliverKeepsDraft, DeliverClearsKept, DeliverHolds, notes
    <3>3. \A n \in Mails : Waiting(n)' => Waiting(n) /\ row'[n].wait = row[n].wait
      BY <1>5, <3>1 DEF Hold, Remove, Waiting, table, TypeOK, TableOK, Row
    <3> QED
      BY <1>5, <3>2, <3>3, NothingSoonerStep
  <2> QED
    BY <2>1, <2>2
<1>6. ASSUME TypeOK, SleepsNoLonger, NEW m \in Mails, SweepStep(m) PROVE SleepsNoLonger'
  BY <1>6, NothingSoonerStep
     DEF SweepStep, SweepFinds, SweepDeletes, SweepFails, Waiting, table, task, notes
<1>7. ASSUME TypeOK, SleepsNoLonger, Tick \/ ComputerSleeps \/ Quit \/ Start PROVE SleepsNoLonger'
  <2>1. CASE Tick
    <3>1. \A m \in Mails : Waiting(m)' => Waiting(m) /\ row'[m].wait = Sooner(row[m].wait)
      BY <1>7, <2>1 DEF Tick, WallClock, Waiting, TypeOK, TableOK, Row
    <3>2. napLeft' = Sooner(napLeft) /\ UNCHANGED <<taskAt, wakeup, slept>>
      BY <2>1 DEF Tick, notes
    <3>3. \A m \in Mails : row[m].wait \in Nat /\ napLeft \in Nat
      BY <1>7, TimesAssumption DEF TypeOK, TableOK, TaskOK, Row, Waits
    <3> QED
      BY <1>7, <3>1, <3>2, <3>3 DEF SleepsNoLonger, Sooner
  <2>2. CASE ComputerSleeps
    BY <2>2 DEF ComputerSleeps, task, SleepsNoLonger
  <2>3. CASE Quit
    BY <2>3 DEF Quit, SleepsNoLonger
  <2>4. CASE Start
    BY <2>4, RunOutboxWakes DEF Start
  <2> QED
    BY <1>7, <2>1, <2>2, <2>3, <2>4
<1>8. ASSUME ~DiskErrors PROVE TypeOK /\ SleepsNoLonger /\ [Next]_vars => SleepsNoLonger'
  <2>1. SleepsNoLonger /\ UNCHANGED vars => SleepsNoLonger'
    BY DEF vars, SleepsNoLonger, Waiting
  <2> QED
    BY <1>2, <1>3, <1>4, <1>5, <1>6, <1>7, <1>8, <2>1 DEF Next
<1> QED
  BY <1>1, <1>8, TypesHold, PTL DEF Spec

-----------------------------------------------------------------------------
(***************************************************************************)
(* Theorems about the fate of a mail the outbox took on: it is not lost, it *)
(* doesn't go twice on its own, and what went out is not offered again.     *)
(***************************************************************************)

\* A delivery, and what the server took, is of a mail the outbox took on; a delivery that had the
\* server's answer is of a mail it took.
IsEntered(x) ==
    /\ deliver[x] # "idle" \/ x \in taken => x \in accepted
    /\ deliver[x] \in {"took", "sent", "filed"} => x \in taken
Entered == \A x \in Mails : IsEntered(x)

LEMMA EnteredStep == ASSUME TypeOK, Ownership, Entered, [Next]_vars PROVE Entered'
<1> SUFFICES ASSUME NEW x \in Mails PROVE IsEntered(x)'
  BY DEF Entered
<1>1. NotesStep(x) /\ DeliveryStep(x)
  BY NotesMove, DeliveriesMove
<1>2. IsEntered(x)
  BY DEF Entered
<1>3. (deliver[x] \in {"took", "sent", "filed"} => x \in taken)'
  BY <1>1, <1>2 DEF NotesStep, DeliveryStep, IsEntered
<1>4. (deliver[x] # "idle" => x \in accepted)'
  BY <1>1, <1>2 DEF NotesStep, DeliveryStep, IsEntered, Ownership, EntersOnce, Waiting
<1>5. (x \in taken => x \in accepted)'
  BY <1>1, <1>2 DEF NotesStep, IsEntered
<1> QED
  BY <1>3, <1>4, <1>5 DEF IsEntered

THEOREM AlwaysEntered == Spec => []Entered
<1>1. Init => Entered
  BY DEF Init, Entered, IsEntered
<1> QED
  BY <1>1, EnteredStep, TypesHold, OwnershipHolds, PTL DEF Spec

-----------------------------------------------------------------------------
(***************************************************************************)
(* What went out, and the person hasn't been told that it may have: its row *)
(* stays claimed until it leaves, so nobody can take it back, and its        *)
(* delivery doesn't turn to Drafts.  A statement that fails breaks this:     *)
(* send then reports an error for a mail that went out.                      *)
(***************************************************************************)

IsOut(x) ==
    x \in taken \ warned => /\ x \notin back
                            /\ x \in rows => row[x].claimed
                            /\ deliver[x] \in {"idle", "took", "sent", "filed"}
Out == \A x \in Mails : IsOut(x)

LEMMA OutStep == ASSUME ~DiskErrors, TypeOK, Ownership, Entered, Out, [Next]_vars PROVE Out'
<1> SUFFICES ASSUME NEW x \in Mails, x \in taken', x \notin warned'
             PROVE  x \notin back' /\ (x \in rows' => row'[x].claimed) /\ deliver'[x] \in {"idle", "took", "sent", "filed"}
  BY DEF Out, IsOut
<1>1. NotesStep(x) /\ DeliveryStep(x) /\ RowsStep(x)
  BY NotesMove, DeliveriesMove, RowsMove
<1>2. IsOut(x) /\ IsEntered(x) /\ x \notin warned
  BY <1>1 DEF Out, Entered, NotesStep
<1>3. CASE x \notin taken
  <2>1. deliver[x] = "wire" /\ deliver'[x] = "took" /\ UNCHANGED <<table, warned, back>>
    BY <1>1, <1>3 DEF NotesStep
  <2>2. x \notin back /\ (x \in rows => row[x].claimed)
    BY <2>1 DEF Ownership, DeliveryOwnsRow, BackIsOut, RemovedIsEmpty
  <2> QED
    BY <2>1, <2>2 DEF table
<1>4. CASE x \in taken
  <2>1. x \notin back /\ (x \in rows => row[x].claimed) /\ deliver[x] \in {"idle", "took", "sent", "filed"}
    BY <1>2, <1>4 DEF IsOut
  <2>2. x \notin back'
    BY <1>1, <2>1 DEF NotesStep
  <2>3. deliver'[x] \in {"idle", "took", "sent", "filed"}
    BY <1>1, <2>1 DEF DeliveryStep, Waiting
  <2>4. x \in rows' => row'[x].claimed
    BY <1>1, <1>2, <1>4, <2>1
       DEF RowsStep, RowStep, SameRow, Enters, GoesAgain, IsStopped, StopGivenUp, IsReleased, IsClaimed,
           IsHeld, IsRetried, Waiting, IsEntered
  <2> QED
    BY <2>2, <2>3, <2>4
<1> QED
  BY <1>3, <1>4

THEOREM AlwaysOut == ASSUME ~DiskErrors PROVE Spec => []Out
<1>1. Init => Out
  BY DEF Init, Out, IsOut
<1>2. TypeOK /\ Ownership /\ Entered /\ Out /\ [Next]_vars => Out'
  BY OutStep
<1> QED
  BY <1>1, <1>2, TypesHold, OwnershipHolds, AlwaysEntered, PTL DEF Spec

\* A mail handed back to the composer (cancel_send, edit_scheduled) although the server took it was
\* shown as "may have gone out" before.
THEOREM TakenBackOrWarned == ASSUME ~DiskErrors PROVE Spec => []TakenBackOrSent
<1>1. TypeOK /\ Out => TakenBackOrSent
  BY DEF Out, IsOut, TakenBackOrSent, TypeOK, NotesOK
<1> QED
  BY <1>1, AlwaysOut, TypesHold, PTL

\* Of its own accord a delivery keeps in Drafts only what did not go out (deliver's MaybeSent branch).
THEOREM OnlyUnsentIsKept == ASSUME ~DiskErrors PROVE Spec => []KeepsOnlyUnsent
<1>1. Out => KeepsOnlyUnsent
  BY DEF Out, IsOut, KeepsOnlyUnsent
<1> QED
  BY <1>1, AlwaysOut, PTL

-----------------------------------------------------------------------------
(***************************************************************************)
(* What is in nobody's hands is kept: the copy in Drafts goes in before the *)
(* row goes, and only a delivery that sent the mail, or the removal of the  *)
(* composer's copy, takes a copy away again.                                 *)
(***************************************************************************)

Kept(x) == "kept" \in drafts[x] \/ x \in swept \/ x \in taken

\* How a stop_scheduled call goes on.
CallStep(w) ==
    \/ call'[w] = call[w]
    \/ call'[w].at = "idle"
    \/ call'[w].at = "saved" /\ call'[w].mail = call[w].mail /\ "kept" \in drafts'[call[w].mail]
    \/ /\ call[w].at = "idle" /\ call'[w].at = "saving" /\ Listed(call'[w].mail)
       /\ call'[w].old = row[call'[w].mail].held
       /\ IsStopped(call'[w].mail)
       /\ UNCHANGED <<rows, deliver, notes>>

LEMMA CallsMove == ASSUME TypeOK, [Next]_vars, NEW w \in Windows PROVE CallStep(w)
<1>0. call \in [Windows -> Call] /\ row \in [Mails -> Row]
  BY DEF TypeOK, CallOK, TableOK
<1>1. CASE call' = call
  BY <1>1 DEF CallStep
<1>2. ASSUME NEW v \in Windows, NEW m \in Mails, StopScheduled(v, m) PROVE CallStep(w)
  <2>1. CASE w # v
    BY <1>0, <1>2, <2>1 DEF StopScheduled, CallStep
  <2>2. CASE w = v
    <3>1. call'[w] = [at |-> "saving", mail |-> m, old |-> row[m].held]
      BY <1>0, <1>2, <2>2 DEF StopScheduled
    <3>2. IsStopped(m) /\ Listed(m)
      BY <1>0, <1>2 DEF StopScheduled, IsStopped, Pickable, Listed, Row
    <3> QED
      BY <1>2, <2>2, <3>1, <3>2 DEF StopScheduled, CallStep
  <2> QED
    BY <2>1, <2>2
<1>3. ASSUME NEW v \in Windows, StopDraftSaved(v) PROVE CallStep(w)
  <2>1. CASE w # v
    BY <1>0, <1>3, <2>1 DEF StopDraftSaved, CallStep
  <2>2. CASE w = v
    <3>1. call'[w].at = "saved" /\ call'[w].mail = call[w].mail
      BY <1>0, <1>3, <2>2 DEF StopDraftSaved, Call
    <3>2. "kept" \in drafts'[call[w].mail]
      BY <1>0, <1>3, <2>2 DEF StopDraftSaved, DraftSaved, Call, TypeOK, ServerOK
    <3> QED
      BY <3>1, <3>2 DEF CallStep
  <2> QED
    BY <2>1, <2>2
<1>4. ASSUME NEW v \in Windows, StopTakesRow(v) \/ StopDraftFails(v) PROVE CallStep(w)
  BY <1>0, <1>4 DEF StopTakesRow, StopDraftFails, NoCall, CallStep
<1>5. CASE Quit
  BY <1>5 DEF Quit, NoCall, CallStep
<1>6. CASE \/ TaskStep \/ Tick \/ ComputerSleeps \/ Start \/ RemoveAccount \/ UNCHANGED vars
           \/ \E m \in Mails : SweepStep(m) \/ QueueSend(m) \/ SendLater(m) \/ CancelSend(m) \/ EditScheduled(m)
                               \/ \E t : Release(m, t)
  BY <1>1, <1>6
     DEF TaskStep, TaskReleases, TaskTakesDue, TaskNaps, TaskWakes, Tick, ComputerSleeps, Start, RemoveAccount, vars,
         SweepStep, SweepFinds, SweepDeletes, SweepFails, QueueSend, SendLater, CancelSend, EditScheduled, Release
<1>7. ASSUME NEW m \in Mails, DeliverStep(m) PROVE CallStep(w)
  BY <1>1, <1>7
     DEF DeliverStep, DeliverUnreadable, DeliverHandsOver, ServerTakes, DeliverRetries, DeliverGivesUp,
         DeliverBreaksOff, DeliverSent, DeliverRemovesDraft, DeliverFinishes, DeliverFailsLate,
         DeliverKeepsDraft, DeliverClearsKept, DeliverHolds
<1> QED
  BY <1>2, <1>3, <1>4, <1>5, <1>6, <1>7
     DEF Next, Person, RescheduleSend, SendScheduledNow, StopStep

\* What is kept stays kept, but for what the background removal takes, which is then noted.
LEMMA KeptStays == ASSUME TypeOK, Entered, [Next]_vars, NEW x \in Mails, Kept(x) PROVE Kept(x)'
<1>0. drafts \in [Mails -> SUBSET Copies]
  BY DEF TypeOK, ServerOK
<1>1. x \in taken \/ x \in swept => Kept(x)'
  BY NotesMove DEF NotesStep, Kept
<1>2. CASE "kept" \in drafts'[x]
  BY <1>2 DEF Kept
<1>3. CASE drafts' = drafts
  BY <1>1, <1>3 DEF Kept
<1>4. ASSUME NEW m \in Mails, DraftSaved(m) \/ DraftNotSaved(m) PROVE Kept(x)'
  BY <1>0, <1>1, <1>2, <1>4 DEF DraftSaved, DraftNotSaved, Kept
<1>5. ASSUME NEW m \in Mails, DeliverRemovesDraft(m) PROVE Kept(x)'
  BY <1>0, <1>1, <1>2, <1>5 DEF DeliverRemovesDraft, Entered, IsEntered, Kept
<1>6. ASSUME NEW m \in Mails, SweepDeletes(m) PROVE Kept(x)'
  <2>1. CASE m = x /\ "kept" \in found[m]
    BY <1>6, <2>1 DEF SweepDeletes, Kept
  <2> QED
    BY <1>0, <1>1, <1>2, <1>6, <2>1 DEF SweepDeletes, Kept
<1>7. ASSUME NEW w \in Windows, StopStep(w) PROVE Kept(x)'
  <2>1. call[w].mail \in Mails
    BY DEF TypeOK, CallOK, Call
  <2> QED
    BY <1>3, <1>4, <1>7, <2>1 DEF StopStep, StopDraftSaved, StopTakesRow, StopDraftFails, server
<1>8. ASSUME NEW m \in Mails, DeliverStep(m) PROVE Kept(x)'
  BY <1>3, <1>4, <1>5, <1>8
     DEF DeliverStep, DeliverUnreadable, DeliverHandsOver, ServerTakes, DeliverRetries, DeliverGivesUp,
         DeliverBreaksOff, DeliverSent, DeliverFinishes, DeliverFailsLate,
         DeliverKeepsDraft, DeliverClearsKept, DeliverHolds, server
<1>9. CASE \/ TaskStep \/ Tick \/ ComputerSleeps \/ Start \/ Quit \/ UNCHANGED vars \/ Person
           \/ \E m \in Mails : SweepFinds(m) \/ SweepFails(m)
  BY <1>3, <1>9
     DEF TaskStep, TaskReleases, TaskTakesDue, TaskNaps, TaskWakes, Tick, ComputerSleeps, Start, Quit, vars,
         Person, RescheduleSend, SendScheduledNow, Release, StopScheduled, RemoveAccount,
         SweepFinds, SweepFails, QueueSend, SendLater, CancelSend, EditScheduled, server
<1> QED
  BY <1>6, <1>7, <1>8, <1>9 DEF Next, SweepStep

\* A call that saved its draft, and a delivery that did, have a copy to show for it; and a mail in
\* neither the outbox nor the composer is kept.
IsSafe(x) ==
    /\ deliver[x] = "kept" => Kept(x)
    /\ account /\ x \in accepted => x \in rows \/ Kept(x) \/ x \in back
CallKept(w) == call[w].at = "saved" => Kept(call[w].mail)
Safe == (\A x \in Mails : IsSafe(x)) /\ (\A w \in Windows : CallKept(w))

LEMMA SafeStep == ASSUME TypeOK, Entered, Safe, [Next]_vars PROVE Safe'
<1>1. ASSUME NEW x \in Mails PROVE IsSafe(x)'
  <2>1. NotesStep(x) /\ DeliveryStep(x) /\ RowsStep(x) /\ IsSafe(x) /\ (Kept(x) => Kept(x)')
    BY NotesMove, DeliveriesMove, RowsMove, KeptStays DEF Safe
  <2>2. deliver'[x] = "kept" => Kept(x)'
    BY <2>1 DEF DeliveryStep, IsSafe, Kept
  <2>3. ASSUME account', x \in accepted', x \notin rows' PROVE Kept(x)' \/ x \in back'
    <3>1. x \in accepted /\ account
      BY <2>1, <2>3 DEF NotesStep
    <3>2. CASE x \notin rows
      BY <2>1, <3>1, <3>2 DEF IsSafe, NotesStep
    <3>3. CASE x \in rows
      <4>1. Leaves(x)
        BY <2>1, <2>3, <3>3 DEF RowsStep
      <4>2. deliver[x] \in {"filed", "kept"} => Kept(x)
        BY <2>1 DEF IsSafe, Entered, IsEntered, Kept
      <4>3. (\E w \in Windows : call[w].at = "saved" /\ call[w].mail = x) => Kept(x)
        BY DEF Safe, CallKept
      <4> QED
        BY <2>1, <2>3, <4>1, <4>2, <4>3 DEF Leaves
    <3> QED
      BY <3>2, <3>3
  <2> QED
    BY <2>2, <2>3 DEF IsSafe
<1>2. ASSUME NEW w \in Windows, call'[w].at = "saved" PROVE Kept(call[w].mail)' /\ call'[w].mail = call[w].mail
  <2>1. CallStep(w) /\ CallKept(w) /\ call[w].mail \in Mails
    BY CallsMove DEF Safe, TypeOK, CallOK, Call
  <2>2. CASE call'[w] = call[w]
    BY <1>2, <2>1, <2>2, KeptStays DEF CallKept
  <2>3. CASE call'[w].mail = call[w].mail /\ "kept" \in drafts'[call[w].mail]
    BY <2>3 DEF Kept
  <2> QED
    BY <1>2, <2>1, <2>2, <2>3 DEF CallStep
<1>3. ASSUME NEW w \in Windows PROVE CallKept(w)'
  BY <1>2 DEF CallKept, Kept
<1> QED
  BY <1>1, <1>3 DEF Safe

THEOREM AlwaysSafe == Spec => []Safe
<1>1. Init => Safe
  BY DEF Init, Safe, IsSafe, CallKept, NoCall
<1> QED
  BY <1>1, SafeStep, TypesHold, AlwaysEntered, PTL DEF Spec

\* "Nothing gets lost", whatever fails, stops or is done meanwhile, but for copies the background
\* removal of the composer's draft took with it.
THEOREM NothingElseIsLost == Spec => []NothingElseLost
<1>1. TypeOK /\ Safe => NothingElseLost
  BY DEF Safe, IsSafe, Kept, NothingElseLost, Somewhere, TypeOK, NotesOK
<1> QED
  BY <1>1, AlwaysSafe, TypesHold, PTL

-----------------------------------------------------------------------------
(***************************************************************************)
(* Nothing is lost at all where the background removal has nothing to do:   *)
(* no scheduled mail was saved in Drafts by the composer.                    *)
(***************************************************************************)

NoSweeps == swept = {} /\ sweep = [m \in Mails |-> "idle"]

LEMMA NoSweepsStep == ASSUME Keyed \intersect Laters = {}, NoSweeps, [Next]_vars PROVE NoSweeps'
<1>1. CASE UNCHANGED <<swept, sweep>>
  BY <1>1 DEF NoSweeps
<1>2. ASSUME NEW m \in Mails, SendLater(m) PROVE NoSweeps'
  BY <1>2 DEF SendLater, NoSweeps
<1>3. ASSUME NEW m \in Mails, SweepStep(m) PROVE FALSE
  BY <1>3 DEF SweepStep, SweepFinds, SweepDeletes, SweepFails, NoSweeps
<1>4. CASE Quit
  BY <1>4 DEF Quit, NoSweeps
<1>5. ASSUME NEW m \in Mails, DeliverStep(m) PROVE NoSweeps'
  BY <1>1, <1>5
     DEF DeliverStep, DeliverUnreadable, DeliverHandsOver, ServerTakes, DeliverRetries, DeliverGivesUp,
         DeliverBreaksOff, DeliverSent, DeliverRemovesDraft, DeliverFinishes, DeliverFailsLate,
         DeliverKeepsDraft, DeliverClearsKept, DeliverHolds, server, notes
<1>6. CASE \/ TaskStep \/ Tick \/ ComputerSleeps \/ Start \/ RemoveAccount \/ UNCHANGED vars
           \/ \E w \in Windows : StopStep(w) \/ \E m \in Mails : StopScheduled(w, m)
           \/ \E m \in Mails : QueueSend(m) \/ CancelSend(m) \/ EditScheduled(m) \/ \E t : Release(m, t)
  BY <1>1, <1>6
     DEF TaskStep, TaskReleases, TaskTakesDue, TaskNaps, TaskWakes, Tick, ComputerSleeps, Start, RemoveAccount, vars,
         StopStep, StopDraftSaved, StopTakesRow, StopDraftFails, StopScheduled, QueueSend, CancelSend, EditScheduled,
         Release, server, notes
<1> QED
  BY <1>2, <1>3, <1>4, <1>5, <1>6 DEF Next, Person, RescheduleSend, SendScheduledNow

\* "Nothing gets lost", without exception.  Where a scheduled mail has a draft of its own it is false:
\* the removal of that draft, found by its Message-ID, can take the copy a stop just saved.
THEOREM NothingIsLost == ASSUME Keyed \intersect Laters = {} PROVE Spec => []NothingLost
<1>1. Init => NoSweeps
  BY DEF Init, NoSweeps
<1>2. NoSweeps /\ [Next]_vars => NoSweeps'
  BY NoSweepsStep
<1>3. NoSweeps /\ NothingElseLost => NothingLost
  BY DEF NoSweeps, NothingElseLost, NothingLost
<1> QED
  BY <1>1, <1>2, <1>3, NothingElseIsLost, PTL DEF Spec

-----------------------------------------------------------------------------
(***************************************************************************)
(* Nothing goes twice on its own.  An entry the server took a mail of, and   *)
(* the person did not ask for again, waits no more; a stop that gives up     *)
(* puts it back to how it was, which must not be "waiting" unless asked for. *)
(* That reads the row long before, so it takes one window: what a second     *)
(* one asks for meanwhile is overwritten.                                    *)
(***************************************************************************)

Alone == \A v, w \in Windows : v = w

StaysOut(x) == x \in taken \ asked => ~Waiting(x) /\ deliver[x] \notin {"send", "wire"}

\* What a call that stops a mail may rely on while Drafts is written.
StopsIdle(w) ==
    LET m == call[w].mail IN
    call[w].at = "saving" => /\ m \in accepted /\ deliver[m] = "idle"
                             /\ m \in rows => ~row[m].claimed /\ row[m].held = "failed"
                             /\ call[w].old = "no" /\ m \in taken => m \in asked
Consented == (\A x \in Mails : StaysOut(x)) /\ (\A w \in Windows : StopsIdle(w))

LEMMA StaysOutStep ==
  ASSUME Alone, TypeOK, Ownership, Entered, Consented, [Next]_vars, NEW x \in Mails PROVE StaysOut(x)'
<1> SUFFICES ASSUME x \in taken', x \notin asked'
             PROVE  ~(x \in rows' /\ ~row'[x].claimed /\ row'[x].held = "no") /\ deliver'[x] \notin {"send", "wire"}
  BY DEF StaysOut, Waiting
<1>1. NotesStep(x) /\ DeliveryStep(x) /\ RowsStep(x) /\ StaysOut(x) /\ IsEntered(x)
  BY NotesMove, DeliveriesMove, RowsMove DEF Consented, Entered
<1>2. CASE x \notin taken \/ x \in asked
  <2>1. deliver[x] = "wire" /\ deliver'[x] = "took" /\ UNCHANGED table
    BY <1>1, <1>2 DEF NotesStep
  <2>2. x \in rows => row[x].claimed
    BY <2>1 DEF Ownership, DeliveryOwnsRow, RemovedIsEmpty
  <2> QED
    BY <2>1, <2>2 DEF table
<1>3. CASE x \in taken /\ x \notin asked
  <2>1. ~Waiting(x) /\ deliver[x] \notin {"send", "wire"}
    BY <1>1, <1>3 DEF StaysOut
  <2>2. ~StopGivenUp(x) \/ row'[x].held # "no"
    BY <1>3 DEF StopGivenUp, Consented, StopsIdle
  <2>3. ~(x \in rows' /\ ~row'[x].claimed /\ row'[x].held = "no")
    BY <1>1, <1>3, <2>1, <2>2
       DEF RowsStep, RowStep, SameRow, Enters, GoesAgain, IsStopped, IsReleased, IsClaimed, IsHeld, IsRetried, Waiting,
           IsEntered
  <2>4. deliver'[x] \notin {"send", "wire"}
    BY <1>1, <2>1 DEF DeliveryStep
  <2> QED
    BY <2>3, <2>4
<1> QED
  BY <1>2, <1>3

LEMMA StopsIdleStep ==
  ASSUME Alone, TypeOK, Ownership, Entered, Consented, [Next]_vars, NEW w \in Windows PROVE StopsIdle(w)'
<1> DEFINE m == call'[w].mail
<1> SUFFICES ASSUME call'[w].at = "saving"
             PROVE  /\ m \in accepted' /\ deliver'[m] = "idle"
                    /\ m \in rows' => ~row'[m].claimed /\ row'[m].held = "failed"
                    /\ call'[w].old = "no" /\ m \in taken' => m \in asked'
  BY DEF StopsIdle
<1>0. m \in Mails
  <2>1. TypeOK'
    BY TypesStep
  <2> QED
    BY <2>1 DEF TypeOK, CallOK, Call
<1>1. NotesStep(m) /\ DeliveryStep(m) /\ RowsStep(m) /\ CallStep(w) /\ StaysOut(m) /\ StopsIdle(w) /\ IsEntered(m)
  BY <1>0, NotesMove, DeliveriesMove, RowsMove, CallsMove DEF Consented, Entered
<1>2. CASE call'[w] = call[w]
  <2>1. /\ m \in accepted /\ deliver[m] = "idle"
        /\ m \in rows => ~row[m].claimed /\ row[m].held = "failed"
        /\ call'[w].old = "no" /\ m \in taken => m \in asked
    BY <1>1, <1>2 DEF StopsIdle
  <2>2. deliver'[m] = "idle"
    BY <1>1, <2>1 DEF DeliveryStep, Waiting
  <2>3. m \in accepted' /\ (call'[w].old = "no" /\ m \in taken' => m \in asked')
    BY <1>1, <2>1 DEF NotesStep
  <2>4. ~GoesAgain(m) /\ ~StopGivenUp(m)
    BY <1>2 DEF GoesAgain, StopGivenUp, FreeWindow, Alone
  <2>5. m \in rows' => ~row'[m].claimed /\ row'[m].held = "failed"
    BY <1>1, <2>1, <2>4
       DEF RowsStep, RowStep, SameRow, Enters, IsStopped, IsReleased, IsClaimed, IsHeld, IsRetried, Waiting
  <2> QED
    BY <2>2, <2>3, <2>5
<1>3. CASE Listed(m) /\ call'[w].old = row[m].held /\ IsStopped(m) /\ UNCHANGED <<rows, deliver, notes>>
  <2>1. m \in accepted' /\ deliver'[m] = "idle"
    BY <1>0, <1>3 DEF Listed, Ownership, EntersOnce, DeliveryOwnsRow, RemovedIsEmpty, notes
  <2>2. ~row'[m].claimed /\ row'[m].held = "failed"
    BY <1>3 DEF IsStopped
  <2>3. call'[w].old = "no" /\ m \in taken' => m \in asked'
    BY <1>1, <1>3 DEF Listed, StaysOut, Waiting, notes
  <2> QED
    BY <2>1, <2>2, <2>3
<1> QED
  BY <1>1, <1>2, <1>3 DEF CallStep

THEOREM AlwaysConsented == ASSUME Alone PROVE Spec => []Consented
<1>1. Init => Consented
  BY DEF Init, Consented, StaysOut, StopsIdle, NoCall
<1>2. TypeOK /\ Ownership /\ Entered /\ Consented /\ [Next]_vars => Consented'
  <2> SUFFICES ASSUME TypeOK, Ownership, Entered, Consented, [Next]_vars PROVE Consented'
    OBVIOUS
  <2> QED
    BY StaysOutStep, StopsIdleStep DEF Consented
<1> QED
  BY <1>1, <1>2, TypesHold, OwnershipHolds, AlwaysEntered, PTL DEF Spec

\* With one window, no entry whose mail went out before waits to go, or is on its way to the server,
\* without the person's having asked since.
THEOREM GoesAgainOnlyIfAsked == ASSUME Alone PROVE Spec => []GoesOnlyIfAsked
<1>1. TypeOK /\ Consented => GoesOnlyIfAsked
  BY DEF Consented, StaysOut, GoesOnlyIfAsked, TypeOK, NotesOK
<1> QED
  BY <1>1, AlwaysConsented, TypesHold, PTL

\* "Nothing goes twice": with one window, the server takes a mail a second time only when asked for.
THEOREM NeverGoesTwiceUnasked == ASSUME Alone PROVE Spec => NeverTwiceUnasked
<1>1. Consented => \A m \in Mails : deliver[m] = "wire" /\ deliver'[m] = "took" /\ m \in taken => m \in asked
  BY DEF Consented, StaysOut
<1> QED
  BY <1>1, AlwaysConsented, PTL DEF NeverTwiceUnasked

-----------------------------------------------------------------------------
(***************************************************************************)
(* The outbox implements OutboxPromise: with one window, each of its steps  *)
(* is a step the promise allows, or none.                                   *)
(***************************************************************************)

StatusOf(x) == IF x \notin accepted THEN "new"
               ELSE IF x \notin rows THEN "gone"
               ELSE IF row[x].claimed THEN "sending"
               ELSE IF row[x].held = "no" THEN "waiting" ELSE "held"

LEMMA StatusIs == Status = [x \in Mails |-> StatusOf(x)] /\ Status' = [x \in Mails |-> StatusOf(x)']
  BY DEF Status, StatusOf

Step == [Promise!Next]_(Promise!vars)

\* Nothing the promise speaks of changes.
LEMMA Stutters ==
  ASSUME UNCHANGED <<taken, asked, account>>, \A x \in Mails : StatusOf(x)' = StatusOf(x) PROVE Step
  BY StatusIs DEF Step, Promise!vars

\* A mail whose columns stay has the status it had.
LEMMA SameStatus ==
  ASSUME NEW x, (x \in accepted') = (x \in accepted), (x \in rows') = (x \in rows),
         row'[x].claimed = row[x].claimed, row'[x].held = row[x].held
  PROVE  StatusOf(x)' = StatusOf(x)
  BY DEF StatusOf

LEMMA TableStutters == ASSUME UNCHANGED <<taken, asked, account, accepted, rows, row>> PROVE Step
  BY Stutters, SameStatus

\* What one mail's going somewhere else comes to.
LEMMA OneChanges ==
  ASSUME NEW m \in Mails, NEW s, StatusOf(m)' = s, \A x \in Mails \ {m} : StatusOf(x)' = StatusOf(x)
  PROVE  Status' = [Status EXCEPT ![m] = s]
  BY StatusIs

LEMMA OneLeaves ==
  ASSUME NEW m \in Mails, StatusOf(m) \in {"waiting", "sending", "held"}, StatusOf(m)' = "gone",
         \A x \in Mails \ {m} : StatusOf(x)' = StatusOf(x), UNCHANGED <<taken, asked, account>>
  PROVE  Step
<1>1. Promise!Leave(m)
  BY StatusIs, OneChanges DEF Promise!Leave
<1> QED
  BY <1>1 DEF Step, Promise!Next

LEMMA SomeAreHeld ==
  ASSUME NEW S \in SUBSET Mails, \A x \in S : StatusOf(x) \in {"waiting", "sending", "held"} /\ StatusOf(x)' = "held",
         \A x \in Mails \ S : StatusOf(x)' = StatusOf(x), UNCHANGED <<taken, asked, account>>
  PROVE  Step
<1>1. Promise!HoldBack(S)
  BY StatusIs DEF Promise!HoldBack
<1> QED
  BY <1>1 DEF Step, Promise!Next

LEMMA OneResumes ==
  ASSUME NEW m \in Mails, StatusOf(m) \in {"sending", "held"}, StatusOf(m)' = "waiting", m \in taken => m \in asked,
         \A x \in Mails \ {m} : StatusOf(x)' = StatusOf(x), UNCHANGED <<taken, asked, account>>
  PROVE  Step
<1>1. Promise!Resume(m)
  BY StatusIs, OneChanges DEF Promise!Resume, Promise!Free
<1> QED
  BY <1>1 DEF Step, Promise!Next

\* A row of the table is of a mail the outbox took on.
LEMMA RowStatus ==
  ASSUME Ownership, NEW m \in rows
  PROVE  /\ StatusOf(m) \in {"waiting", "sending", "held"}
         /\ row[m].claimed => StatusOf(m) = "sending"
         /\ ~row[m].claimed => StatusOf(m) = IF row[m].held = "no" THEN "waiting" ELSE "held"
  BY DEF Ownership, EntersOnce, StatusOf

LEMMA RemovesOne ==
  ASSUME TypeOK, Ownership, NEW m \in rows, Remove(m), UNCHANGED <<taken, asked, account, accepted>> PROVE Step
<1>1. m \in Mails /\ row \in [Mails -> Row]
  BY DEF TypeOK, TableOK
<1>2. StatusOf(m)' = "gone"
  BY DEF Remove, StatusOf, Ownership, EntersOnce
<1>3. \A x \in Mails \ {m} : StatusOf(x)' = StatusOf(x)
  BY <1>1, SameStatus DEF Remove
<1> QED
  BY <1>1, <1>2, <1>3, RowStatus, OneLeaves

LEMMA HoldsOne ==
  ASSUME TypeOK, Ownership, NEW m \in Mails, NEW why \in {"failed", "unsure"}, Hold(m, why),
         UNCHANGED <<taken, asked, account, accepted>>
  PROVE  Step
<1>0. row \in [Mails -> Row] /\ rows' = rows
  BY DEF TypeOK, TableOK, Hold
<1>1. CASE row' = row
  BY <1>0, <1>1, TableStutters
<1>2. CASE m \in rows /\ row' = [row EXCEPT ![m] = [@ EXCEPT !.claimed = FALSE, !.held = why, !.later = TRUE]]
  <2>1. row'[m].claimed = FALSE /\ row'[m].held = why
    BY <1>0, <1>2 DEF Row
  <2>2. StatusOf(m)' = "held"
    BY <1>0, <1>2, <2>1 DEF StatusOf, Ownership, EntersOnce
  <2>3. \A x \in Mails \ {m} : StatusOf(x)' = StatusOf(x)
    BY <1>0, <1>2, SameStatus
  <2> QED
    BY <1>2, <2>2, <2>3, RowStatus, SomeAreHeld
<1> QED
  BY <1>1, <1>2 DEF Hold

LEMMA PersonPromises == ASSUME TypeOK, Ownership, Person PROVE Step
<1>0. row \in [Mails -> Row] /\ rows \subseteq Mails /\ rows \subseteq accepted
  BY DEF TypeOK, TableOK, Ownership, EntersOnce
<1>1. ASSUME NEW m \in Mails, QueueSend(m) \/ SendLater(m) PROVE Step
  <2>0. PICK l, t : Insert(m, l, t)
    BY <1>1 DEF QueueSend, SendLater
  <2>1. account /\ m \notin accepted /\ accepted' = accepted \union {m} /\ asked' = asked \union {m}
        /\ UNCHANGED <<taken, account>>
    BY <1>1 DEF QueueSend, SendLater
  <2>2. m \in rows' /\ row'[m] = [Blank EXCEPT !.later = l, !.wait = t]
    BY <1>0, <2>0 DEF Insert
  <2>3. row'[m].claimed = FALSE /\ row'[m].held = "no"
    BY <2>2 DEF Blank
  <2>4. StatusOf(m) = "new" /\ StatusOf(m)' = "waiting"
    BY <2>1, <2>2, <2>3 DEF StatusOf
  <2>5. \A x \in Mails \ {m} : StatusOf(x)' = StatusOf(x)
    BY <1>0, <2>0, <2>1, SameStatus DEF Insert
  <2>6. Promise!Accept(m)
    BY <2>1, <2>4, <2>5, StatusIs, OneChanges DEF Promise!Accept
  <2> QED
    BY <2>6 DEF Step, Promise!Next
<1>2. ASSUME NEW m \in Mails, CancelSend(m) \/ EditScheduled(m) PROVE Step
  BY <1>2, RemovesOne DEF CancelSend, EditScheduled, Pickable, Listed
<1>3. ASSUME NEW m \in Mails, NEW t, Release(m, t) PROVE Step
  <2>1. m \in rows /\ ~row[m].claimed /\ rows' = rows /\ accepted' = accepted
        /\ row' = [row EXCEPT ![m] = [@ EXCEPT !.wait = t, !.attempts = 0, !.held = "no"]]
    BY <1>3 DEF Release, Pickable, Listed
  <2>2. ~row'[m].claimed /\ row'[m].held = "no"
    BY <1>0, <2>1 DEF Row
  <2>3. StatusOf(m) \in {"waiting", "held"} /\ StatusOf(m)' = "waiting"
    BY <1>0, <2>1, <2>2 DEF StatusOf
  <2>4. \A x \in Mails \ {m} : StatusOf(x)' = StatusOf(x)
    BY <1>0, <2>1, SameStatus
  <2>5. Promise!Ask(m)
    BY <1>3, <2>3, <2>4, StatusIs, OneChanges DEF Release, Promise!Ask
  <2> QED
    BY <2>5 DEF Step, Promise!Next
<1>4. ASSUME NEW w \in Windows, NEW m \in Mails, StopScheduled(w, m) PROVE Step
  <2>1. m \in rows /\ ~row[m].claimed /\ rows' = rows /\ UNCHANGED <<accepted, taken, asked, account>>
        /\ row' = [row EXCEPT ![m] = [@ EXCEPT !.held = "failed"]]
    BY <1>4 DEF StopScheduled, Pickable, Listed, notes
  <2>2. ~row'[m].claimed /\ row'[m].held = "failed"
    BY <1>0, <2>1 DEF Row
  <2>3. StatusOf(m)' = "held"
    BY <1>0, <2>1, <2>2 DEF StatusOf
  <2>4. \A x \in Mails \ {m} : StatusOf(x)' = StatusOf(x)
    BY <1>0, <2>1, SameStatus
  <2>5. {m} \in SUBSET Mails
    OBVIOUS
  <2> QED
    BY <2>1, <2>3, <2>4, <2>5, RowStatus, SomeAreHeld
<1>5. CASE RemoveAccount
  <2>1. \A x \in Mails : StatusOf(x)' = IF StatusOf(x) = "new" THEN "new" ELSE "gone"
    BY <1>5 DEF RemoveAccount, notes, StatusOf
  <2>2. Promise!Close
    BY <1>5, <2>1, StatusIs DEF RemoveAccount, notes, Promise!Close
  <2> QED
    BY <2>2 DEF Step, Promise!Next
<1> QED
  BY <1>1, <1>2, <1>3, <1>4, <1>5 DEF Person, RescheduleSend, SendScheduledNow

LEMMA StopPromises == ASSUME TypeOK, Ownership, Consented, NEW w \in Windows, StopStep(w) PROVE Step
<1>0. row \in [Mails -> Row] /\ rows \subseteq Mails /\ rows \subseteq accepted /\ call[w].mail \in Mails
  BY DEF TypeOK, TableOK, CallOK, Call, Ownership, EntersOnce
<1>1. CASE StopDraftSaved(w)
  BY <1>1, TableStutters DEF StopDraftSaved, table, notes
<1>2. CASE StopTakesRow(w)
  BY <1>2, TableStutters, RemovesOne DEF StopTakesRow, table, notes, Listed
<1>3. CASE StopDraftFails(w)
  <2>0. PICK m \in Mails : m = call[w].mail
    BY <1>0
  <2>1. rows' = rows /\ UNCHANGED <<taken, asked, account, accepted>> /\ call[w].at = "saving"
    BY <1>3 DEF StopDraftFails, notes
  <2>2. CASE row' = row
    BY <2>1, <2>2, TableStutters
  <2>3. CASE Listed(m) /\ row' = [row EXCEPT ![m] = [@ EXCEPT !.held = call[w].old]]
    <3>1. m \in rows /\ ~row[m].claimed /\ row[m].held = "failed" /\ ~row'[m].claimed /\ row'[m].held = call[w].old
      BY <1>0, <2>0, <2>1, <2>3 DEF Consented, StopsIdle, Listed, Row
    <3>2. \A x \in Mails \ {m} : StatusOf(x)' = StatusOf(x)
      BY <1>0, <2>1, <2>3, SameStatus
    <3>3. StatusOf(m) = "held"
      BY <1>0, <3>1 DEF StatusOf
    <3>4. CASE call[w].old = "no"
      <4>1. StatusOf(m)' = "waiting"
        BY <1>0, <2>1, <3>1, <3>4 DEF StatusOf
      <4>2. m \in taken => m \in asked
        BY <2>0, <2>1, <3>4 DEF Consented, StopsIdle
      <4> QED
        BY <1>0, <2>1, <3>2, <3>3, <4>1, <4>2, OneResumes
    <3>5. CASE call[w].old # "no"
      <4>1. StatusOf(m)' = "held"
        BY <1>0, <2>1, <3>1, <3>5 DEF StatusOf
      <4> QED
        BY <1>0, <2>1, <3>2, <3>3, <4>1, Stutters
    <3> QED
      BY <3>4, <3>5
  <2> QED
    BY <1>3, <2>0, <2>2, <2>3 DEF StopDraftFails
<1> QED
  BY <1>1, <1>2, <1>3 DEF StopStep

LEMMA TaskPromises == ASSUME TypeOK, Ownership, Consented, TaskStep PROVE Step
<1>0. row \in [Mails -> Row] /\ rows \subseteq Mails /\ rows \subseteq accepted
  BY DEF TypeOK, TableOK, Ownership, EntersOnce
<1>1. CASE TaskReleases
  <2> DEFINE left == {m \in rows : row[m].claimed}
  <2>1. rows' = rows /\ UNCHANGED <<taken, asked, account, accepted>>
    BY <1>1 DEF TaskReleases
  <2>2. CASE row' = row
    BY <2>1, <2>2, TableStutters
  <2>3. CASE row' = [m \in Mails |-> IF m \in left THEN [row[m] EXCEPT !.claimed = FALSE, !.held = "unsure", !.later = TRUE]
                                     ELSE row[m]]
    <3>1. \A x \in left : ~row'[x].claimed /\ row'[x].held = "unsure"
      BY <1>0, <2>3 DEF Row
    <3>2. \A x \in left : StatusOf(x) \in {"waiting", "sending", "held"} /\ StatusOf(x)' = "held"
      BY <1>0, <2>1, <3>1, RowStatus DEF StatusOf
    <3>3. \A x \in Mails \ left : StatusOf(x)' = StatusOf(x)
      BY <1>0, <2>1, <2>3, SameStatus
    <3> QED
      BY <1>0, <2>1, <3>2, <3>3, SomeAreHeld
  <2> QED
    BY <1>1, <2>2, <2>3 DEF TaskReleases
<1>2. CASE TaskTakesDue
  <2>1. rows' = rows /\ UNCHANGED <<taken, asked, account, accepted>>
    BY <1>2 DEF TaskTakesDue, notes
  <2>2. CASE row' = row
    BY <2>1, <2>2, TableStutters
  <2>3. CASE row' = [m \in Mails |-> IF m \in Due THEN [row[m] EXCEPT !.claimed = TRUE] ELSE row[m]]
    <3>1. \A x \in Due : x \in Mails /\ x \in rows /\ row'[x].claimed /\ ~row[x].claimed /\ row[x].held = "no"
      BY <1>0, <2>3 DEF Due, Waiting, Row
    <3>2. \A x \in Due : StatusOf(x) = "waiting" /\ StatusOf(x)' = "sending"
      BY <1>0, <2>1, <3>1 DEF StatusOf
    <3>3. \A x \in Mails \ Due : StatusOf(x)' = StatusOf(x)
      BY <1>0, <2>1, <2>3, SameStatus
    <3>4. \A x \in Due : x \in taken => x \in asked
      BY DEF Due, Consented, StaysOut
    <3>5. Promise!Claim(Due)
      BY <2>1, <3>1, <3>2, <3>3, <3>4, StatusIs DEF Promise!Claim, Promise!Free
    <3>6. Due \in SUBSET Mails
      BY DEF Due
    <3> QED
      BY <3>5, <3>6 DEF Step, Promise!Next
  <2> QED
    BY <1>2, <2>2, <2>3 DEF TaskTakesDue
<1>3. CASE TaskNaps \/ TaskWakes
  BY <1>3, TableStutters DEF TaskNaps, TaskWakes, table, notes
<1> QED
  BY <1>1, <1>2, <1>3 DEF TaskStep

LEMMA DeliverPromises == ASSUME TypeOK, Ownership, Consented, NEW m \in Mails, DeliverStep(m) PROVE Step
<1>0. row \in [Mails -> Row] /\ rows \subseteq Mails /\ rows \subseteq accepted
  BY DEF TypeOK, TableOK, Ownership, EntersOnce
<1>1. CASE UNCHANGED <<taken, asked, account, accepted, table>>
  BY <1>1, TableStutters DEF table
<1>2. CASE DeliverUnreadable(m) \/ DeliverHolds(m) \/ DeliverBreaksOff(m)
  BY <1>2, HoldsOne DEF DeliverUnreadable, DeliverHolds, DeliverBreaksOff, notes
<1>3. CASE ServerTakes(m)
  <2>1. StatusOf(m) = "sending" \/ ~account
    BY <1>0, <1>3 DEF ServerTakes, Ownership, DeliveryOwnsRow, StatusOf
  <2>2. m \in taken => m \in asked
    BY <1>3 DEF ServerTakes, Consented, StaysOut
  <2>3. \A x \in Mails : StatusOf(x)' = StatusOf(x)
    BY <1>3, SameStatus DEF ServerTakes, table
  <2>4. Promise!Take(m)
    BY <1>3, <2>1, <2>2, <2>3, StatusIs DEF ServerTakes, Promise!Take, Promise!Free
  <2> QED
    BY <2>4 DEF Step, Promise!Next
<1>4. CASE DeliverRetries(m)
  <2>1. m \in rows /\ row[m].claimed /\ rows' = rows /\ UNCHANGED <<taken, asked, account, accepted>>
    BY <1>4 DEF DeliverRetries, CanRetry, notes
  <2>2. ~row'[m].claimed /\ row'[m].held = row[m].held /\ \A x \in Mails \ {m} : row'[x] = row[x]
    BY <1>0, <1>4 DEF DeliverRetries, Row
  <2>3. \A x \in Mails \ {m} : StatusOf(x)' = StatusOf(x)
    BY <2>1, <2>2, SameStatus
  <2>4. m \in taken => m \in asked
    BY <1>4 DEF DeliverRetries, Consented, StaysOut
  <2>5. StatusOf(m) = "sending"
    BY <1>0, <2>1 DEF StatusOf
  <2>6. CASE row[m].held = "no"
    <3>1. StatusOf(m)' = "waiting"
      BY <1>0, <2>1, <2>2, <2>6 DEF StatusOf
    <3> QED
      BY <2>1, <2>3, <2>4, <2>5, <3>1, OneResumes
  <2>7. CASE row[m].held # "no"
    <3>1. StatusOf(m)' = "held"
      BY <1>0, <2>1, <2>2, <2>7 DEF StatusOf
    <3> QED
      BY <2>1, <2>3, <2>5, <3>1, SomeAreHeld
  <2> QED
    BY <2>6, <2>7
<1>5. CASE DeliverFinishes(m) \/ DeliverClearsKept(m)
  <2>1. Finish(m) /\ UNCHANGED <<taken, asked, account, accepted>>
    BY <1>5 DEF DeliverFinishes, DeliverClearsKept, notes
  <2>2. CASE m \in rows /\ Remove(m)
    BY <2>1, <2>2, RemovesOne
  <2>3. CASE m \notin rows /\ Remove(m)
    <3>1. rows' = rows /\ row' = row
      BY <2>3 DEF Remove, TypeOK, TableOK
    <3> QED
      BY <2>1, <3>1, TableStutters
  <2> QED
    BY <2>1, <2>2, <2>3, TableStutters DEF Finish, table
<1> QED
  BY <1>1, <1>2, <1>3, <1>4, <1>5
     DEF DeliverStep, DeliverHandsOver, DeliverGivesUp, DeliverSent, DeliverRemovesDraft,
         DeliverFailsLate, DeliverKeepsDraft, notes

LEMMA WorldPromises ==
  ASSUME TypeOK, Tick \/ ComputerSleeps \/ Quit \/ Start \/ (\E m \in Mails : SweepStep(m)) \/ UNCHANGED vars
  PROVE  Step
<1>1. CASE Tick \/ ComputerSleeps
  <2>1. /\ rows' = rows /\ UNCHANGED <<taken, asked, account, accepted>>
        /\ \A x \in Mails : row'[x].claimed = row[x].claimed /\ row'[x].held = row[x].held
    BY <1>1 DEF Tick, ComputerSleeps, WallClock, TypeOK, TableOK, Row, notes
  <2> QED
    BY <2>1, Stutters, SameStatus
<1> QED
  BY <1>1, TableStutters DEF Quit, Start, SweepStep, SweepFinds, SweepDeletes, SweepFails, vars, table, notes

\* With one window the outbox does only what OutboxPromise allows: a mail is accepted, waits, is on
\* its way, is held or leaves, and one the server has taken is on its way again only with the
\* person's consent, under every interleaving of calls, task and deliveries, crashes and failures.
THEOREM PromiseIsKept == ASSUME Alone PROVE Spec => KeepsPromise
<1>1. Init => Promise!Init
  BY StatusIs DEF Init, Promise!Init, StatusOf
<1>2. TypeOK /\ Ownership /\ Consented /\ [Next]_vars => [Promise!Next]_(Promise!vars)
  BY PersonPromises, StopPromises, TaskPromises, DeliverPromises, WorldPromises DEF Next, Step
<1> QED
  BY <1>1, <1>2, TypesHold, OwnershipHolds, AlwaysConsented, PTL DEF Spec, KeepsPromise, Promise!Spec

=============================================================================
