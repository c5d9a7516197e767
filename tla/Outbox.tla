------------------------------- MODULE Outbox -------------------------------
(***************************************************************************)
(* The outbox of a mailbox that sends from this device: the "undo send"    *)
(* window and "send later" (crates/uwumail-core/src/engine/                 *)
(* send_later_ops.rs, store/send_later.rs, send_later.rs, smtp.rs and the   *)
(* queue_send / cancel_send / send / save_draft / delete_draft operations   *)
(* of engine.rs).                                                           *)
(*                                                                         *)
(* One row per mail waits in the outbox table.  The outbox task claims what *)
(* is due and starts one delivery per claimed row; a delivery sends, puts   *)
(* the mail back for a retry, keeps it as a draft or holds it for the       *)
(* person.  Meanwhile the person reschedules, sends now, stops, edits or    *)
(* takes back, the program may stop at any moment, and the server may take  *)
(* a mail without its answer ever arriving.                                 *)
(*                                                                         *)
(* Time is relative: row[m].wait is the time left until send_at and Tick    *)
(* lets it pass, so no clock has to be bounded.                             *)
(***************************************************************************)
EXTENDS Integers, Sequences, FiniteSets

CONSTANTS
    Mails,         \* outbox entries, each a fresh UUID
    Laters,        \* those handed in with send_later; the others with queue_send
    Keyed,         \* those the composer had saved in Drafts (draft_key is set)
    Unreadable,    \* those whose JSON this version of the program can't read
    Windows,       \* places that show the scheduled list; each runs one call at a time
    RetryWaits,    \* RETRY_MINUTES
    MinAhead,      \* MIN_AHEAD_MS
    MaxDelay,      \* LOCAL_MAX_DELAY_SECS
    UndoDelay,     \* MAX_SEND_DELAY
    MaxNap,        \* MAX_NAP
    MaxScheduled,  \* MAX_LOCAL_SCHEDULED
    DiskErrors     \* whether a statement on the local database may fail

Waits == 0..MaxDelay

ASSUME KindsAssumption ==
    /\ Mails # {}
    /\ Laters \subseteq Mails /\ Keyed \subseteq Mails /\ Unreadable \subseteq Mails

ASSUME TimesAssumption ==
    /\ MaxDelay \in Nat /\ MaxNap \in Nat /\ MaxScheduled \in Nat
    /\ MinAhead \in Waits /\ UndoDelay \in Waits
    /\ RetryWaits \in Seq(Waits)

ASSUME DiskAssumption == DiskErrors \in BOOLEAN

HeldStates == {"no", "failed", "unsure"}
Copies == {"composed", "kept"}
DeliverSteps == {"idle", "send", "wire", "took", "sent", "filed", "keep", "kept"}
TaskSteps == {"off", "release", "take", "next", "nap"}

Row == [later : BOOLEAN, wait : Waits, claimed : BOOLEAN, held : HeldStates,
        attempts : 0..Len(RetryWaits)]
Blank == [later |-> FALSE, wait |-> 0, claimed |-> FALSE, held |-> "no", attempts |-> 0]
Call == [at : {"idle", "saving", "saved"}, mail : Mails, old : HeldStates]
NoCall == [at |-> "idle", mail |-> CHOOSE m \in Mails : TRUE, old |-> "no"]

VARIABLES
    rows,       \* the mails with a row in the outbox table
    row,        \* their columns; Blank for a mail without a row
    account,    \* whether the mailbox is still set up
    up,         \* whether UwUMail runs
    taskAt,     \* where the outbox task is
    napLeft,    \* what is left of its nap
    wakeup,     \* the permit of Notify::notify_one
    deliver,    \* where the delivery of a claimed mail is
    call,       \* the stop_scheduled call of each window
    drafts,     \* copies on the server: the composer's own, and one the outbox kept
    sweep,      \* the background task that removes a scheduled mail's draft
    found       \* the copies its search found

(***************************************************************************)
(* What an observer who also sees the mail server would note down.  No      *)
(* action reads these.                                                      *)
(***************************************************************************)
VARIABLES
    accepted,   \* mails the outbox ever took on
    taken,      \* mails the mail server took at least once
    asked,      \* mails the person asked to be sent since the server last took them
    warned,     \* mails the person has been told may have gone out
    back,       \* mails handed back to the composer
    swept,      \* mails whose kept copy the background task removed
    slept       \* whether the computer slept during the current nap

table == <<rows, row>>
task == <<taskAt, napLeft, wakeup>>
server == <<drafts, sweep, found>>
notes == <<accepted, taken, asked, warned, back, swept, slept>>
vars == <<rows, row, account, up, taskAt, napLeft, wakeup, deliver, call, drafts, sweep, found,
          accepted, taken, asked, warned, back, swept, slept>>

-----------------------------------------------------------------------------
\* What the WHERE clauses of the outbox statements select.

\* Mutant: the list shows mails that are being sent.
ListedThoughClaimed(m) == m \in rows /\ row[m].later
Listed(m) == m \in rows /\ row[m].later /\ ~row[m].claimed
Waiting(m) == m \in rows /\ ~row[m].claimed /\ row[m].held = "no"
Due == {m \in Mails : Waiting(m) /\ row[m].wait = 0}
LaterCount == Cardinality({m \in rows : row[m].later})

\* The list leaves out what it can't read, so no window ever names such a mail.
Pickable(m) == up /\ Listed(m) /\ m \notin Unreadable

FreeWindow == \E w \in Windows : call[w].at = "idle"

\* Mutant: the nap lasts until the next one is due, however far that is.
NapWithoutLimit(n) ==
    /\ n = MaxNap \/ \E m \in Mails : Waiting(m) /\ n = row[m].wait
    /\ \A m \in Mails : Waiting(m) => n <= row[m].wait \/ n = MaxNap

\* next_outbox_at and nap: until the next entry is due, at most MaxNap.
IsNap(n) ==
    /\ n = MaxNap \/ \E m \in Mails : Waiting(m) /\ n = row[m].wait
    /\ n <= MaxNap /\ \A m \in Mails : Waiting(m) => n <= row[m].wait

\* Starts the outbox task once; later calls only wake it.
RunOutbox == IF taskAt = "off" THEN taskAt' = "release" /\ UNCHANGED <<napLeft, wakeup>>
                               ELSE wakeup' = TRUE /\ UNCHANGED <<taskAt, napLeft>>

Insert(m, isLater, wait) ==
    /\ rows' = rows \union {m}
    /\ row' = [row EXCEPT ![m] = [Blank EXCEPT !.later = isLater, !.wait = wait]]

Remove(m) == rows' = rows \ {m} /\ row' = [row EXCEPT ![m] = Blank]

\* finish_outbox; a failure is only logged and leaves the row claimed.
Finish(m) == Remove(m) \/ (DiskErrors /\ UNCHANGED table)

\* Mutant: a mail that is held stays claimed.
HoldButStayClaimed(m, why) ==
    /\ UNCHANGED rows
    /\ row' = IF m \in rows THEN [row EXCEPT ![m].held = why, ![m].later = TRUE] ELSE row

\* hold_outbox; a failure is only logged and leaves the row claimed.
Hold(m, why) ==
    /\ UNCHANGED rows
    /\ IF m \in rows
       THEN \/ row' = [row EXCEPT ![m] = [@ EXCEPT !.claimed = FALSE, !.held = why, !.later = TRUE]]
            \/ DiskErrors /\ UNCHANGED row
       ELSE UNCHANGED row

-----------------------------------------------------------------------------
Init ==
    /\ rows = {} /\ row = [m \in Mails |-> Blank]
    /\ account = TRUE /\ up = TRUE
    /\ taskAt = "release" /\ napLeft = 0 /\ wakeup = FALSE
    /\ deliver = [m \in Mails |-> "idle"]
    /\ call = [w \in Windows |-> NoCall]
    /\ drafts = [m \in Mails |-> IF m \in Keyed THEN {"composed"} ELSE {}]
    /\ sweep = [m \in Mails |-> "idle"] /\ found = [m \in Mails |-> {}]
    /\ accepted = {} /\ taken = {} /\ asked = {} /\ warned = {} /\ back = {} /\ swept = {}
    /\ slept = FALSE

-----------------------------------------------------------------------------
(***************************************************************************)
(* The person.                                                             *)
(***************************************************************************)

\* Hands a mail in with an undo window.
QueueSend(m) ==
    /\ up /\ account /\ m \notin accepted /\ m \notin Laters
    /\ \E wait \in 0..UndoDelay : Insert(m, FALSE, wait)
    /\ RunOutbox
    /\ accepted' = accepted \union {m} /\ asked' = asked \union {m}
    /\ UNCHANGED <<account, up, deliver, call, server, taken, warned, back, swept, slept>>

\* Schedules a mail; its own draft is removed in the background.
SendLater(m) ==
    /\ up /\ account /\ m \notin accepted /\ m \in Laters
    /\ LaterCount < MaxScheduled
    /\ \E wait \in MinAhead..MaxDelay : Insert(m, TRUE, wait)
    /\ RunOutbox
    /\ sweep' = [sweep EXCEPT ![m] = IF m \in Keyed THEN "find" ELSE "idle"]
    /\ accepted' = accepted \union {m} /\ asked' = asked \union {m}
    /\ UNCHANGED <<account, up, deliver, call, drafts, found, taken, warned, back, swept, slept>>

\* Mutant: an undo takes a mail that is being sent.
CancelThoughClaimed(m) ==
    /\ up /\ m \notin Laters /\ m \in rows
    /\ Remove(m)
    /\ back' = back \union {m}
    /\ UNCHANGED <<account, up, task, deliver, call, server, accepted, taken, asked, warned, swept, slept>>

\* Takes a mail back during its undo window (or held after it): any row not claimed.
CancelSend(m) ==
    /\ up /\ m \notin Laters /\ m \notin Unreadable
    /\ m \in rows /\ ~row[m].claimed
    /\ Remove(m)
    /\ back' = back \union {m}
    /\ UNCHANGED <<account, up, task, deliver, call, server, accepted, taken, asked, warned, swept, slept>>

\* Mutant: the task isn't told of a released mail.
ReleaseWithoutWaking(m, wait) ==
    /\ FreeWindow /\ Pickable(m)
    /\ row' = [row EXCEPT ![m] = [@ EXCEPT !.wait = wait, !.attempts = 0, !.held = "no"]]
    /\ asked' = asked \union {m}
    /\ UNCHANGED <<rows, account, up, task, deliver, call, server, accepted, taken, warned, back, swept, slept>>

\* reschedule_later_outbox: a new time starts over and lets a held mail go again.
Release(m, wait) ==
    /\ FreeWindow /\ Pickable(m)
    /\ row' = [row EXCEPT ![m] = [@ EXCEPT !.wait = wait, !.attempts = 0, !.held = "no"]]
    /\ RunOutbox
    /\ asked' = asked \union {m}
    /\ UNCHANGED <<rows, account, up, deliver, call, server, accepted, taken, warned, back, swept, slept>>

RescheduleSend(m) == \E wait \in MinAhead..MaxDelay : Release(m, wait)

SendScheduledNow(m) == Release(m, 0)

\* Takes the row out and opens the mail in the composer.
EditScheduled(m) ==
    /\ FreeWindow /\ Pickable(m)
    /\ Remove(m)
    /\ back' = back \union {m}
    /\ UNCHANGED <<account, up, task, deliver, call, server, accepted, taken, asked, warned, swept, slept>>

\* Stopping: held back while Drafts is written, remembering how it was.
StopScheduled(w, m) ==
    /\ call[w].at = "idle" /\ Pickable(m)
    /\ row' = [row EXCEPT ![m] = [@ EXCEPT !.held = "failed"]]
    /\ call' = [call EXCEPT ![w] = [at |-> "saving", mail |-> m, old |-> row[m].held]]
    /\ UNCHANGED <<rows, account, up, task, deliver, server, notes>>

\* save_draft: the new copy goes in first, then the older ones go.
DraftSaved(m) ==
    /\ drafts' = [drafts EXCEPT ![m] = {"kept"}]
    /\ found' = [found EXCEPT ![m] = @ \ {"kept"}]

\* ... and may break off on either side of the first of these two.
DraftNotSaved(m) ==
    /\ \/ UNCHANGED drafts
       \/ account /\ drafts' = [drafts EXCEPT ![m] = @ \union {"kept"}]
    /\ UNCHANGED found

StopDraftSaved(w) ==
    /\ call[w].at = "saving" /\ account
    /\ DraftSaved(call[w].mail)
    /\ call' = [call EXCEPT ![w].at = "saved"]
    /\ UNCHANGED <<table, account, up, task, deliver, sweep, notes>>

\* take_later_outbox: the row leaves, unless it is gone or being sent by now.
StopTakesRow(w) ==
    /\ call[w].at = "saved"
    /\ \/ IF Listed(call[w].mail) THEN Remove(call[w].mail) ELSE UNCHANGED table
       \/ DiskErrors /\ UNCHANGED table
    /\ call' = [call EXCEPT ![w] = NoCall]
    /\ UNCHANGED <<account, up, task, deliver, server, notes>>

\* Mutant: a stop that couldn't save its draft lets the mail go.
StopFailureLetsGo(w) ==
    LET m == call[w].mail IN
    /\ call[w].at = "saving"
    /\ DraftNotSaved(m)
    /\ row' = IF Listed(m) THEN [row EXCEPT ![m].held = "no"] ELSE row
    /\ RunOutbox
    /\ call' = [call EXCEPT ![w] = NoCall]
    /\ UNCHANGED <<rows, account, up, deliver, sweep, notes>>

\* Drafts can't be reached: the row stays as it was before, and the outbox looks again.
StopDraftFails(w) ==
    LET m == call[w].mail IN
    /\ call[w].at = "saving"
    /\ DraftNotSaved(m)
    /\ \/ /\ row' = IF Listed(m) THEN [row EXCEPT ![m] = [@ EXCEPT !.held = call[w].old]] ELSE row
          /\ RunOutbox
       \/ DiskErrors /\ UNCHANGED <<row, task>>
    /\ call' = [call EXCEPT ![w] = NoCall]
    /\ UNCHANGED <<rows, account, up, deliver, sweep, notes>>

\* Removing the mailbox removes its rows; what already runs goes on.
RemoveAccount ==
    /\ up /\ account /\ account' = FALSE
    /\ rows' = {} /\ row' = [m \in Mails |-> Blank]
    /\ UNCHANGED <<up, task, deliver, call, server, notes>>

-----------------------------------------------------------------------------
(***************************************************************************)
(* The outbox task.                                                        *)
(***************************************************************************)

\* Mutant: what was claimed when the program died is sent again.
ReleaseToSendAgain ==
    /\ taskAt = "release" /\ taskAt' = "take"
    /\ row' = [m \in Mails |-> [row[m] EXCEPT !.claimed = FALSE]]
    /\ UNCHANGED <<rows, account, up, napLeft, wakeup, deliver, call, server, notes>>

\* Mutant: what was claimed when the program died stays claimed.
ReleaseForgotten ==
    /\ taskAt = "release" /\ taskAt' = "take"
    /\ UNCHANGED <<table, account, up, napLeft, wakeup, deliver, call, server, notes>>

\* release_claimed_outbox: what was being sent when UwUMail stopped is held.
TaskReleases ==
    LET left == {m \in rows : row[m].claimed} IN
    /\ taskAt = "release" /\ taskAt' = "take"
    /\ \/ /\ row' = [m \in Mails |-> IF m \in left
                        THEN [row[m] EXCEPT !.claimed = FALSE, !.held = "unsure", !.later = TRUE]
                        ELSE row[m]]
          /\ warned' = warned \union left
       \/ DiskErrors /\ UNCHANGED <<row, warned>>
    /\ UNCHANGED <<rows, account, up, napLeft, wakeup, deliver, call, server,
                   accepted, taken, asked, back, swept, slept>>

\* take_due_outbox, and a delivery of its own for each claimed row.
TaskTakesDue ==
    /\ taskAt = "take" /\ taskAt' = "next"
    /\ \/ /\ row' = [m \in Mails |-> IF m \in Due THEN [row[m] EXCEPT !.claimed = TRUE] ELSE row[m]]
          /\ deliver' = [m \in Mails |-> IF m \in Due THEN "send" ELSE deliver[m]]
       \/ DiskErrors /\ UNCHANGED <<row, deliver>>
    /\ UNCHANGED <<rows, account, up, napLeft, wakeup, call, server, notes>>

\* next_outbox_at and nap.
TaskNaps ==
    /\ taskAt = "next" /\ taskAt' = "nap"
    /\ \/ napLeft' \in {n \in 0..MaxNap + MaxDelay : IsNap(n)}
       \/ DiskErrors /\ napLeft' = MaxNap
    /\ slept' = FALSE
    /\ UNCHANGED <<table, account, up, wakeup, deliver, call, server,
                   accepted, taken, asked, warned, back, swept>>

\* Mutant: a nap ends only when somebody wakes the task.
WakesOnlyWhenTold ==
    /\ taskAt = "nap" /\ taskAt' = "take"
    /\ wakeup /\ wakeup' = FALSE
    /\ napLeft' = 0
    /\ UNCHANGED <<table, account, up, deliver, call, server, notes>>

\* The select! over the timer and the wake-up.
TaskWakes ==
    /\ taskAt = "nap" /\ taskAt' = "take"
    /\ \/ wakeup /\ wakeup' = FALSE
       \/ napLeft = 0 /\ UNCHANGED wakeup
    /\ napLeft' = 0
    /\ UNCHANGED <<table, account, up, deliver, call, server, notes>>

-----------------------------------------------------------------------------
(***************************************************************************)
(* One delivery: Engine::deliver and Engine::send.                         *)
(***************************************************************************)

\* The row's JSON can't be read.
DeliverUnreadable(m) ==
    /\ deliver[m] = "send" /\ m \in Unreadable
    /\ Hold(m, "failed")
    /\ deliver' = [deliver EXCEPT ![m] = "idle"]
    /\ UNCHANGED <<account, up, task, call, server, notes>>

\* Everything up to DATA went well: the message goes over the wire.  (A mailbox removed since
\* send read it doesn't stop this; removed before, it is one more way to give up.)
DeliverHandsOver(m) ==
    /\ deliver[m] = "send" /\ m \notin Unreadable
    /\ deliver' = [deliver EXCEPT ![m] = "wire"]
    /\ UNCHANGED <<table, account, up, task, call, server, notes>>

\* The server takes the message; its answer is still on the way.
ServerTakes(m) ==
    /\ deliver[m] = "wire"
    /\ deliver' = [deliver EXCEPT ![m] = "took"]
    /\ taken' = taken \union {m} /\ asked' = asked \ {m}
    /\ UNCHANGED <<table, account, up, task, call, server, accepted, warned, back, swept, slept>>

\* A later mail is put back while its server can't be reached or answers 4xx.
CanRetry(m) == /\ m \in rows /\ row[m].claimed /\ row[m].later
               /\ row[m].attempts < Len(RetryWaits)

DeliverRetries(m) ==
    /\ deliver[m] \in {"send", "wire"} /\ m \notin Unreadable /\ CanRetry(m)
    /\ row' = [row EXCEPT ![m] = [@ EXCEPT !.claimed = FALSE, !.attempts = row[m].attempts + 1,
                                             !.wait = RetryWaits[row[m].attempts + 1]]]
    /\ deliver' = [deliver EXCEPT ![m] = "idle"]
    /\ RunOutbox
    /\ UNCHANGED <<rows, account, up, call, server, notes>>

\* The server certainly didn't take it, and it isn't tried again: an undo-send mail, a
\* refusal, or a scheduled one after its last try.
DeliverGivesUp(m) ==
    /\ deliver[m] \in {"send", "wire"} /\ m \notin Unreadable
    /\ deliver' = [deliver EXCEPT ![m] = "keep"]
    /\ UNCHANGED <<table, account, up, task, call, server, notes>>

\* Mutant: a mail that may have gone out is kept in Drafts.
BreakOffKeepsDraft(m) ==
    /\ deliver[m] \in {"wire", "took"}
    /\ deliver' = [deliver EXCEPT ![m] = "keep"]
    /\ UNCHANGED <<table, account, up, task, call, server, notes>>

\* Mutant: a mail that may have gone out is tried again.
BreakOffTriesAgain(m) ==
    /\ deliver[m] \in {"wire", "took"}
    /\ row' = IF m \in rows THEN [row EXCEPT ![m].claimed = FALSE] ELSE row
    /\ deliver' = [deliver EXCEPT ![m] = "idle"]
    /\ RunOutbox
    /\ UNCHANGED <<rows, account, up, call, server, notes>>

\* Sending broke off when the server may have taken the mail: MaybeSent.
DeliverBreaksOff(m) ==
    /\ deliver[m] \in {"wire", "took"}
    /\ Hold(m, "unsure")
    /\ warned' = IF m \in rows THEN warned \union {m} ELSE warned
    /\ deliver' = [deliver EXCEPT ![m] = "idle"]
    /\ UNCHANGED <<account, up, task, call, server, accepted, taken, asked, back, swept, slept>>

\* The answer arrived; the mail's draft goes, as well as it can.
DeliverSent(m) ==
    /\ deliver[m] = "took"
    /\ deliver' = [deliver EXCEPT ![m] = "sent"]
    /\ UNCHANGED <<table, account, up, task, call, server, notes>>

DeliverRemovesDraft(m) ==
    /\ deliver[m] = "sent"
    /\ \/ m \in Keyed /\ drafts' = [drafts EXCEPT ![m] = {}]
       \/ UNCHANGED drafts
    /\ deliver' = [deliver EXCEPT ![m] = "filed"]
    /\ UNCHANGED <<table, account, up, task, call, sweep, found, notes>>

\* The rest of send is local bookkeeping, then the row leaves.
DeliverFinishes(m) ==
    /\ deliver[m] = "filed"
    /\ Finish(m)
    /\ deliver' = [deliver EXCEPT ![m] = "idle"]
    /\ UNCHANGED <<account, up, task, call, server, notes>>

\* That bookkeeping fails: send reports an error for a mail that went out.
DeliverFailsLate(m) ==
    /\ deliver[m] = "filed" /\ DiskErrors
    /\ deliver' = [deliver EXCEPT ![m] = "keep"]
    /\ UNCHANGED <<table, account, up, task, call, server, notes>>

\* A mail that couldn't go is kept as a draft ...
DeliverKeepsDraft(m) ==
    /\ deliver[m] = "keep" /\ account
    /\ DraftSaved(m)
    /\ deliver' = [deliver EXCEPT ![m] = "kept"]
    /\ UNCHANGED <<table, account, up, task, call, sweep, notes>>

\* ... and only then leaves the outbox,
DeliverClearsKept(m) ==
    /\ deliver[m] = "kept"
    /\ Finish(m)
    /\ deliver' = [deliver EXCEPT ![m] = "idle"]
    /\ UNCHANGED <<account, up, task, call, server, notes>>

\* Mutant: a mail whose draft couldn't be saved is dropped.
DropWithoutDraft(m) ==
    /\ deliver[m] = "keep"
    /\ DraftNotSaved(m)
    /\ Remove(m)
    /\ deliver' = [deliver EXCEPT ![m] = "idle"]
    /\ UNCHANGED <<account, up, task, call, sweep, notes>>

\* ... or stays there, held, when Drafts can't take it.
DeliverHolds(m) ==
    /\ deliver[m] = "keep"
    /\ DraftNotSaved(m)
    /\ Hold(m, "failed")
    /\ deliver' = [deliver EXCEPT ![m] = "idle"]
    /\ UNCHANGED <<account, up, task, call, sweep, notes>>

-----------------------------------------------------------------------------
(***************************************************************************)
(* The background removal of a scheduled mail's own draft: a search by     *)
(* Message-ID, then the deletion of what it found.                         *)
(***************************************************************************)

SweepFinds(m) ==
    /\ sweep[m] = "find" /\ account
    /\ found' = [found EXCEPT ![m] = drafts[m]]
    /\ sweep' = [sweep EXCEPT ![m] = "delete"]
    /\ UNCHANGED <<table, account, up, task, deliver, call, drafts, notes>>

SweepDeletes(m) ==
    /\ sweep[m] = "delete"
    /\ drafts' = [drafts EXCEPT ![m] = @ \ found[m]]
    /\ found' = [found EXCEPT ![m] = {}]
    /\ sweep' = [sweep EXCEPT ![m] = "idle"]
    /\ swept' = IF "kept" \in found[m] THEN swept \union {m} ELSE swept
    /\ UNCHANGED <<table, account, up, task, deliver, call, accepted, taken, asked, warned, back, slept>>

\* The server can't be reached: the draft stays for now.
SweepFails(m) ==
    /\ sweep[m] # "idle"
    /\ sweep' = [sweep EXCEPT ![m] = "idle"] /\ found' = [found EXCEPT ![m] = {}]
    /\ UNCHANGED <<table, account, up, task, deliver, call, drafts, notes>>

-----------------------------------------------------------------------------
(***************************************************************************)
(* Time, sleep, and the program stopping and starting.                     *)
(***************************************************************************)

Sooner(t) == IF t = 0 THEN 0 ELSE t - 1

WallClock == row' = [m \in Mails |-> [row[m] EXCEPT !.wait = Sooner(@)]]

Tick ==
    /\ WallClock
    /\ napLeft' = Sooner(napLeft)
    /\ UNCHANGED <<rows, account, up, taskAt, wakeup, deliver, call, server, notes>>

\* While the computer sleeps the wall clock goes on and the timers don't.
ComputerSleeps ==
    /\ WallClock
    /\ slept' = (taskAt = "nap")
    /\ UNCHANGED <<rows, account, up, task, deliver, call, server,
                   accepted, taken, asked, warned, back, swept>>

\* Quitting, a shutdown or a crash: every task is gone, the table and the server stay.
Quit ==
    /\ up /\ up' = FALSE
    /\ taskAt' = "off" /\ napLeft' = 0 /\ wakeup' = FALSE /\ slept' = FALSE
    /\ deliver' = [m \in Mails |-> "idle"]
    /\ call' = [w \in Windows |-> NoCall]
    /\ sweep' = [m \in Mails |-> "idle"] /\ found' = [m \in Mails |-> {}]
    /\ UNCHANGED <<table, account, drafts, accepted, taken, asked, warned, back, swept>>

Start ==
    /\ ~up /\ up' = TRUE
    /\ RunOutbox
    /\ UNCHANGED <<table, account, deliver, call, server, notes>>

-----------------------------------------------------------------------------
Person ==
    \/ \E m \in Mails : \/ QueueSend(m) \/ SendLater(m) \/ CancelSend(m)
                        \/ RescheduleSend(m) \/ SendScheduledNow(m) \/ EditScheduled(m)
    \/ \E w \in Windows, m \in Mails : StopScheduled(w, m)
    \/ RemoveAccount

StopStep(w) == StopDraftSaved(w) \/ StopTakesRow(w) \/ StopDraftFails(w)

TaskStep == TaskReleases \/ TaskTakesDue \/ TaskNaps \/ TaskWakes

DeliverStep(m) ==
    \/ DeliverUnreadable(m) \/ DeliverHandsOver(m) \/ ServerTakes(m) \/ DeliverRetries(m)
    \/ DeliverGivesUp(m) \/ DeliverBreaksOff(m) \/ DeliverSent(m) \/ DeliverRemovesDraft(m)
    \/ DeliverFinishes(m) \/ DeliverFailsLate(m) \/ DeliverKeepsDraft(m) \/ DeliverClearsKept(m)
    \/ DeliverHolds(m)

SweepStep(m) == SweepFinds(m) \/ SweepDeletes(m) \/ SweepFails(m)

Next ==
    \/ Person
    \/ \E w \in Windows : StopStep(w)
    \/ TaskStep
    \/ \E m \in Mails : DeliverStep(m) \/ SweepStep(m)
    \/ Tick \/ ComputerSleeps \/ Quit \/ Start

Spec == Init /\ [][Next]_vars

(***************************************************************************)
(* Every task is run to its next await by the runtime, and every await ends *)
(* (SMTP, IMAP and JMAP calls have timeouts); the clock does not stop.      *)
(* Nothing is assumed of the person, of quitting, or of the computer        *)
(* sleeping.                                                                *)
(***************************************************************************)
Fairness ==
    /\ WF_vars(TaskStep) /\ WF_vars(Tick)
    /\ \A m \in Mails : WF_vars(DeliverStep(m)) /\ WF_vars(SweepStep(m))
    /\ \A w \in Windows : WF_vars(StopStep(w))

FairSpec == Spec /\ Fairness

-----------------------------------------------------------------------------
(***************************************************************************)
(* Properties.                                                             *)
(***************************************************************************)

TableOK ==
    /\ rows \in SUBSET Mails /\ row \in [Mails -> Row]
    /\ \A m \in Mails : m \notin rows => row[m] = Blank
TaskOK == taskAt \in TaskSteps /\ napLeft \in 0..MaxNap /\ wakeup \in BOOLEAN /\ slept \in BOOLEAN
DeliverOK == deliver \in [Mails -> DeliverSteps]
CallOK == call \in [Windows -> Call] /\ account \in BOOLEAN /\ up \in BOOLEAN
ServerOK ==
    /\ drafts \in [Mails -> SUBSET Copies] /\ found \in [Mails -> SUBSET Copies]
    /\ sweep \in [Mails -> {"idle", "find", "delete"}]
NotesOK ==
    /\ accepted \in SUBSET Mails /\ taken \in SUBSET Mails /\ asked \in SUBSET Mails
    /\ warned \in SUBSET Mails /\ back \in SUBSET Mails /\ swept \in SUBSET Mails

\* Types; and a mail without a row has blank columns, and no nap is longer than MaxNap.
TypeOK == TableOK /\ TaskOK /\ DeliverOK /\ CallOK /\ ServerOK /\ NotesOK

\* Whoever delivers a mail owns its row: while a delivery runs, the row is there and claimed
\* (unless the mailbox was removed), so no person's statement and no second claim touches it
\* (take_due_outbox, hold_outbox and finish_outbox, which check nothing but the id).
DeliveryOwnsRow ==
    \A m \in Mails : deliver[m] # "idle" => ~account \/ (m \in rows /\ row[m].claimed)

\* No row stays claimed with nobody delivering it, which no list shows and no task picks up:
\* what a stopped program left behind is released before anything is claimed.
NoOrphanClaim ==
    \A m \in rows : row[m].claimed /\ taskAt \notin {"off", "release"} => deliver[m] # "idle"

\* "Nothing gets lost": a mail the outbox took on is in the outbox, in Drafts, with the mail
\* server or back in the composer, whatever fails or stops in between.
Somewhere(m) == m \in rows \/ drafts[m] # {} \/ m \in taken \/ m \in back

NothingLost == account => \A m \in accepted : Somewhere(m)

\* The same, but for mails whose kept copy in Drafts was removed again by the background task
\* that send_later had started for the composer's copy of the same Message-ID.
NothingElseLost == account => \A m \in accepted \ swept : Somewhere(m)

\* "Nothing goes twice" (deliver, stop_scheduled, release_claimed_outbox): the server takes a
\* mail it has taken before only when the person asked for that since.
NeverTwiceUnasked ==
    [][\A m \in Mails : deliver[m] = "wire" /\ deliver'[m] = "took" /\ m \in taken => m \in asked]_vars

\* Behind it: an entry that would go on its own although its mail went out before has the
\* person's word for it; an interrupted delivery (held unsure) never turns into one.
GoesOnlyIfAsked ==
    \A m \in taken : Waiting(m) \/ deliver[m] \in {"send", "wire"} => m \in asked

\* "Either taken back or sent, never both": a mail handed back to the composer (cancel_send,
\* edit_scheduled) is not sent by the outbox afterwards.
TakenBackNeverGoes ==
    [][\A m \in back : m \in taken' => m \in taken]_vars

\* ... and one handed back although it went out had been shown as "may have gone out".
TakenBackOrSent == \A m \in back \intersect taken : m \in warned

\* "A copy in Drafts would invite sending it twice": of its own accord a delivery keeps in
\* Drafts only what did not go out, as far as the person hasn't been warned before.
KeepsOnlyUnsent ==
    \A m \in Mails : deliver[m] \in {"keep", "kept"} /\ m \in taken => m \in warned

\* While the task naps, and nobody has woken it, it doesn't sleep past the next due entry,
\* unless the computer slept meanwhile (then at most MaxNap longer): every statement that
\* lets an entry go, or go earlier, wakes the task.
SleepsNoLonger ==
    taskAt = "nap" /\ ~wakeup /\ ~slept =>
        \A m \in Mails : Waiting(m) => napLeft <= row[m].wait

\* What is due goes: while UwUMail stays up, a due entry that isn't held is claimed or the
\* person takes, stops or moves it.
DueIsClaimed ==
    <>[]up => \A m \in Mails : (m \in Due) ~> ~(m \in Due)

\* A delivery comes to an end, and its claim with it.
ClaimsEnd ==
    <>[]up => \A m \in Mails : (m \in rows /\ row[m].claimed) ~> ~(m \in rows /\ row[m].claimed)

-----------------------------------------------------------------------------
(***************************************************************************)
(* The outbox keeps the promise of OutboxPromise.                          *)
(***************************************************************************)

Status == [m \in Mails |-> IF m \notin accepted THEN "new"
                            ELSE IF m \notin rows THEN "gone"
                            ELSE IF row[m].claimed THEN "sending"
                            ELSE IF row[m].held = "no" THEN "waiting" ELSE "held"]

Promise == INSTANCE OutboxPromise WITH
               status <- Status, out <- taken, consent <- asked, open <- account

\* Every step of the outbox is a step the promise allows, or none at all.
KeepsPromise == Promise!Spec

=============================================================================
