-------------------------- MODULE ServerScheduled --------------------------
(***************************************************************************)
(* "Send later" of a mailbox whose UwUMail server holds the mail            *)
(* (crates/uwumail-core/src/jmap_scheduled.rs and the server arms of        *)
(* engine/send_later_ops.rs).  The mail goes to Sent at once and a          *)
(* submission waits on the server; a new time is a cancel and a new         *)
(* submission of the same mail, stopping is a cancel and a move to Drafts,  *)
(* editing is a cancel, a download and the removal of the copy.             *)
(*                                                                         *)
(* Each of these is a call made of several requests.  A request is answered,*)
(* or it breaks off: it never arrived, or was carried out with its answer   *)
(* lost, or arrives only after the client gave up on it.  The server sends  *)
(* what is pending at any moment, and calls of several windows or devices   *)
(* run at once.                                                             *)
(***************************************************************************)
EXTENDS FiniteSets

CONSTANTS
    Mails,    \* mails the person schedules
    Subs,     \* submission ids the server may give out
    Calls,    \* windows and devices, each with one call at a time
    Uses,     \* the operations the person uses, of Ops
    Faults,   \* what may go wrong with a request, of FaultKinds
    Crashes   \* whether a client may stop in the middle of a call

FaultKinds == {"lost",      \* the request doesn't arrive
               "silent",    \* it is carried out, the answer doesn't come back
               "late",      \* it is carried out after the client gave up on it
               "refused"}   \* the server answers with an error and does nothing

Places == {"none", "sent", "drafts", "gone"}
Statuses == {"none", "pending", "final", "canceled"}
Ops == {"submit", "move", "stop", "edit"}

ASSUME PoolsAssumption == Mails # {} /\ Subs # {} /\ Uses \subseteq Ops
ASSUME FaultsAssumption == Faults \subseteq FaultKinds /\ Crashes \in BOOLEAN

Steps == {"idle", "submit", "undo", "look", "cancel", "check", "create", "lookup",
          "download", "destroy", "file"}
Words == {"nothing", "scheduled", "stopped", "drafts", "late", "unsure"}

Call == [at : Steps, op : Ops, mail : Mails, sub : Subs, new : Subs]
NoCall == [at |-> "idle", op |-> "submit", mail |-> CHOOSE m \in Mails : TRUE,
           sub |-> CHOOSE s \in Subs : TRUE, new |-> CHOOSE s \in Subs : TRUE]
Request == [kind : {"submit", "undo", "cancel", "create", "file", "destroy"}, mail : Mails, sub : Subs]

VARIABLES
    place,     \* where a mail's copy is on the server
    status,    \* undoStatus of a submission
    of,        \* the mail of a submission
    call,      \* where each call is, and what it is about
    late,      \* requests nobody waits for any more that the server may still carry out
    told,      \* what the person was last told about a mail (no action reads it)
    cut        \* mails with a call that was cut off, or a request carried out late (nor this)

server == <<place, status, of>>
vars == <<place, status, of, call, late, told, cut>>

Waits(s) == status[s] = "pending"
Live(s) == status[s] \in {"pending", "final"}
Busy(m) == \E c \in Calls : call[c].at # "idle" /\ call[c].mail = m

\* The submission ids nobody has or is about to get.
Fresh == {s \in Subs : /\ status[s] = "none"
                       /\ \A c \in Calls : call[c].at # "idle" => call[c].new # s
                       /\ \A r \in late : r.sub # s}

-----------------------------------------------------------------------------
(***************************************************************************)
(* What the server does with a request (external: RFC 8621 as the client    *)
(* relies on it).                                                           *)
(***************************************************************************)

Accepts(r) ==
    /\ r.kind = "cancel" => status[r.sub] = "pending"
    /\ r.kind = "submit" => place[r.mail] = "none"
    /\ r.kind \in {"create", "undo", "file", "destroy"} => place[r.mail] \in {"sent", "drafts"}

Puts(m, where) == place' = [place EXCEPT ![m] = where]
Turns(s, to) == status' = [status EXCEPT ![s] = to]

Carries(r) ==
    \/ /\ r.kind = "submit" /\ Puts(r.mail, "sent")
       /\ Turns(r.sub, "pending") /\ of' = [of EXCEPT ![r.sub] = r.mail]
    \/ /\ r.kind = "create" /\ UNCHANGED place
       /\ Turns(r.sub, "pending") /\ of' = [of EXCEPT ![r.sub] = r.mail]
    \/ r.kind = "cancel" /\ Turns(r.sub, "canceled") /\ UNCHANGED <<place, of>>
    \/ r.kind = "file" /\ Puts(r.mail, "drafts") /\ UNCHANGED <<status, of>>
    \/ r.kind \in {"undo", "destroy"} /\ Puts(r.mail, "gone") /\ UNCHANGED <<status, of>>

Answered(r) == Accepts(r) /\ Carries(r) /\ UNCHANGED late

\* The server can't do what is asked.
Denied(r) == ~Accepts(r) /\ UNCHANGED <<server, late>>

\* It won't, or was never reached: certainly nothing happened.
Refused == "refused" \in Faults /\ UNCHANGED <<server, late>>

BreaksOff(r) ==
    \/ "lost" \in Faults /\ UNCHANGED <<server, late>>
    \/ "silent" \in Faults /\ (IF Accepts(r) THEN Carries(r) ELSE UNCHANGED server) /\ UNCHANGED late
    \/ "late" \in Faults /\ late' = late \union {r} /\ UNCHANGED server

\* A request that only reads may fail as soon as anything may.
ReadFails == Faults # {} /\ UNCHANGED <<server, late>>

\* Its time has come and the server sends it.
Fires(s) ==
    /\ Waits(s) /\ status' = [status EXCEPT ![s] = "final"]
    /\ UNCHANGED <<place, of, call, late, told, cut>>

LateArrives(r) ==
    /\ r \in late /\ late' = late \ {r}
    /\ IF Accepts(r) THEN Carries(r) ELSE UNCHANGED server
    /\ cut' = cut \union {r.mail} /\ UNCHANGED <<call, told>>

-----------------------------------------------------------------------------
(***************************************************************************)
(* The calls.                                                              *)
(***************************************************************************)

At(c, step) == call[c].at = step
Of(c, kind, s) == [kind |-> kind, mail |-> call[c].mail, sub |-> s]
Goes(c, step) == call' = [call EXCEPT ![c].at = step] /\ UNCHANGED told
Gone(c) == call' = [call EXCEPT ![c] = NoCall]
Ends(c, word) == Gone(c) /\ told' = [told EXCEPT ![call[c].mail] = word]

\* send_later: the mail to Sent, and a submission that waits, in one request.
Schedule(c, m, new) ==
    /\ At(c, "idle") /\ "submit" \in Uses /\ place[m] = "none" /\ told[m] = "nothing" /\ ~Busy(m) /\ new \in Fresh
    /\ call' = [call EXCEPT ![c] = [at |-> "submit", op |-> "submit", mail |-> m, sub |-> new, new |-> new]]
    /\ UNCHANGED <<server, late, told, cut>>

Submit(c) ==
    LET r == Of(c, "submit", call[c].new) IN
    /\ At(c, "submit")
    /\ \/ Answered(r) /\ Ends(c, "scheduled")
       \/ (Denied(r) \/ Refused) /\ Ends(c, "unsure")
       \* The mail was stored, its submission refused.
       \/ /\ "refused" \in Faults /\ place' = [place EXCEPT ![r.mail] = "sent"]
          /\ Goes(c, "undo") /\ UNCHANGED <<status, of, late>>
       \/ BreaksOff(r) /\ Ends(c, "unsure")

\* The stored mail is removed again, as well as it can.
Undo(c) ==
    LET r == Of(c, "undo", call[c].new) IN
    /\ At(c, "undo")
    /\ Answered(r) \/ Denied(r) \/ Refused \/ BreaksOff(r)
    /\ Ends(c, "unsure")

\* reschedule_send, send_scheduled_now, stop_scheduled and edit_scheduled of a submission that
\* some list showed, however long ago.
Begin(c, op, s, new) ==
    /\ At(c, "idle") /\ op \in Uses \ {"submit"} /\ status[s] # "none" /\ new \in Fresh
    /\ call' = [call EXCEPT ![c] = [at |-> "look", op |-> op, mail |-> of[s], sub |-> s, new |-> new]]
    /\ UNCHANGED <<server, late, told, cut>>

\* waiting: the submission, while it still waits.
Look(c) ==
    /\ At(c, "look")
    /\ \/ Waits(call[c].sub) /\ Goes(c, "cancel") /\ UNCHANGED <<server, late>>
       \/ ~Waits(call[c].sub) /\ Ends(c, "late") /\ UNCHANGED <<server, late>>
       \/ ReadFails /\ Gone(c) /\ UNCHANGED told

\* Mutant: a call that only stops makes room for the composer too.
AfterStopByTime(c) == IF call[c].op = "move" THEN "create" ELSE "download"

\* Where a call goes on once its submission is cancelled.
AfterStop(c) == CASE call[c].op = "move" -> "create"
                  [] call[c].op = "stop" -> "file"
                  [] OTHER -> "download"

\* Mutant: what wasn't denied counts as cancelled.
CancelTrustsSilence(c) ==
    LET r == Of(c, "cancel", call[c].sub) IN
    /\ At(c, "cancel")
    /\ \/ Answered(r) /\ Goes(c, AfterStop(c))
       \/ Denied(r) /\ Ends(c, "late")
       \/ (Refused \/ BreaksOff(r)) /\ Goes(c, AfterStop(c))

\* stop: only the server's word for this submission confirms it.
Cancel(c) ==
    LET r == Of(c, "cancel", call[c].sub) IN
    /\ At(c, "cancel")
    /\ \/ Answered(r) /\ Goes(c, AfterStop(c))
       \/ Denied(r) /\ Ends(c, "late")
       \/ (Refused \/ BreaksOff(r)) /\ Goes(c, "check")

\* ... and when that is missing, the submission is read again.
Check(c) ==
    LET s == call[c].sub IN
    /\ At(c, "check")
    /\ \/ status[s] = "canceled" /\ Goes(c, AfterStop(c)) /\ UNCHANGED <<server, late>>
       \/ status[s] = "pending" /\ Ends(c, "unsure") /\ UNCHANGED <<server, late>>
       \/ status[s] = "final" /\ Ends(c, "late") /\ UNCHANGED <<server, late>>
       \/ ReadFails /\ Ends(c, "unsure")

\* Mutant: no answer means it didn't take.
CreateAssumesNotTaken(c) ==
    LET r == Of(c, "create", call[c].new) IN
    /\ At(c, "create")
    /\ \/ Answered(r) /\ Ends(c, "scheduled")
       \/ (Denied(r) \/ Refused \/ BreaksOff(r)) /\ Goes(c, "file")

\* resubmit: the same mail again, with its new time.
Create(c) ==
    LET r == Of(c, "create", call[c].new) IN
    /\ At(c, "create")
    /\ \/ Answered(r) /\ Ends(c, "scheduled")
       \/ (Denied(r) \/ Refused) /\ Goes(c, "file")
       \/ BreaksOff(r) /\ Goes(c, "lookup")

\* Mutant: a submission that was cancelled counts too.
LookupTakesAny(c) ==
    LET others == {s \in Subs : of[s] = call[c].mail /\ s # call[c].sub /\ status[s] # "none"} IN
    /\ At(c, "lookup")
    /\ \/ others # {} /\ Ends(c, "scheduled") /\ UNCHANGED <<server, late>>
       \/ others = {} /\ Goes(c, "file") /\ UNCHANGED <<server, late>>
       \/ ReadFails /\ Ends(c, "unsure")

\* other_submission_for: one that waits or went out.
Lookup(c) ==
    LET others == {s \in Subs : of[s] = call[c].mail /\ s # call[c].sub /\ Live(s)} IN
    /\ At(c, "lookup")
    /\ \/ others # {} /\ Ends(c, "scheduled") /\ UNCHANGED <<server, late>>
       \/ others = {} /\ Goes(c, "file") /\ UNCHANGED <<server, late>>
       \/ ReadFails /\ Ends(c, "unsure")

\* held_message: the mail for the composer.
Download(c) ==
    /\ At(c, "download")
    /\ \/ place[call[c].mail] # "gone" /\ Goes(c, "destroy") /\ UNCHANGED <<server, late>>
       \/ place[call[c].mail] = "gone" /\ Goes(c, "file") /\ UNCHANGED <<server, late>>
       \/ ReadFails /\ Goes(c, "file")

\* The composer has it; the server's copy goes, as well as it can.
Destroy(c) ==
    LET r == Of(c, "destroy", call[c].sub) IN
    /\ At(c, "destroy")
    /\ Answered(r) \/ Denied(r) \/ Refused \/ BreaksOff(r)
    /\ Ends(c, "stopped")

\* An edit that got this far only reports why the mail couldn't be downloaded.
Outcome(c, stop, move) == CASE call[c].op = "stop" -> stop [] call[c].op = "move" -> move [] OTHER -> "unsure"

\* to_drafts; a new time that didn't take says where the mail is now.
File(c) ==
    LET r == Of(c, "file", call[c].sub) IN
    /\ At(c, "file")
    /\ \/ Answered(r) /\ Ends(c, Outcome(c, "stopped", "drafts"))
       \/ (Denied(r) \/ Refused \/ BreaksOff(r)) /\ Ends(c, Outcome(c, "unsure", "stopped"))

\* The client stops: the call is gone, the person was told nothing.
Stops(c) ==
    /\ Crashes /\ ~At(c, "idle")
    /\ Gone(c) /\ cut' = cut \union {call[c].mail} /\ UNCHANGED <<server, late, told>>

-----------------------------------------------------------------------------
Init ==
    /\ place = [m \in Mails |-> "none"]
    /\ status = [s \in Subs |-> "none"] /\ of = [s \in Subs |-> NoCall.mail]
    /\ call = [c \in Calls |-> NoCall]
    /\ late = {} /\ told = [m \in Mails |-> "nothing"] /\ cut = {}

CallStep(c) == Submit(c) \/ Undo(c) \/ Look(c) \/ Cancel(c) \/ Check(c) \/ Create(c) \/ Lookup(c)
               \/ Download(c) \/ Destroy(c) \/ File(c)

Next ==
    \/ \E c \in Calls, m \in Mails, new \in Subs : Schedule(c, m, new)
    \/ \E c \in Calls, op \in Ops, s, new \in Subs : Begin(c, op, s, new)
    \/ \E c \in Calls : Stops(c) \/ (CallStep(c) /\ UNCHANGED cut)
    \/ \E s \in Subs : Fires(s)
    \/ \E r \in late : LateArrives(r)

Spec == Init /\ [][Next]_vars

-----------------------------------------------------------------------------
(***************************************************************************)
(* Properties.                                                             *)
(***************************************************************************)

\* The steps a call of an operation takes.
StepsOf(op) ==
    CASE op = "submit" -> {"submit", "undo"}
      [] op = "move" -> {"look", "cancel", "check", "create", "lookup", "file"}
      [] op = "stop" -> {"look", "cancel", "check", "file"}
      [] op = "edit" -> {"look", "cancel", "check", "download", "destroy", "file"}

ServerOK ==
    /\ place \in [Mails -> Places] /\ status \in [Subs -> Statuses] /\ of \in [Subs -> Mails]
    /\ \A s \in Subs : status[s] # "none" => place[of[s]] # "none"
CallsOK ==
    /\ call \in [Calls -> Call] /\ told \in [Mails -> Words]
    /\ \A c \in Calls : call[c].at # "idle" => call[c].at \in StepsOf(call[c].op)

\* Types; a call is at a step of its own operation, and only a stored mail has submissions.
TypeOK == ServerOK /\ CallsOK /\ late \in SUBSET Request /\ cut \subseteq Mails

\* "So the mail can never go twice": at no time do two submissions of one mail wait or have
\* been sent, whatever requests get lost, come late or are answered with silence.
NeverTwice ==
    \A s, t \in Subs : Live(s) /\ Live(t) /\ of[s] = of[t] => s = t

HasLive(m) == \E s \in Subs : of[s] = m /\ Live(s)

\* Who was told that a mail is scheduled (the receipt of send_later, a new time that was taken)
\* can rely on it: a submission of it waits or went out, unless UwUMail was stopped in the
\* middle of a later call, or a request of that call came late.
ToldScheduledWillGo ==
    \A m \in Mails \ cut : told[m] = "scheduled" /\ ~Busy(m) => HasLive(m)

\* A mail the person was told is stopped does not go any more, with the same exception.
StoppedNeverGoes == \A m \in Mails \ cut : told[m] = "stopped" /\ ~Busy(m) => ~HasLive(m)

\* "Only 'no other submission' means it didn't take": a mail that was put into Drafts, or
\* handed to the composer and removed, is not going out from the server as well, with the
\* same exception.
PutAwayNeverGoes == \A m \in Mails \ cut : place[m] \in {"drafts", "gone"} => ~HasLive(m)

\* A mail that lies in Sent and will not go is one the person heard of, with the same exception:
\* the last word about it was not that it is scheduled.
UnsentIsTold ==
    \A m \in Mails \ cut :
        place[m] = "sent" /\ ~Busy(m) /\ ~HasLive(m) => told[m] \notin {"nothing", "scheduled"}

=============================================================================
