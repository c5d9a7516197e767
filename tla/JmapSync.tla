------------------------------ MODULE JmapSync ------------------------------
(***************************************************************************)
(* The local copy of a JMAP mailbox (crates/uwumail-core/src/jmap_sync.rs,  *)
(* and engine.rs, where it is called from): folders, mail, and the state of *)
(* the server they stand for.                                               *)
(*                                                                         *)
(* One sync runs at a time.  It mirrors the mailboxes, asks what changed    *)
(* since the stored state (or lists everything), writes that into the rows, *)
(* downloads what is new, and only then stores the new state.  Meanwhile    *)
(* windows read, move, delete and search mail: each writes the same rows,   *)
(* some before their request and some after its answer, and other devices   *)
(* change the server.                                                       *)
(***************************************************************************)
EXTENDS Naturals

CONSTANTS
    Mails,       \* emails that are or may come to the server
    Boxes,       \* mailboxes that are or may be made on the server
    Trash,       \* the one with the role of the trash
    None,        \* no email, no row
    FirstBoxes,  \* mailboxes at the start
    Old,         \* emails too deep in their mailbox for the first listing (INITIAL_WINDOW)
    Calls,       \* windows, each with one call at a time
    Uses,        \* what the person does, of Ops
    Elsewhere,   \* what other devices and senders do, of Changes
    Faults,      \* whether requests and downloads may fail
    MaxVersion   \* bound on the server's changes; calls that run may go past it

Ops == {"seen", "move", "trash", "destroy", "empty", "search"}
Changes == {"arrive", "flag", "move", "destroy", "box"}

ASSUME BoxesAssumption == Trash \in Boxes /\ FirstBoxes \subseteq Boxes /\ None \notin Boxes
ASSUME MailsAssumption == Old \subseteq Mails /\ None \notin Mails
ASSUME UsesAssumption == Uses \subseteq Ops /\ Elsewhere \subseteq Changes /\ Faults \in BOOLEAN
ASSUME BoundAssumption == MaxVersion \in Nat \ {0}

\* What is known of an email: its mailbox and one keyword.
Copy == [box : Boxes, seen : BOOLEAN]
ASSUME NoneAssumption == None \notin Copy

VARIABLES
    srv,       \* the server's emails
    boxes,     \* the server's mailboxes
    version,   \* the server's state, a number that grows
    touched,   \* the state that last changed an email, 0 before it arrived
    row,       \* the emails in the store
    folders,   \* the folders in the store
    state,     \* the stored state, 0 for none
    created,   \* mailboxes this client made a moment ago
    sync,      \* the sync that runs, and what it holds
    call,      \* the calls that run
    anew,      \* emails stored again since the sync read which rows there are
    adrift     \* emails whose row a late answer left behind (no action reads it)

server == <<srv, boxes, version, touched>>
store == <<row, folders, state, anew>>
vars == <<srv, boxes, version, touched, row, folders, state, created, sync, call, anew, adrift>>

Here == {e \in Mails : row[e] # None}
There == {e \in Mails : srv[e] # None}

NoEmails == [e \in Mails |-> None]
NoSync == [at |-> "idle", keep |-> {}, boxes |-> {}, known |-> {}, to |-> 0, todo |-> {},
           reset |-> FALSE, listed |-> NoEmails, gone |-> {}, new |-> {}]
NoCall == [at |-> "idle", mail |-> None, copy |-> None, page |-> {}]

-----------------------------------------------------------------------------
(***************************************************************************)
(* The server (external: RFC 8621 as this client relies on it).             *)
(***************************************************************************)

\* One change of emails: a new state, and each of them belongs to it.
Touch(changed) ==
    /\ version' = version + 1
    /\ touched' = [e \in Mails |-> IF e \in changed THEN version + 1 ELSE touched[e]]
    /\ adrift' = adrift \ changed

Put(e, copy) == srv' = [srv EXCEPT ![e] = copy] /\ Touch({e}) /\ UNCHANGED boxes

Elsewhen(change) == change \in Elsewhere /\ version < MaxVersion /\ UNCHANGED <<store, created, sync, call>>

Arrives(e, b) ==
    /\ Elsewhen("arrive") /\ touched[e] = 0 /\ b \in boxes
    /\ Put(e, [box |-> b, seen |-> FALSE])

FlaggedElsewhere(e) == Elsewhen("flag") /\ e \in There /\ Put(e, [srv[e] EXCEPT !.seen = ~@])

MovedElsewhere(e, b) ==
    /\ Elsewhen("move") /\ e \in There /\ b \in boxes \ {srv[e].box}
    /\ Put(e, [srv[e] EXCEPT !.box = b])

DestroyedElsewhere(e) == Elsewhen("destroy") /\ e \in There /\ Put(e, None)

\* A mailbox is made elsewhere, or an empty one removed.
BoxElsewhere(b) ==
    /\ Elsewhen("box") /\ \A e \in There : srv[e].box # b
    /\ boxes' = IF b \in boxes THEN boxes \ {b} ELSE boxes \union {b}
    /\ version' = version + 1 /\ UNCHANGED <<srv, touched, adrift>>

-----------------------------------------------------------------------------
(***************************************************************************)
(* The sync.                                                               *)
(***************************************************************************)

At(step) == sync.at = step
Goes(step) == sync' = [sync EXCEPT !.at = step]
OnlyReads == UNCHANGED <<server, store, created, call>>

\* sync_jmap: it has the account's lock, and remembers which folders are new.
SyncStarts ==
    /\ At("idle")
    /\ sync' = [NoSync EXCEPT !.at = "boxes", !.keep = created, !.to = state]
    /\ OnlyReads /\ UNCHANGED adrift

\* The server lists its mailboxes.
BoxesAnswer ==
    /\ At("boxes")
    /\ sync' = [sync EXCEPT !.at = "mirror", !.boxes = boxes]
    /\ OnlyReads /\ UNCHANGED adrift

\* sync_mailboxes stores them and drops the folders that are not among them, with their mail;
\* sync_emails reads what the store knows and since when.
Mirror ==
    LET kept == sync.boxes \union (folders \intersect sync.keep)
        rows == [e \in Mails |-> IF row[e] # None /\ row[e].box \notin kept THEN None ELSE row[e]]
    IN
    /\ At("mirror")
    /\ folders' = kept /\ row' = rows /\ anew' = {}
    /\ sync' = [NoSync EXCEPT !.at = IF state = 0 THEN "first" ELSE "changes", !.to = state,
                              !.known = {e \in Mails : rows[e] # None}]
    /\ UNCHANGED <<server, state, created, call, adrift>>

\* Email/changes up to some state, with the emails as they are now.
ChangesAnswer(upto) ==
    LET changed == {e \in Mails : touched[e] > sync.to /\ touched[e] <= upto} IN
    /\ At("changes") /\ upto >= sync.to /\ upto <= version
    /\ sync' = [sync EXCEPT !.at = IF upto = version THEN "apply" ELSE "changes", !.to = upto,
                            !.listed = [e \in Mails |-> IF e \in changed \intersect There THEN srv[e] ELSE @[e]],
                            !.gone = @ \union (changed \ There)]
    /\ OnlyReads /\ UNCHANGED adrift

\* "cannotCalculateChanges", or too many rounds: everything is listed again.
CannotCalculate ==
    /\ At("changes")
    /\ sync' = [sync EXCEPT !.at = "first", !.reset = TRUE, !.listed = NoEmails, !.gone = {}, !.to = state]
    /\ OnlyReads /\ UNCHANGED adrift

\* Mutant: the state is taken once the listing is done.
StateAtTheEnd ==
    /\ At("first")
    /\ sync' = [sync EXCEPT !.at = "list", !.todo = folders, !.to = version + 1]
    /\ OnlyReads
    /\ adrift' = adrift \union {e \in There : srv[e].box \notin folders}

\* initial_listing takes the state first, then lists every folder of the store.
StateAnswer ==
    /\ At("first")
    /\ sync' = [sync EXCEPT !.at = "list", !.todo = folders, !.to = version]
    /\ OnlyReads
    /\ adrift' = adrift \union {e \in There : srv[e].box \notin folders}

\* The newest emails of a folder; one that was listed already stays as it was.
ListAnswer(b) ==
    /\ At("list") /\ b \in sync.todo
    /\ sync' = [sync EXCEPT !.todo = @ \ {b},
                            !.listed = [e \in Mails |-> IF /\ @[e] = None /\ e \in There \ Old
                                                           /\ srv[e].box = b
                                                        THEN srv[e] ELSE @[e]]]
    /\ OnlyReads /\ UNCHANGED adrift

\* Stored already, not in the listing, and changed before it.
Unasked == {e \in Here : sync.listed[e] = None /\ row[e] # srv[e] /\ touched[e] <= sync.to}

\* Only after a reset does anybody ask about the rest of what is known.
Listed ==
    /\ At("list") /\ sync.todo = {}
    /\ Goes(IF sync.reset THEN "existing" ELSE "apply")
    /\ OnlyReads /\ adrift' = adrift \union (IF sync.reset THEN Unasked \ sync.known ELSE Unasked)

\* Which of the known emails still exist, and how they are now.
ExistingAnswer ==
    /\ At("existing")
    /\ sync' = [sync EXCEPT !.at = "apply",
                            !.listed = [e \in Mails |-> IF e \in sync.known \intersect There THEN srv[e] ELSE @[e]],
                            !.gone = sync.known \ There]
    /\ OnlyReads /\ UNCHANGED adrift

\* What was listed, and what the folders make of it.
Current == {e \in Mails : sync.listed[e] # None} \ sync.gone
Placed == {e \in Current : sync.listed[e].box \in folders}

\* Known emails are updated where they still have the row they had, and those that are gone, or
\* in no folder, lose it.  What is new waits for its download.
Apply ==
    LET same == sync.known \ anew
        out == same \intersect (sync.gone \union (Current \ Placed))
    IN
    /\ At("apply")
    /\ row' = [e \in Mails |-> IF e \in out THEN None
                               ELSE IF e \in same \intersect Placed /\ row[e] # None THEN sync.listed[e]
                               ELSE row[e]]
    /\ sync' = [NoSync EXCEPT !.at = "download", !.to = sync.to, !.new = Placed \ sync.known,
                              !.listed = [e \in Mails |-> IF e \in sync.known THEN None ELSE sync.listed[e]]]
    \* Left behind: in a mailbox that isn't mirrored, or its row came or went since the sync asked.
    /\ adrift' = adrift \union {e \in Current \ Placed : srv[e] # None}
                        \union {e \in sync.known \intersect Placed : row[e] # srv[e] /\ (row[e] = None \/ e \in anew)}
                        \union {e \in sync.gone \ same : row[e] # srv[e]}
    /\ UNCHANGED <<server, folders, state, anew, created, call>>

\* A new email is downloaded and stored, unless it is gone or was found by a search meanwhile.
Download(e) ==
    /\ At("download") /\ e \in sync.new
    /\ row' = [row EXCEPT ![e] = IF @ = None /\ e \in There THEN sync.listed[e] ELSE @]
    /\ sync' = [sync EXCEPT !.new = @ \ {e}, !.listed[e] = None]
    /\ adrift' = IF row[e] # None /\ row[e] # sync.listed[e] THEN adrift \union {e} ELSE adrift
    /\ UNCHANGED <<server, folders, state, anew, created, call>>

Finish ==
    /\ At("download") /\ sync.new = {}
    /\ state' = sync.to /\ sync' = NoSync
    /\ UNCHANGED <<server, row, folders, anew, created, call, adrift>>

\* Any request may fail; sync_loop begins again.
SyncFails ==
    /\ Faults /\ ~At("idle") /\ ~At("mirror") /\ ~At("apply")
    /\ sync' = NoSync
    /\ UNCHANGED <<server, store, created, call, adrift>>

-----------------------------------------------------------------------------
(***************************************************************************)
(* The calls of the windows.                                               *)
(***************************************************************************)

Is(c, step) == call[c].at = step
Step(c, step) == call' = [call EXCEPT ![c].at = step]
Ends(c) == call' = [call EXCEPT ![c] = NoCall]
Begins(c, op, at, e, copy) ==
    /\ Is(c, "idle") /\ op \in Uses /\ version <= MaxVersion
    /\ call' = [call EXCEPT ![c] = [NoCall EXCEPT !.at = at, !.mail = e, !.copy = copy]]

\* The state the store will count as seen once the running sync is through.
Counted == IF sync.to > state THEN sync.to ELSE state

\* Rows a late answer leaves unlike the server, though the store counts the server's change.
LeftBehind(rows) == {e \in Mails : rows[e] # srv[e] /\ touched[e] <= Counted}
Writes(e, copy) ==
    /\ row' = [row EXCEPT ![e] = copy]
    /\ adrift' = adrift \union (LeftBehind([row EXCEPT ![e] = copy]) \intersect {e})

\* set_flags writes the store first ...
SetSeen(c, e) ==
    /\ e \in Here
    /\ LET new == [row[e] EXCEPT !.seen = ~@] IN
       /\ Begins(c, "seen", "flag", e, new) /\ row' = [row EXCEPT ![e] = new]
    /\ UNCHANGED <<server, folders, state, anew, created, sync, adrift>>

\* ... then the server.
FlagCarried(c) ==
    LET e == call[c].mail IN
    /\ Is(c, "flag") /\ Ends(c)
    /\ IF e \in There THEN Put(e, [srv[e] EXCEPT !.seen = call[c].copy.seen]) ELSE UNCHANGED <<server, adrift>>
    /\ UNCHANGED <<store, created, sync>>

\* The request is lost: the row keeps what the server doesn't have.
FlagFails(c) ==
    /\ Faults /\ Is(c, "flag") /\ Ends(c)
    /\ adrift' = adrift \union {call[c].mail}
    /\ UNCHANGED <<server, store, created, sync>>

\* move_to another folder of the store.
Move(c, e, b) ==
    /\ e \in Here /\ b \in folders \ {row[e].box}
    /\ Begins(c, "move", "move", e, [row[e] EXCEPT !.box = b])
    /\ UNCHANGED <<server, store, created, sync, adrift>>

\* Into the trash, which has to be made first when the store has none.
MoveToTrash(c, e) ==
    /\ e \in Here /\ row[e].box # Trash
    /\ Begins(c, "trash", IF Trash \in folders THEN "move" ELSE "ensure", e, [row[e] EXCEPT !.box = Trash])
    /\ created' = created \union ({Trash} \intersect folders)
    /\ UNCHANGED <<server, store, sync, adrift>>

\* ensure_mailbox: adopts the server's or makes one.
EnsureCarried(c) ==
    /\ Is(c, "ensure") /\ Step(c, "adopt")
    /\ boxes' = boxes \union {Trash} /\ version' = version + 1
    /\ UNCHANGED <<srv, touched, store, created, sync, adrift>>

EnsureStored(c) ==
    /\ Is(c, "adopt") /\ Step(c, "move")
    /\ folders' = folders \union {Trash} /\ created' = created \union {Trash}
    /\ UNCHANGED <<server, row, state, anew, sync, adrift>>

\* recently_created forgets a folder after a while.
NoLongerNew ==
    /\ created # {} /\ created' = {}
    /\ UNCHANGED <<server, store, sync, call, adrift>>

\* move_jmap: the server moves it ...
MoveCarried(c) ==
    LET e == call[c].mail IN
    /\ Is(c, "move")
    /\ IF e \in There /\ call[c].copy.box \in boxes
       THEN Put(e, [srv[e] EXCEPT !.box = call[c].copy.box]) /\ Step(c, "place")
       ELSE Ends(c) /\ UNCHANGED <<server, adrift>>
    /\ UNCHANGED <<store, created, sync>>

\* ... and its answer moves the row, where both are still there.
MovePlaces(c) ==
    LET e == call[c].mail IN
    /\ Is(c, "place") /\ Ends(c)
    /\ IF e \in Here /\ call[c].copy.box \in folders
       THEN Writes(e, [row[e] EXCEPT !.box = call[c].copy.box])
       ELSE UNCHANGED <<row, adrift>>
    /\ UNCHANGED <<server, folders, state, anew, created, sync>>

\* delete_forever of an email whose row is in the trash: first on the server ...
DeleteForever(c, e) ==
    /\ e \in Here /\ row[e].box = Trash
    /\ Begins(c, "destroy", "destroy", e, row[e])
    /\ UNCHANGED <<server, store, created, sync, adrift>>

DestroyCarried(c) ==
    LET e == call[c].mail IN
    /\ Is(c, "destroy") /\ Step(c, "drop")
    /\ IF e \in There THEN Put(e, None) ELSE UNCHANGED <<server, adrift>>
    /\ UNCHANGED <<store, created, sync>>

\* ... then here.
DestroyDrops(c) ==
    /\ Is(c, "drop") /\ Ends(c)
    /\ Writes(call[c].mail, None)
    /\ UNCHANGED <<server, folders, state, anew, created, sync>>

\* empty_folder: page by page until the server's trash is empty ...
EmptyTrash(c) ==
    /\ Trash \in folders /\ Begins(c, "empty", "page", None, None)
    /\ UNCHANGED <<server, store, created, sync, adrift>>

PageAnswer(c) ==
    LET page == {e \in There : srv[e].box = Trash} IN
    /\ Is(c, "page")
    /\ call' = [call EXCEPT ![c].at = IF page = {} THEN "clear" ELSE "drain", ![c].page = page]
    /\ UNCHANGED <<server, store, created, sync, adrift>>

DrainCarried(c) ==
    LET page == call[c].page \intersect There IN
    /\ Is(c, "drain") /\ Step(c, "page")
    /\ srv' = [e \in Mails |-> IF e \in page THEN None ELSE srv[e]] /\ Touch(page)
    /\ UNCHANGED <<boxes, store, created, sync>>

\* ... then the folder of the store.
EmptyClears(c) ==
    LET rows == [e \in Mails |-> IF e \in Here /\ row[e].box = Trash THEN None ELSE row[e]] IN
    /\ Is(c, "clear") /\ Ends(c)
    /\ row' = rows
    /\ adrift' = adrift \union (LeftBehind(rows) \intersect {e \in Here : row[e].box = Trash})
    /\ UNCHANGED <<server, folders, state, anew, created, sync>>

\* search on the server: emails the store doesn't know are stored as previews.
SearchAnswer(c, e) ==
    /\ e \in There /\ Begins(c, "search", "found", e, srv[e])
    /\ UNCHANGED <<server, store, created, sync, adrift>>

PreviewAnswer(c) ==
    LET e == call[c].mail IN
    /\ Is(c, "found")
    /\ IF e \notin Here /\ e \in There /\ call[c].copy.box \in folders THEN Step(c, "preview") ELSE Ends(c)
    /\ UNCHANGED <<server, store, created, sync, adrift>>

PreviewStored(c) ==
    LET e == call[c].mail IN
    /\ Is(c, "preview") /\ Ends(c)
    /\ IF e \notin Here /\ call[c].copy.box \in folders THEN Writes(e, call[c].copy) /\ anew' = anew \union {e}
       ELSE UNCHANGED <<row, anew, adrift>>
    /\ UNCHANGED <<server, folders, state, created, sync>>

\* A request breaks off, before or after the server carried it out: the call ends either way.
CallFails(c) ==
    /\ Faults /\ call[c].at \notin {"idle", "flag"} /\ Ends(c)
    /\ UNCHANGED <<server, store, created, sync, adrift>>

\* The program stops; what it was at is gone, the store stays.
Quit ==
    /\ Faults
    /\ adrift' = adrift \union {call[c].mail : c \in {c \in Calls : Is(c, "flag")}}
    /\ sync' = NoSync /\ call' = [c \in Calls |-> NoCall] /\ created' = {}
    /\ UNCHANGED <<server, store>>

-----------------------------------------------------------------------------
Init ==
    /\ srv \in [Mails -> [box : FirstBoxes, seen : {FALSE}] \union {None}]
    /\ boxes = FirstBoxes /\ version = 1
    /\ touched = [e \in Mails |-> IF srv[e] = None THEN 0 ELSE 1]
    /\ row = NoEmails /\ folders = {} /\ state = 0 /\ anew = {} /\ created = {}
    /\ sync = NoSync /\ call = [c \in Calls |-> NoCall] /\ adrift = {}

ServerStep ==
    \/ \E e \in Mails, b \in Boxes : Arrives(e, b) \/ MovedElsewhere(e, b)
    \/ \E e \in Mails : FlaggedElsewhere(e) \/ DestroyedElsewhere(e)
    \/ \E b \in Boxes : BoxElsewhere(b)

SyncStep ==
    \/ SyncStarts \/ BoxesAnswer \/ Mirror \/ CannotCalculate \/ StateAnswer \/ Listed \/ ExistingAnswer
    \/ Apply \/ Finish \/ SyncFails
    \/ \E upto \in state..version : ChangesAnswer(upto)
    \/ \E b \in Boxes : ListAnswer(b)
    \/ \E e \in Mails : Download(e)

CallStep(c) ==
    \/ FlagCarried(c) \/ FlagFails(c) \/ EnsureCarried(c) \/ EnsureStored(c) \/ MoveCarried(c) \/ MovePlaces(c)
    \/ DestroyCarried(c) \/ DestroyDrops(c) \/ EmptyTrash(c) \/ PageAnswer(c) \/ DrainCarried(c)
    \/ EmptyClears(c) \/ PreviewAnswer(c) \/ PreviewStored(c) \/ CallFails(c)
    \/ \E e \in Mails : \/ SetSeen(c, e) \/ MoveToTrash(c, e) \/ DeleteForever(c, e) \/ SearchAnswer(c, e)
                        \/ \E b \in Boxes : Move(c, e, b)

Next == ServerStep \/ SyncStep \/ NoLongerNew \/ Quit \/ \E c \in Calls : CallStep(c)

Spec == Init /\ [][Next]_vars

-----------------------------------------------------------------------------
(***************************************************************************)
(* Properties.                                                             *)
(***************************************************************************)

Steps == {"idle", "boxes", "mirror", "changes", "first", "list", "existing", "apply", "download"}
CallSteps == {"idle", "flag", "move", "ensure", "adopt", "place", "destroy", "drop", "page", "drain", "clear",
              "found", "preview"}

ServerOK ==
    /\ srv \in [Mails -> Copy \union {None}] /\ boxes \subseteq Boxes
    /\ version \in Nat \ {0} /\ touched \in [Mails -> 0..version]
    /\ \A e \in Mails : touched[e] = 0 => srv[e] = None
StoreOK ==
    /\ row \in [Mails -> Copy \union {None}] /\ folders \subseteq Boxes /\ state \in 0..version
    /\ \A e \in Here : row[e].box \in folders
SyncOK ==
    /\ sync \in [at : Steps, keep : SUBSET Boxes, boxes : SUBSET Boxes, known : SUBSET Mails, to : 0..version,
                 todo : SUBSET Boxes, reset : BOOLEAN, listed : [Mails -> Copy \union {None}],
                 gone : SUBSET Mails, new : SUBSET Mails]
    /\ sync.at # "idle" => state <= sync.to
CallsOK ==
    /\ call \in [Calls -> [at : CallSteps, mail : Mails \union {None}, copy : Copy \union {None},
                           page : SUBSET Mails]]
    /\ \A c \in Calls : call[c].at \notin {"idle", "page", "drain", "clear"} =>
                            call[c].mail \in Mails /\ call[c].copy \in Copy

\* Types; an email's row is in a folder of the store (the store refuses any other), and no
\* state is ahead of the server's.
TypeOK == ServerOK /\ StoreOK /\ SyncOK /\ CallsOK /\ created \subseteq Boxes /\ anew \subseteq Mails /\ adrift \subseteq Mails

\* A row as the server has the email, or none of one that is deeper than the first listing goes.
InStep(e) == row[e] = srv[e] \/ (e \in Old /\ row[e] = None)

Quiet == At("idle") /\ \A c \in Calls : Is(c, "idle")

\* "Brings the account's emails in the store up to date": where the stored state is the server's
\* and nothing runs, every row is what the server has.
UpToDate == Quiet /\ state = version => \A e \in Mails : InStep(e)

\* An email is only ever left behind by a late answer of a call, by a mailbox that came while
\* the sync ran, or by a flag that wasn't taken; whatever else differs is still to be reported,
\* because the server touched it after the stored state.
StillReported ==
    Quiet => \A e \in Mails \ adrift : InStep(e) \/ touched[e] > state

=============================================================================
