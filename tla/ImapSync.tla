------------------------------ MODULE ImapSync ------------------------------
(***************************************************************************)
(* The local copy of an IMAP account (crates/uwumail-core/src/imap.rs, and  *)
(* engine.rs and store.rs, where its rows are read and written).            *)
(*                                                                         *)
(* IMAP names a mail by its folder and a uid there, which says nothing once *)
(* the folder's UIDVALIDITY changes.  The sync asks a folder only for uids  *)
(* above the largest it has stored, and then compares what it had.  A mail  *)
(* that moves gets a new uid nobody tells this client: its row waits in the *)
(* new folder without one, until the sync finds the mail there.  Where the  *)
(* server can't move or expunge by uid, a mail is copied, marked \Deleted   *)
(* and expunged, in requests of their own.                                 *)
(***************************************************************************)
EXTENDS Naturals, FiniteSets, FiniteSetsExt

CONSTANTS
    Mails,      \* mails, by their Message-ID
    Early,      \* which of them may be there already
    Inbox, Trash,
    None,       \* no mail, no row
    Large,      \* mails stored as previews, after the small ones
    Rows,       \* ids of rows: the bound on how many there are at a time
    Calls,      \* windows, each with one call at a time
    Uses,       \* what the person does, of Ops
    Elsewhere,  \* what other devices and senders do, of Changes
    Faults,     \* whether connections may break
    CanMove,    \* whether the server has MOVE, and
    UidPlus,    \* whether it has UIDPLUS: what CAPABILITY may say
    Window,     \* how many mails a folder's first listing reaches (INITIAL_WINDOW)
    MaxUid,     \* bound on a folder's uids
    MaxValidity,\* bound on a folder's UIDVALIDITY
    MaxEvents   \* bound on what others do, calls begin and mails are copied

Ops == {"seen", "move", "destroy", "empty", "search"}
Changes == {"arrive", "flag", "mark", "move", "destroy", "renumber"}
Folders == {Inbox, Trash}
Uids == 1..MaxUid

ASSUME MailsAssumption == Large \subseteq Mails /\ None \notin Mails /\ IsFiniteSet(Mails)
ASSUME EarlyAssumption == Early \subseteq SUBSET Mails /\ \A early \in Early : Cardinality(early) <= MaxUid
ASSUME FoldersAssumption == Inbox # Trash /\ None \notin Folders
ASSUME UsesAssumption == Uses \subseteq Ops /\ Elsewhere \subseteq Changes /\ Faults \in BOOLEAN
ASSUME AbilitiesAssumption == CanMove \subseteq BOOLEAN /\ UidPlus \subseteq BOOLEAN
ASSUME CallsAssumption == IsFiniteSet(Calls)
ASSUME BoundsAssumption == MaxUid \in Nat \ {0} /\ Window \in Nat \ {0} /\ MaxValidity \in Nat \ {0} /\ MaxEvents \in Nat

\* What the server holds at a uid, and a row of the store; uid 0 is a placeholder.
Copy == [mail : Mails, seen : BOOLEAN, deleted : BOOLEAN]
Row == [mail : Mails, folder : Folders, uid : 0..MaxUid, seen : BOOLEAN]
ASSUME NoneAssumption == None \notin Copy /\ None \notin Row

VARIABLES
    box,       \* the server's folders: what is at each uid
    next,      \* the uid the next mail in a folder gets
    validity,  \* the folders' UIDVALIDITY
    rows,      \* the mails in the store
    known,     \* the UIDVALIDITY the store has of a folder, 0 for none
    sync,      \* the sync that runs, and what it holds
    call,      \* the calls that run; whether their uids meant what the server means (no action reads that)
    events,    \* how much happened (MaxEvents)
    skipped    \* uids left out of the store for good (no action reads it)

server == <<box, next, validity>>
store == <<rows, known>>
vars == <<box, next, validity, rows, known, sync, call, events, skipped>>

On(f) == {u \in Uids : box[f][u] # None}
Stored(f) == {i \in Rows : rows[i] # None /\ rows[i].folder = f}
StoredUids(f) == {rows[i].uid : i \in Stored(f)} \ {0}
TopUid(S) == IF S = {} THEN 0 ELSE Max(S)

NoSync == [at |-> "idle", folder |-> Inbox, max |-> 0, view |-> {}, todo |-> {}, old |-> {}, current |-> {}]
NoCall == [at |-> "idle", row |-> None, mail |-> None, folder |-> Inbox, to |-> Trash, uids |-> {}, seen |-> FALSE,
           named |-> FALSE, retried |-> FALSE]

-----------------------------------------------------------------------------
(***************************************************************************)
(* The server (external).                                                  *)
(***************************************************************************)

\* There is a uid left for one more mail, besides those the moves under way need.
Room(f) == next[f] + Cardinality({c \in Calls : call[c].at = "move" /\ call[c].to = f}) <= MaxUid

Append(b, f, copy) ==
    /\ box' = [b EXCEPT ![f][next[f]] = copy]
    /\ next' = [next EXCEPT ![f] = @ + 1]
    /\ UNCHANGED validity

Happens == events < MaxEvents /\ events' = events + 1
Elsewhen(change) == change \in Elsewhere /\ Happens /\ UNCHANGED <<store, sync, call>>

Arrives(m, f) ==
    /\ Elsewhen("arrive") /\ Room(f)
    /\ \A g \in Folders : \A u \in On(g) : box[g][u].mail # m
    /\ Append(box, f, [mail |-> m, seen |-> FALSE, deleted |-> FALSE])
    /\ UNCHANGED skipped

FlaggedElsewhere(f, u) ==
    /\ Elsewhen("flag") /\ u \in On(f)
    /\ box' = [box EXCEPT ![f][u].seen = ~@]
    /\ UNCHANGED <<next, validity, skipped>>

\* \Deleted, until an EXPUNGE or taken off again.
MarkedElsewhere(f, u) ==
    /\ Elsewhen("mark") /\ u \in On(f)
    /\ box' = [box EXCEPT ![f][u].deleted = ~@]
    /\ UNCHANGED <<next, validity, skipped>>

MovedElsewhere(f, u, g) ==
    /\ Elsewhen("move") /\ u \in On(f) /\ g # f /\ Room(g)
    /\ Append([box EXCEPT ![f][u] = None], g, box[f][u])
    /\ UNCHANGED skipped

DestroyedElsewhere(f, u) ==
    /\ Elsewhen("destroy") /\ u \in On(f)
    /\ box' = [box EXCEPT ![f][u] = None]
    /\ UNCHANGED <<next, validity, skipped>>

\* A folder's mail gets new uids (packed, in order), while nobody has the folder open.  Not
\* before its UIDVALIDITY is stored: see the README for what happens then.
Renumbers(f) ==
    LET rank(u) == Cardinality({v \in On(f) : v <= u}) IN
    /\ Elsewhen("renumber") /\ validity[f] < MaxValidity
    /\ known[f] # 0 \/ StoredUids(f) = {}
    /\ sync.at = "idle" \/ sync.folder # f
    /\ \A c \in Calls : call[c].at = "idle"
    /\ box' = [box EXCEPT ![f] = [n \in Uids |-> IF \E u \in On(f) : rank(u) = n
                                                THEN box[f][CHOOSE u \in On(f) : rank(u) = n] ELSE None]]
    /\ next' = [next EXCEPT ![f] = Cardinality(On(f)) + 1]
    /\ validity' = [validity EXCEPT ![f] = @ + 1]
    /\ skipped' = {s \in skipped : s[1] # f}

-----------------------------------------------------------------------------
(***************************************************************************)
(* The store.                                                              *)
(***************************************************************************)

\* Ids are never used again: not one a call still holds.
Unused == {i \in Rows : rows[i] = None /\ \A c \in Calls : call[c].row # i}

\* insert: a uid that is stored already stays as it is, a row that waits for its uid gets it,
\* and anything else is a new row.
Inserted(f, u) ==
    LET copy == box[f][u]
        waits == {i \in Stored(f) : rows[i].uid = 0 /\ rows[i].mail = copy.mail}
    IN
    IF u \in StoredUids(f) THEN {rows}
    ELSE IF waits # {} THEN {[rows EXCEPT ![i].uid = u] : i \in waits}
    ELSE {[rows EXCEPT ![i] = [mail |-> copy.mail, folder |-> f, uid |-> u, seen |-> copy.seen]] :
             i \in Unused}
CanInsert == Unused # {}

\* Uids of a folder that the running sync is going to store.
Coming(f) ==
    IF sync.folder # f THEN {}
    ELSE IF sync.at = "list" THEN {u \in On(f) : sync.max < u}
    ELSE IF sync.at = "download" THEN sync.todo \intersect On(f) ELSE {}

\* Uids that no sync will ask for any more once `top` is stored.
Behind(f, top) == {<<f, u>> : u \in {u \in On(f) \ StoredUids(f) : u < top}}
Each(f, uids) == {<<f, u>> : u \in uids}

\* What the running sync leaves behind when it breaks off.
NotComing == LET f == sync.folder IN Each(f, Coming(f)) \intersect Behind(f, TopUid(StoredUids(f)))

-----------------------------------------------------------------------------
(***************************************************************************)
(* The sync of a folder.                                                   *)
(***************************************************************************)

\* Mutant: rows from before a new UIDVALIDITY stay.
KeepsOldRows(f) ==
    LET max == TopUid(StoredUids(f)) IN
    /\ sync.at = "idle"
    /\ sync' = [NoSync EXCEPT !.at = IF On(f) # {} THEN "list" ELSE IF max > 0 THEN "compare" ELSE "download",
                              !.folder = f, !.max = max, !.view = IF max = 0 THEN On(f) ELSE {}]
    /\ UNCHANGED <<server, store, call, skipped, events>>

\* SELECT: a new UIDVALIDITY empties the folder's rows; the largest uid says what is new.
SyncStarts(f) ==
    LET kept == [i \in Rows |-> IF i \in Stored(f) /\ known[f] \notin {0, validity[f]} THEN None ELSE rows[i]]
        max == TopUid({kept[i].uid : i \in {i \in Stored(f) : kept[i] # None}})
    IN
    /\ sync.at = "idle"
    /\ rows' = kept
    /\ sync' = [NoSync EXCEPT !.at = IF On(f) # {} THEN "list" ELSE IF max > 0 THEN "compare" ELSE "download",
                              !.folder = f, !.max = max, !.view = IF max = 0 THEN On(f) ELSE {}]
    /\ UNCHANGED <<server, known, call, skipped, events>>

\* Only the newest mails of a folder nothing is stored of.
InReach(u) == sync.max > 0 \/ Cardinality({v \in sync.view : v > u}) < Window

\* Mutant: the listing begins one uid too late.
AsksTooHigh ==
    LET new == {u \in On(sync.folder) : u > sync.max + 1 /\ InReach(u)} IN
    /\ sync.at = "list"
    /\ sync' = [sync EXCEPT !.at = "download", !.todo = new, !.view = {}]
    /\ skipped' = skipped \union Each(sync.folder, {u \in On(sync.folder) : u > sync.max /\ ~InReach(u)})
    /\ UNCHANGED <<server, store, call, events>>

\* Step 1: which new messages exist.
ListAnswer ==
    LET new == {u \in On(sync.folder) : u > sync.max /\ InReach(u)} IN
    /\ sync.at = "list"
    /\ sync' = [sync EXCEPT !.at = "download", !.todo = new, !.view = {}]
    /\ skipped' = skipped \union Each(sync.folder, {u \in On(sync.folder) : u > sync.max /\ ~InReach(u)})
    /\ UNCHANGED <<server, store, call, events>>

\* Step 2: the small ones, newest first, then the large ones.  One that is gone by now is left out.
Download ==
    LET f == sync.folder
        small == {u \in sync.todo : u \notin On(f) \/ box[f][u].mail \notin Large}
        u == Max(IF small # {} THEN small ELSE sync.todo)
    IN
    /\ sync.at = "download" /\ sync.todo # {} /\ CanInsert
    /\ sync' = [sync EXCEPT !.todo = @ \ {u}]
    /\ rows' \in IF u \in On(f) THEN Inserted(f, u) ELSE {rows}
    /\ skipped' = skipped \ {<<f, u>>}
    /\ UNCHANGED <<server, known, call, events>>

\* Step 3: which of the uids it had exist, and how they are flagged.
FlagsAnswer ==
    LET had == {u \in On(sync.folder) : u <= sync.max} IN
    /\ sync.at = "download" /\ sync.todo = {} /\ sync.max > 0
    /\ sync' = [sync EXCEPT !.at = "compare", !.old = had, !.current = {u \in had : box[sync.folder][u].seen}]
    /\ UNCHANGED <<server, store, call, skipped, events>>

\* The folder counts as synced under the UIDVALIDITY the SELECT told.
Synced == sync' = NoSync /\ known' = [known EXCEPT ![sync.folder] = validity[sync.folder]]

\* Rows of the others are dropped, flags that differ are taken over.
Compare ==
    LET had(i) == i \in Stored(sync.folder) /\ rows[i].uid \in 1..sync.max IN
    /\ sync.at = "compare" /\ Synced
    /\ rows' = [i \in Rows |-> IF ~had(i) THEN rows[i]
                               ELSE IF rows[i].uid \notin sync.old THEN None
                               ELSE [rows[i] EXCEPT !.seen = rows[i].uid \in sync.current]]
    /\ UNCHANGED <<server, call, skipped, events>>

\* A folder nothing was stored of has nothing to compare.
Finish ==
    /\ sync.at = "download" /\ sync.todo = {} /\ sync.max = 0 /\ Synced
    /\ UNCHANGED <<server, rows, call, skipped, events>>

\* The connection breaks: what wasn't downloaded yet lies behind what was.
SyncFails ==
    /\ Faults /\ sync.at \in {"list", "download"}
    /\ sync' = NoSync
    /\ skipped' = skipped \union NotComing
    /\ UNCHANGED <<server, store, call, events>>

-----------------------------------------------------------------------------
(***************************************************************************)
(* The calls of the windows.  Requests share one connection, one at a time, *)
(* and those that follow each other keep it.                               *)
(***************************************************************************)

MovesAway(c) == call[c].at \in {"move", "mark", "clean"}
First == [mark |-> "move", clean |-> "move", expunge |-> "destroy", wipe |-> "empty"]
Midway(c) == call[c].at \in DOMAIN First
Connected(c) == \A d \in Calls \ {c} : ~Midway(d)

Is(c, step) == call[c].at = step
GoesOn(c, step) == call' = [call EXCEPT ![c].at = step]
Ends(c) == call' = [call EXCEPT ![c] = NoCall]
Begins(c, op, kind) == Is(c, "idle") /\ kind \in Uses /\ Happens /\ call' = [call EXCEPT ![c] = op]
About(i, at) ==
    [NoCall EXCEPT !.at = at, !.row = i, !.mail = rows[i].mail, !.folder = rows[i].folder,
                   !.uids = {rows[i].uid} \ {0}, !.named = known[rows[i].folder] = validity[rows[i].folder]]
Exists(i) == rows[i] # None

\* set_flags: here first; the server is told where the uid is known.
SetSeen(c, i) ==
    /\ Exists(i)
    /\ rows' = [rows EXCEPT ![i].seen = ~@]
    /\ Begins(c, IF rows[i].uid = 0 THEN NoCall ELSE [About(i, "flag") EXCEPT !.seen = ~rows[i].seen], "seen")
    /\ UNCHANGED <<server, known, sync, skipped>>

FlagCarried(c) ==
    LET f == call[c].folder IN
    /\ Is(c, "flag") /\ Connected(c) /\ Ends(c)
    /\ box' = [box EXCEPT ![f] = [u \in Uids |-> IF u \in call[c].uids \intersect On(f)
                                                THEN [box[f][u] EXCEPT !.seen = call[c].seen] ELSE box[f][u]]]
    /\ UNCHANGED <<next, validity, store, sync, skipped, events>>

\* Mutant: a row that moves keeps its uid.
MoveKeepsUid(c, i, g) ==
    /\ Exists(i) /\ rows[i].folder # g /\ Room(g)
    /\ rows' = [rows EXCEPT ![i].folder = g]
    /\ Begins(c, IF rows[i].uid = 0 THEN NoCall ELSE [About(i, "move") EXCEPT !.to = g], "move")
    /\ UNCHANGED <<server, known, sync, skipped>>

\* move_to: the row moves at once and waits for its uid; the server is told where it had one.
Move(c, i, g) ==
    /\ Exists(i) /\ rows[i].folder # g /\ Room(g)
    /\ rows' = [rows EXCEPT ![i].folder = g, ![i].uid = 0]
    /\ Begins(c, IF rows[i].uid = 0 THEN NoCall ELSE [About(i, "move") EXCEPT !.to = g], "move")
    /\ UNCHANGED <<server, known, sync, skipped>>

\* The uids the call's requests name that are there.
Targets(c) == (IF call[c].at \in {"empty", "wipe"} THEN Uids ELSE call[c].uids) \intersect On(call[c].folder)

MoveCarried(c) ==
    LET f == call[c].folder IN
    /\ Is(c, "move") /\ TRUE \in CanMove /\ Connected(c) /\ Ends(c)
    /\ IF Targets(c) = {} THEN UNCHANGED server
       ELSE \E u \in Targets(c) : Append([box EXCEPT ![f][u] = None], call[c].to, box[f][u])
    /\ UNCHANGED <<store, sync, skipped, events>>

\* Without MOVE: COPY first.
CopyCarried(c) ==
    /\ Is(c, "move") /\ FALSE \in CanMove /\ Connected(c) /\ Happens /\ GoesOn(c, "mark")
    /\ IF Targets(c) = {} THEN UNCHANGED server
       ELSE \E u \in Targets(c) : Append(box, call[c].to, box[call[c].folder][u])
    /\ UNCHANGED <<store, sync, skipped>>

\* STORE \Deleted, of a move, of a delete, or of all there is.
After == [mark |-> "clean", destroy |-> "expunge", empty |-> "wipe"]

MarkCarried(c) ==
    LET f == call[c].folder IN
    /\ call[c].at \in DOMAIN After /\ Connected(c) /\ GoesOn(c, After[call[c].at])
    /\ Is(c, "empty") => Targets(c) # {}
    /\ box' = [box EXCEPT ![f] = [u \in Uids |-> IF u \in Targets(c) THEN [@[u] EXCEPT !.deleted = TRUE] ELSE @[u]]]
    /\ UNCHANGED <<next, validity, store, sync, skipped, events>>

\* The server is done with it.
Answered(c, step) == call' = [call EXCEPT ![c] = [NoCall EXCEPT !.at = step, !.row = call[c].row]]

\* What carries \Deleted goes from the server; a move ends, and leaves what isn't marked any more.
Expunges(c, gone) ==
    LET f == call[c].folder IN
    /\ box' = [box EXCEPT ![f] = [u \in Uids |-> IF u \in gone THEN None ELSE @[u]]]
    /\ \/ Is(c, "clean") /\ Ends(c) /\ skipped' = skipped \union Each(f, Targets(c) \ gone)
       \/ Is(c, "expunge") /\ Answered(c, "drop") /\ UNCHANGED skipped
       \/ Is(c, "wipe") /\ Answered(c, "clear") /\ UNCHANGED skipped
    /\ UNCHANGED <<next, validity, store, sync, events>>

Marked(f) == {u \in On(f) : box[f][u].deleted}
UidExpungeCarried(c) == TRUE \in UidPlus /\ Expunges(c, Targets(c) \intersect Marked(call[c].folder))

\* Without UIDPLUS: whoever marked it.
ExpungeCarried(c) == FALSE \in UidPlus /\ Expunges(c, Marked(call[c].folder))

\* The connection breaks between the requests: all of them once more.
Retries(c) ==
    /\ Faults /\ Midway(c) /\ ~call[c].retried
    /\ MovesAway(c) => Room(call[c].to)
    /\ call' = [call EXCEPT ![c].at = First[@], ![c].retried = TRUE]
    /\ UNCHANGED <<server, store, sync, skipped, events>>

\* delete_forever of a row in the trash; one without a uid is looked up by its Message-ID.
DeleteForever(c, i) ==
    /\ Exists(i) /\ rows[i].folder = Trash
    /\ Begins(c, About(i, IF rows[i].uid = 0 THEN "lookup" ELSE "destroy"), "destroy")
    /\ UNCHANGED <<server, store, sync, skipped>>

LookupAnswer(c) ==
    LET found == {u \in On(Trash) : box[Trash][u].mail = call[c].mail} IN
    /\ Is(c, "lookup") /\ Connected(c)
    /\ IF found = {} THEN Answered(c, "drop")
       ELSE call' = [call EXCEPT ![c].at = "destroy", ![c].uids = found]
    /\ UNCHANGED <<server, store, sync, skipped, events>>

\* Rows that go while the server still has their mail.
Orphaned(gone) == {<<rows[i].folder, rows[i].uid>> : i \in {i \in gone : Exists(i) /\ rows[i].uid \in On(rows[i].folder)}}

DestroyDrops(c) ==
    /\ Is(c, "drop") /\ Ends(c)
    /\ rows' = [rows EXCEPT ![call[c].row] = None]
    /\ skipped' = skipped \union Orphaned({call[c].row})
    /\ UNCHANGED <<server, known, sync, events>>

\* empty_folder: everything the server has in the trash, then everything the store has there.
EmptyTrash(c) ==
    /\ Begins(c, [NoCall EXCEPT !.at = "empty", !.folder = Trash], "empty")
    /\ UNCHANGED <<server, store, sync, skipped>>

NothingToEmpty(c) ==
    /\ Is(c, "empty") /\ Connected(c) /\ Targets(c) = {} /\ Answered(c, "clear")
    /\ UNCHANGED <<server, store, sync, skipped, events>>

EmptyClears(c) ==
    /\ Is(c, "clear") /\ Ends(c)
    /\ rows' = [i \in Rows |-> IF i \in Stored(Trash) THEN None ELSE rows[i]]
    /\ skipped' = skipped \union Orphaned(Stored(Trash))
    /\ UNCHANGED <<server, known, sync, events>>

\* search_folder: what the server finds and the store doesn't have ...
SearchAnswer(c, f, u) ==
    /\ u \in On(f) \ StoredUids(f) /\ Connected(c)
    /\ Begins(c, [NoCall EXCEPT !.at = "found", !.folder = f, !.uids = {u}], "search")
    /\ UNCHANGED <<server, store, sync, skipped>>

\* ... is stored by its headers, ahead of older mail no sync has listed yet.
HeadersStored(c) ==
    LET f == call[c].folder
        u == CHOOSE u \in call[c].uids : TRUE
    IN
    /\ Is(c, "found") /\ Ends(c) /\ CanInsert
    /\ rows' \in IF u \in On(f) THEN Inserted(f, u) ELSE {rows}
    /\ skipped' = IF u \in On(f) THEN (skipped \union (Behind(f, u) \ Each(f, Coming(f)))) \ {<<f, u>>} ELSE skipped
    /\ UNCHANGED <<server, known, sync, events>>

\* The uids a call was about to move away stay where they are, with no row.
NotMoved(c) == IF MovesAway(c) THEN Each(call[c].folder, Targets(c)) ELSE {}

\* The connection breaks twice: the call ends.
CallFails(c) ==
    /\ Faults /\ ~Is(c, "idle") /\ Ends(c)
    /\ skipped' = skipped \union NotMoved(c)
    /\ UNCHANGED <<server, store, sync, events>>

Quit ==
    /\ Faults
    /\ sync' = NoSync /\ call' = [c \in Calls |-> NoCall]
    /\ skipped' = skipped \union NotComing \union UNION {NotMoved(c) : c \in Calls}
    /\ UNCHANGED <<server, store, events>>

-----------------------------------------------------------------------------
\* A folder has some mails already, in any order.
Init ==
    /\ \E first \in Folders, early \in Early : \E order \in [1..Cardinality(early) -> early] :
          /\ \A u, v \in DOMAIN order : order[u] = order[v] => u = v
          /\ box = [f \in Folders |-> [u \in Uids |->
                       IF f = first /\ u \in DOMAIN order THEN [mail |-> order[u], seen |-> FALSE, deleted |-> FALSE]
                       ELSE None]]
          /\ next = [f \in Folders |-> IF f = first THEN Cardinality(early) + 1 ELSE 1]
    /\ validity = [f \in Folders |-> 1]
    /\ rows = [i \in Rows |-> None] /\ known = [f \in Folders |-> 0]
    /\ sync = NoSync /\ call = [c \in Calls |-> NoCall] /\ skipped = {} /\ events = 0

ServerStep ==
    \E f \in Folders :
        \/ \E m \in Mails : Arrives(m, f)
        \/ \E u \in Uids : \/ FlaggedElsewhere(f, u) \/ MarkedElsewhere(f, u) \/ DestroyedElsewhere(f, u)
                           \/ \E g \in Folders : MovedElsewhere(f, u, g)
        \/ Renumbers(f)

SyncStep ==
    \/ \E f \in Folders : SyncStarts(f)
    \/ ListAnswer \/ Download \/ FlagsAnswer \/ Compare \/ Finish \/ SyncFails

CallStep(c) ==
    \/ \E i \in Rows : SetSeen(c, i) \/ DeleteForever(c, i) \/ \E g \in Folders : Move(c, i, g)
    \/ FlagCarried(c) \/ MoveCarried(c) \/ CopyCarried(c) \/ MarkCarried(c) \/ UidExpungeCarried(c)
    \/ ExpungeCarried(c) \/ Retries(c) \/ LookupAnswer(c) \/ DestroyDrops(c)
    \/ EmptyTrash(c) \/ NothingToEmpty(c) \/ EmptyClears(c) \/ HeadersStored(c) \/ CallFails(c)
    \/ \E f \in Folders, u \in Uids : SearchAnswer(c, f, u)

Next == ServerStep \/ SyncStep \/ Quit \/ \E c \in Calls : CallStep(c)

Spec == Init /\ [][Next]_vars

-----------------------------------------------------------------------------
(***************************************************************************)
(* Properties.                                                             *)
(***************************************************************************)

SyncSteps == {"idle", "list", "download", "compare"}
CallSteps ==
    {"idle", "flag", "move", "mark", "clean", "lookup", "destroy", "expunge", "drop", "empty", "wipe", "clear", "found"}

ServerOK ==
    /\ box \in [Folders -> [Uids -> Copy \union {None}]] /\ next \in [Folders -> 1..MaxUid + 1]
    /\ validity \in [Folders -> 1..MaxValidity]
    /\ \A f \in Folders : \A u \in On(f) : u < next[f]
StoreOK ==
    /\ rows \in [Rows -> Row \union {None}] /\ known \in [Folders -> 0..MaxValidity]
    /\ \A f \in Folders : \A i, j \in Stored(f) : rows[i].uid = rows[j].uid /\ rows[i].uid # 0 => i = j
SyncOK ==
    sync \in [at : SyncSteps, folder : Folders, max : 0..MaxUid, view : SUBSET Uids, todo : SUBSET Uids,
              old : SUBSET Uids, current : SUBSET Uids]
CallOK ==
    call \in [Calls -> [at : CallSteps, row : Rows \union {None}, mail : Mails \union {None}, folder : Folders,
                        to : Folders, uids : SUBSET Uids, seen : BOOLEAN, named : BOOLEAN, retried : BOOLEAN]]
CountsOK == skipped \subseteq Folders \X Uids /\ events \in 0..MaxEvents

\* Types; a folder has one row for a uid (the table's UNIQUE), and the uids in use were given out.
TypeOK == ServerOK /\ StoreOK /\ SyncOK /\ CallOK /\ CountsOK

\* Under the UIDVALIDITY the store has of a folder, a row's uid is the uid of its own mail.
UidNames ==
    \A i \in Rows : rows[i] # None /\ rows[i].uid # 0 /\ known[rows[i].folder] = validity[rows[i].folder] =>
        LET copy == box[rows[i].folder][rows[i].uid] IN copy = None \/ copy.mail = rows[i].mail

\* What a call is moving away has no row any more.
Leaving(f) == UNION {call[c].uids : c \in {c \in Calls : MovesAway(c) /\ call[c].folder = f}}

\* "Brings one folder of the local store up to date": a mail is stored, or newer than all that is
\* (the next sync asks for it), or about to be; unless it was skipped.
NothingElseSkipped ==
    \A f \in Folders : known[f] = validity[f] =>
        \A u \in On(f) \ (StoredUids(f) \union Coming(f) \union Leaving(f)) :
            u > TopUid(StoredUids(f)) \/ <<f, u>> \in skipped

\* The same, with nothing skipped.
NothingSkipped ==
    \A f \in Folders : known[f] = validity[f] =>
        \A u \in On(f) \ (StoredUids(f) \union Coming(f) \union Leaving(f)) : u > TopUid(StoredUids(f))

\* A delete that began under the server's UIDVALIDITY marks and expunges no mail but the one it was
\* asked to destroy; without UIDPLUS, what was marked already goes with it.
DestroysWhatWasAsked ==
    [][\A c \in Calls : call[c].named /\ call[c].at \in {"destroy", "expunge"} =>
          \A u \in On(Trash) : box[Trash][u].mail # call[c].mail =>
              /\ MarkCarried(c) \/ UidExpungeCarried(c) => box'[Trash][u] = box[Trash][u]
              /\ ExpungeCarried(c) => box[Trash][u].deleted \/ box'[Trash][u] = box[Trash][u]]_vars

\* The same, on every server.
DestroysNothingElse ==
    [][\A c \in Calls : call[c].named /\ Is(c, "expunge") /\ (UidExpungeCarried(c) \/ ExpungeCarried(c)) =>
          \A u \in On(Trash) : box[Trash][u].mail # call[c].mail => box'[Trash][u] = box[Trash][u]]_vars

\* "They keep a placeholder uid until the target folder syncs": a row without a uid stands for a
\* mail that a call is moving there, or that is there.
PlaceholderStandsForMail ==
    \A i \in Rows : rows[i] # None /\ rows[i].uid = 0 =>
        \/ \E c \in Calls : MovesAway(c) /\ call[c].row = i
        \/ \E u \in On(rows[i].folder) : box[rows[i].folder][u].mail = rows[i].mail

=============================================================================
