---------------------------- MODULE SettingsSync ----------------------------
(***************************************************************************)
(* The settings sync: one queue per device (apps/desktop/src/lib/           *)
(* settingsSyncQueue.ts, settingsSync.ts and state/accountSync.ts) that     *)
(* keeps the device's settings and the server's in step.                    *)
(*                                                                         *)
(* Every step of a queue runs after the one before, but each waits in       *)
(* between, for the server or for the signatures the engine keeps.  In the  *)
(* meantime the person changes settings, another device writes, the program *)
(* quits, a request or an answer gets lost.                                 *)
(***************************************************************************)
EXTENDS Integers, Sequences, FiniteSets

CONSTANTS
    Devices,      \* devices of one account
    Keys,         \* settings keys: choices, list entries and signatures
    Lists,        \* those that are list entries: without a value, the entry isn't there
    Signatures,   \* those the engine keeps: reading and storing them waits
    Values,       \* the values each key takes
    None,         \* no value (null in a patch: removes the key)
    Same,         \* not in the patch
    Weaker,       \* <<key, value>>: choices that switch a protection off (WEAKER)
    Refused,      \* keys the server refuses with invalidProperties
    MaxAttempts,  \* MAX_ATTEMPTS
    Starts,       \* sets of devices that agreed with the server before (the others sync for the first time)
    EarlyEdits,   \* whether settings change before the queue has its baseline
    Faults,       \* what fails: "request", "answer", "read", "look", "store", "full"
    MaxEdits, MaxChain,                          \* bounds of the model, and of what goes
    MaxFaults, MaxQuits, MaxTroubles,             \* wrong: failures, restarts, both together
    MaxEvents                                     \* bound of all these, a first merge counting like an edit

ASSUME KeysAssumption == Keys # {} /\ Lists \subseteq Keys /\ Signatures \subseteq Lists /\ Refused \subseteq Keys
ASSUME ValuesAssumption == \A k \in Keys : None \notin Values[k] /\ Same \notin Values[k] \union {None}
ASSUME ChoicesAssumption ==
    /\ (\A w \in Weaker : w[1] \in Keys \ Lists /\ w[2] \in Values[w[1]]) /\ Starts \subseteq SUBSET Devices
    /\ EarlyEdits \in BOOLEAN /\ Faults \subseteq {"request", "answer", "read", "look", "store", "full"}
ASSUME BoundsAssumption ==
    /\ MaxAttempts \in Nat \ {0} /\ MaxEdits \in Nat /\ MaxFaults \in Nat /\ MaxQuits \in Nat /\ MaxTroubles \in Nat
    /\ MaxChain \in Nat \ {0} /\ MaxEvents \in Nat

Held == {None} \union UNION {Values[k] : k \in Keys}
Patches == {p \in [Keys -> Held \union {Same}] : \A k \in Keys : p[k] \in Values[k] \union {None, Same}}
Copies == {p \in Patches : \A k \in Keys : p[k] # Same}
NoPatch == [k \in Keys |-> Same]

VARIABLES
    local,   \* the settings of each device, kept across restarts
    meta,    \* what its queue remembers between starts (SyncMeta)
    queue,   \* the queue itself, gone when the program quits
    values,  \* the server's settings document
    version, \* its state
    pushed   \* the state the server last pushed to each device, if it hasn't been looked at

(***************************************************************************)
(* What an observer notes down, which no action reads, and the counters     *)
(* that bound the model.                                                    *)
(***************************************************************************)
VARIABLES
    unsent,  \* changes a person made on a device that the server hasn't had since
    owed,    \* the same, however long ago and whatever the queue forgot about them
    removed, \* keys a person removed on some device
    agreed,  \* the devices that agreed with the server when it began, one of Starts
    edits, faults, quits

document == <<values, version>>
history == <<unsent, owed, removed, agreed>>
counters == <<edits, faults, quits>>
vars == <<local, meta, queue, document, pushed, history, counters>>

Happens == Cardinality(Devices \ agreed) + edits + faults + quits < MaxEvents

NoVersion == -1
NotYet == NoPatch    \* a snapshot that hasn't been taken

Fresh(at) == [at |-> at, chain |-> <<>>, snapshot |-> NotYet, seen |-> NotYet, loaded |-> NotYet,
              loadedAt |-> 0, next |-> NoPatch, apply |-> NoPatch, answer |-> "none", attempt |-> 1,
              flushSoon |-> FALSE, retrySoon |-> FALSE]

EmptyMeta == [state |-> NoVersion, pending |-> NoPatch, refused |-> {}, synced |-> FALSE]

Patched(copy, patch) == [k \in Keys |-> IF patch[k] = Same THEN copy[k] ELSE patch[k]]
In(patch) == {k \in Keys : patch[k] # Same}

\* enqueue: a step runs when those before it are done.  One behind an equal one that waits
\* too finds what that one leaves, so it is left out.
Enqueue(q, step) ==
    IF q.chain # <<>> /\ q.chain[Len(q.chain)] = step THEN q
    ELSE [q EXCEPT !.chain = Append(q.chain, step)]
HasRoom(d) == Len(queue[d].chain) < MaxChain

Running(d) == queue[d].at \notin {"off", "picking"}

-----------------------------------------------------------------------------
(***************************************************************************)
(* Pure parts: diffValues, mergeWithServer, holdBackWeakening.             *)
(***************************************************************************)

\* Mutant: what isn't there any more goes unnoticed.
DiffWithoutRemovals(before, after) ==
    [k \in Keys |-> IF before[k] = after[k] \/ after[k] = None THEN Same ELSE after[k]]

\* diffValues: what turns one copy into the other.
Diff(before, after) == [k \in Keys |-> IF before[k] = after[k] THEN Same ELSE after[k]]

\* What waits here still has to go, a choice the server misses goes there, and so does a list
\* entry on the first merge.
MergePending(server, here, pending, first, keep) ==
    [k \in Keys |->
        IF k \in keep THEN Same
        ELSE IF pending[k] # Same THEN (IF pending[k] = server[k] THEN Same ELSE pending[k])
        ELSE IF server[k] = None /\ here[k] # None /\ (first \/ k \notin Lists) THEN here[k]
        ELSE Same]

\* Mutant: the first merge removes what the server doesn't have.
RemovesAtFirst(server, here, pending, first, keep) ==
    [k \in Keys |->
        IF k \in keep \/ pending[k] # Same \/ server[k] = here[k] THEN Same
        ELSE IF server[k] # None THEN server[k]
        ELSE IF k \notin Lists THEN Same ELSE None]

\* For the rest the server is right.
MergeApply(server, here, pending, first, keep) ==
    [k \in Keys |->
        IF k \in keep \/ pending[k] # Same \/ server[k] = here[k] THEN Same
        ELSE IF server[k] # None THEN server[k]
        ELSE IF first \/ k \notin Lists THEN Same ELSE None]

\* Mutant: what the server brings is taken as it comes.
TakeAll(patch) == patch

\* holdBackWeakening: of what the server brings, what this device takes.
Take(patch) == [k \in Keys |-> IF <<k, patch[k]>> \in Weaker THEN Same ELSE patch[k]]

-----------------------------------------------------------------------------
(***************************************************************************)
(* The person.                                                             *)
(***************************************************************************)

\* What a queue takes for its last look, and what waits to be sent, once the signatures of a merge
\* are stored.
Saw(q, k) == IF q.at = "apply" /\ q.apply[k] # Same THEN q.apply[k] ELSE q.snapshot[k]
Waits(q, m, k) == IF q.at = "apply" THEN q.next[k] ELSE m.pending[k]

\* Whether a value is a change, as the queue sees it: it isn't what the queue saw here last, or
\* that waits to be sent.
IsChange(d, k, v) ==
    \/ ~Running(d) \/ queue[d].snapshot = NotYet
    \/ v # Saw(queue[d], k)
    \/ Waits(queue[d], meta[d], k) = v /\ queue[d].answer # "ok"

\* A setting changes here; the queue, when there is one, looks at it.  A choice is never removed.
Edit(d, k, v) ==
    /\ queue[d].at # "off" /\ edits < MaxEdits /\ Happens /\ HasRoom(d)
    /\ EarlyEdits \/ (Running(d) /\ queue[d].snapshot # NotYet)
    /\ v # local[d][k] /\ (k \notin Lists => v # None)
    /\ local' = [local EXCEPT ![d][k] = v]
    /\ queue' = IF Running(d) THEN [queue EXCEPT ![d] = Enqueue(queue[d], "change")] ELSE queue
    /\ unsent' = [unsent EXCEPT ![d] = IF IsChange(d, k, v) THEN unsent[d] \union {k} ELSE unsent[d] \ {k}]
    /\ owed' = [owed EXCEPT ![d] = owed[d] \union {k}]
    /\ removed' = IF v = None THEN removed \union {k} ELSE removed
    /\ edits' = edits + 1
    /\ UNCHANGED <<meta, document, pushed, agreed, faults, quits>>

-----------------------------------------------------------------------------
(***************************************************************************)
(* The steps of a queue.                                                   *)
(***************************************************************************)

Moves(d, q) == queue' = [queue EXCEPT ![d] = q]

\* The next step starts once the chain gets to it.
StepStarts(d) ==
    LET q == queue[d] IN
    /\ q.at = "idle" /\ q.chain # <<>>
    /\ Moves(d, [q EXCEPT !.chain = Tail(q.chain), !.attempt = 1,
                          !.at = CASE Head(q.chain) = "baseline" -> "baseline"
                                   [] Head(q.chain) = "change" -> "change"
                                   [] Head(q.chain) = "refresh" -> "load"
                                   [] Head(q.chain) = "flush" -> "push"])
    /\ UNCHANGED <<local, meta, document, pushed, history, counters>>

\* readLocal asks the engine for the signatures first; the settings are read when it answered.
ReadsSignatures(d) ==
    /\ queue[d].at \in {"baseline", "change", "merge"} /\ queue[d].seen = NotYet
    /\ Moves(d, [queue[d] EXCEPT !.seen = local[d]])
    /\ UNCHANGED <<local, meta, document, pushed, history, counters>>

HasRead(d, at) == queue[d].at = at /\ queue[d].seen # NotYet
Now(d) == [k \in Keys |-> IF k \in Signatures THEN queue[d].seen[k] ELSE local[d][k]]

\* What changed here since the last look.
Changes(d) == IF queue[d].snapshot = NotYet THEN NoPatch ELSE Diff(queue[d].snapshot, Now(d))

Captured(d) == [meta[d] EXCEPT !.pending = Patched(meta[d].pending, Changes(d)),
                               !.refused = meta[d].refused \ In(Changes(d))]

\* start: what is here now is the baseline.
TakesBaseline(d) ==
    /\ HasRead(d, "baseline")
    /\ Moves(d, [queue[d] EXCEPT !.at = "idle", !.seen = NotYet, !.snapshot = Now(d)])
    /\ UNCHANGED <<local, meta, document, pushed, history, counters>>

\* localChanged: what changed goes to the queue, and is sent once things settle.
NotesChange(d) ==
    /\ HasRead(d, "change")
    /\ meta' = [meta EXCEPT ![d] = Captured(d)]
    /\ Moves(d, [queue[d] EXCEPT !.at = "idle", !.seen = NotYet, !.snapshot = Now(d),
                                 !.flushSoon = queue[d].flushSoon \/ In(Changes(d)) # {}])
    /\ UNCHANGED <<local, document, pushed, history, counters>>

\* pull: the server's document.
Loads(d) ==
    /\ queue[d].at = "load"
    /\ Moves(d, [queue[d] EXCEPT !.at = "merge", !.loaded = values, !.loadedAt = version])
    /\ UNCHANGED <<local, meta, document, pushed, history, counters>>

\* What the merge leaves in the queue's memory, once this device has stored it.
Merged(d, m, next) ==
    [m EXCEPT !.state = queue[d].loadedAt, !.pending = next, !.synced = TRUE]

\* pull, once the answer and what is here are known: settings are taken at once, and the queue
\* hears of that as of any change; signatures are handed to the engine, which takes its time.
Merges(d) ==
    LET m == Captured(d)
        here == Now(d)
        apply == Take(MergeApply(queue[d].loaded, here, m.pending, ~m.synced, m.refused))
        next == MergePending(queue[d].loaded, here, m.pending, ~m.synced, m.refused)
        later == In(apply) \intersect Signatures
        known == {k \in In(m.pending) : m.pending[k] = queue[d].loaded[k] /\ local[d][k] = here[k]}
        q == IF In(apply) \ Signatures = {} THEN queue[d] ELSE Enqueue(queue[d], "change")
    IN
    /\ HasRead(d, "merge")
    /\ local' = [local EXCEPT ![d] = [k \in Keys |-> IF apply[k] = Same \/ k \in later THEN local[d][k]
                                                     ELSE apply[k]]]
    /\ IF later = {}
       THEN /\ meta' = [meta EXCEPT ![d] = Merged(d, m, next)]
            /\ Moves(d, [q EXCEPT !.at = "push", !.seen = NotYet, !.loaded = NotYet,
                                  !.snapshot = Patched(here, apply)])
       ELSE /\ meta' = [meta EXCEPT ![d] = m]
            /\ Moves(d, [q EXCEPT !.at = "apply", !.seen = NotYet, !.loaded = NotYet,
                                  !.snapshot = here, !.apply = apply, !.next = next])
    /\ unsent' = [unsent EXCEPT ![d] = unsent[d] \ known]
    /\ owed' = [owed EXCEPT ![d] = owed[d] \ known]
    /\ UNCHANGED <<document, pushed, removed, agreed, counters>>

\* ... until it has stored them.
StoresSignatures(d) ==
    LET q == queue[d] IN
    /\ q.at = "apply"
    /\ local' = [local EXCEPT ![d] = [k \in Keys |-> IF q.apply[k] # Same /\ k \in Signatures THEN q.apply[k]
                                                     ELSE local[d][k]]]
    /\ meta' = [meta EXCEPT ![d] = Merged(d, meta[d], q.next)]
    /\ Moves(d, [q EXCEPT !.at = "push", !.snapshot = Patched(q.snapshot, q.apply),
                          !.apply = NoPatch, !.next = NoPatch])
    /\ UNCHANGED <<document, pushed, history, counters>>

\* push, with nothing left to send.
Succeeds(d) ==
    /\ queue[d].at = "push" /\ meta[d].pending = NoPatch
    /\ Moves(d, [queue[d] EXCEPT !.at = "idle", !.retrySoon = FALSE])
    /\ UNCHANGED <<local, meta, document, pushed, history, counters>>

\* The server takes what waits.
Written(d) ==
    LET p == meta[d].pending
        there == {k \in In(p) : local[d][k] = p[k]}
    IN
    /\ values' = Patched(values, p) /\ version' = version + 1
    /\ pushed' = [e \in Devices |-> IF Running(e) THEN version + 1 ELSE pushed[e]]
    /\ unsent' = [unsent EXCEPT ![d] = unsent[d] \ there]
    /\ owed' = [owed EXCEPT ![d] = owed[d] \ there]
    /\ Moves(d, [queue[d] EXCEPT !.at = "saved", !.answer = "ok", !.loadedAt = version + 1])

Turned(d, why) ==
    /\ Moves(d, [queue[d] EXCEPT !.at = "saved", !.answer = why])
    /\ UNCHANGED <<document, pushed, unsent, owed>>

NotLiked(d) == {k \in In(meta[d].pending) \intersect Refused : meta[d].pending[k] # None}

\* push: what waits goes to the server in one batch, which writes it only if nothing else was
\* written since, and only if it likes every key (external).  Its answer is on the way.
Writes(d) ==
    /\ queue[d].at = "push" /\ meta[d].pending # NoPatch
    /\ IF meta[d].state \notin {NoVersion, version} THEN Turned(d, "stateMismatch")
       ELSE IF NotLiked(d) # {} THEN Turned(d, "invalidProperties")
       ELSE Written(d)
    /\ UNCHANGED <<local, meta, removed, agreed, counters>>

\* The step that runs ends here.
Ended(d, retry) ==
    [queue[d] EXCEPT !.at = "idle", !.seen = NotYet, !.loaded = NotYet, !.apply = NoPatch,
                     !.next = NoPatch, !.answer = "none", !.retrySoon = retry]

\* One more attempt; beyond the limit they are all alike.
Again(d, at) == [queue[d] EXCEPT !.at = at, !.answer = "none",
                                 !.attempt = IF queue[d].attempt < MaxAttempts THEN queue[d].attempt + 1
                                             ELSE MaxAttempts]

\* Mutant: what the server took stays queued.
SentButStillPending(d) ==
    /\ queue[d].at = "saved" /\ queue[d].answer = "ok"
    /\ meta' = [meta EXCEPT ![d].state = queue[d].loadedAt]
    /\ Moves(d, Ended(d, FALSE))
    /\ UNCHANGED <<local, document, pushed, history, counters>>

\* sent: no step can have queued anything meanwhile, so the batch is what is pending.
Sent(d) ==
    /\ queue[d].at = "saved" /\ queue[d].answer = "ok"
    /\ meta' = [meta EXCEPT ![d] = [meta[d] EXCEPT !.pending = NoPatch, !.state = queue[d].loadedAt]]
    /\ Moves(d, Again(d, "push"))
    /\ UNCHANGED <<local, document, pushed, history, counters>>

\* Someone else wrote in between: merge and try again, a few times.
LosesRace(d) ==
    /\ queue[d].at = "saved" /\ queue[d].answer = "stateMismatch" /\ queue[d].attempt < MaxAttempts
    /\ Moves(d, Again(d, "load"))
    /\ UNCHANGED <<local, meta, document, pushed, history, counters>>

\* Mutant: refused keys stay queued.
RefusesButKeeps(d) ==
    LET bad == IF queue[d].answer = "overQuota" THEN In(meta[d].pending) ELSE NotLiked(d) IN
    /\ queue[d].at = "saved" /\ queue[d].answer \in {"invalidProperties", "overQuota"}
    /\ meta' = [meta EXCEPT ![d].refused = meta[d].refused \union bad]
    /\ Moves(d, Ended(d, FALSE))
    /\ UNCHANGED <<local, document, pushed, history, counters>>

\* refuse: these keys stay on this device until they change here again.
Refuses(d) ==
    LET bad == IF queue[d].answer = "overQuota" THEN In(meta[d].pending) ELSE NotLiked(d) IN
    /\ queue[d].at = "saved" /\ queue[d].answer \in {"invalidProperties", "overQuota"}
    /\ meta' = [meta EXCEPT ![d] = [meta[d] EXCEPT
                   !.pending = [k \in Keys |-> IF k \in bad THEN Same ELSE meta[d].pending[k]],
                   !.refused = meta[d].refused \union bad]]
    /\ Moves(d, Again(d, "push"))
    /\ UNCHANGED <<local, document, pushed, history, counters>>

\* Room for one more failure or restart.
Trouble == faults + quits < MaxTroubles /\ Happens

Hits(fault) == fault \in Faults /\ faults < MaxFaults /\ Trouble /\ faults' = faults + 1

\* The server has no room, or takes no batch that large.
HasNoRoom(d) ==
    /\ queue[d].at = "push" /\ meta[d].pending # NoPatch /\ Hits("full")
    /\ Turned(d, "overQuota")
    /\ UNCHANGED <<local, meta, removed, agreed, edits, quits>>

\* What a step waits for can fail: a request, its answer, reading what is here, or storing
\* signatures (the settings are taken by then).
Broken(d) ==
    LET q == queue[d] IN
    \/ (q.at = "load" \/ (q.at = "push" /\ meta[d].pending # NoPatch)) /\ Hits("request")
    \/ q.at = "saved" /\ Hits("answer")
    \/ q.at = "merge" /\ q.seen = NotYet /\ Hits("read")
    \/ q.at = "apply" /\ Hits("store")

\* Mutant: nothing is tried again.
FailsForGood(d) ==
    /\ Broken(d) /\ Moves(d, Ended(d, FALSE))
    /\ UNCHANGED <<local, meta, document, pushed, history, edits, quits>>

\* failed: the step ends, and a retry is due.
Fails(d) ==
    /\ Broken(d) /\ Moves(d, Ended(d, TRUE))
    /\ UNCHANGED <<local, meta, document, pushed, history, edits, quits>>

\* enqueue: a look at what is here that fails is passed over.
LookFails(d) ==
    /\ queue[d].at \in {"baseline", "change"} /\ queue[d].seen = NotYet /\ Hits("look")
    /\ Moves(d, Ended(d, queue[d].retrySoon))
    /\ UNCHANGED <<local, meta, document, pushed, history, edits, quits>>

\* So it goes for a write that lost its race for the last time.
GivesUpRace(d) ==
    /\ queue[d].at = "saved" /\ queue[d].answer = "stateMismatch" /\ queue[d].attempt >= MaxAttempts
    /\ Moves(d, Ended(d, TRUE))
    /\ UNCHANGED <<local, meta, document, pushed, history, counters>>

-----------------------------------------------------------------------------
(***************************************************************************)
(* Timers, pushes, and the program stopping and starting.                  *)
(***************************************************************************)

FlushFires(d) ==
    /\ Running(d) /\ queue[d].flushSoon /\ HasRoom(d)
    /\ Moves(d, [Enqueue(queue[d], "flush") EXCEPT !.flushSoon = FALSE])
    /\ UNCHANGED <<local, meta, document, pushed, history, counters>>

RetryFires(d) ==
    /\ Running(d) /\ queue[d].retrySoon /\ HasRoom(d)
    /\ Moves(d, [Enqueue(queue[d], "refresh") EXCEPT !.retrySoon = FALSE])
    /\ UNCHANGED <<local, meta, document, pushed, history, counters>>

\* remoteChanged: our own write's state needs no second look.
IsPushed(d) ==
    /\ Running(d) /\ pushed[d] # NoVersion /\ HasRoom(d)
    /\ pushed' = [pushed EXCEPT ![d] = NoVersion]
    /\ IF pushed[d] = meta[d].state /\ meta[d].pending = NoPatch THEN UNCHANGED queue
       ELSE Moves(d, Enqueue(queue[d], "refresh"))
    /\ UNCHANGED <<local, meta, document, history, counters>>

\* The program quits or is killed: the queue is gone with all it was doing, and nothing
\* tells the next one of changes it hadn't noted yet.
Quit(d) ==
    /\ queue[d].at # "off" /\ quits < MaxQuits /\ Trouble /\ quits' = quits + 1
    /\ Moves(d, Fresh("off"))
    /\ pushed' = [pushed EXCEPT ![d] = NoVersion]
    /\ unsent' = [unsent EXCEPT ![d] =
                     {k \in unsent[d] : k \in meta[d].refused \/ meta[d].pending[k] = local[d][k]}]
    /\ UNCHANGED <<local, meta, document, owed, removed, agreed, edits, faults>>

\* startAccountSync asks which accounts can sync before there is a queue.
Start(d) ==
    /\ queue[d].at = "off" /\ Moves(d, Fresh("picking"))
    /\ UNCHANGED <<local, meta, document, pushed, history, counters>>

QueueStarts(d) ==
    /\ queue[d].at = "picking"
    /\ Moves(d, [Fresh("idle") EXCEPT !.chain = <<"baseline", "refresh">>])
    /\ UNCHANGED <<local, meta, document, pushed, history, counters>>

-----------------------------------------------------------------------------
\* A server with any settings, devices that agree with it, and devices with settings of their
\* own that never synced before.
Init ==
    /\ values \in Copies /\ version = 0 /\ agreed \in Starts
    /\ agreed # {} => \A k \in Keys \ Lists : values[k] # None
    /\ local \in [Devices -> {c \in Copies : \A k \in Keys \ Lists : c[k] # None}]
    /\ \A d \in agreed : local[d] = values
    /\ meta = [d \in Devices |-> IF d \in agreed THEN [EmptyMeta EXCEPT !.state = 0, !.synced = TRUE]
                                 ELSE EmptyMeta]
    /\ queue = [d \in Devices |-> [Fresh("idle") EXCEPT !.chain = <<"baseline", "refresh">>]]
    /\ pushed = [d \in Devices |-> NoVersion]
    /\ unsent = [d \in Devices |-> {}] /\ owed = [d \in Devices |-> {}] /\ removed = {}
    /\ edits = 0 /\ faults = 0 /\ quits = 0

Runs(d) ==
    \/ StepStarts(d) \/ ReadsSignatures(d) \/ TakesBaseline(d) \/ NotesChange(d) \/ Loads(d)
    \/ Merges(d) \/ StoresSignatures(d) \/ Succeeds(d) \/ Writes(d) \/ Sent(d) \/ LosesRace(d)
    \/ Refuses(d) \/ GivesUpRace(d) \/ FlushFires(d) \/ RetryFires(d) \/ IsPushed(d)

Next ==
    \/ \E d \in Devices, k \in Keys : \E v \in Values[k] \union {None} : Edit(d, k, v)
    \/ \E d \in Devices : Runs(d) \/ HasNoRoom(d) \/ Fails(d) \/ LookFails(d) \/ Quit(d) \/ Start(d)
                             \/ QueueStarts(d)

Spec == Init /\ [][Next]_vars

(***************************************************************************)
(* The page's event loop runs every step, timer and push of a queue that is *)
(* there; nothing makes the person edit, a request fail, or the program     *)
(* quit or start.                                                           *)
(***************************************************************************)
FairSpec == Spec /\ \A d \in Devices : WF_vars(Runs(d))

-----------------------------------------------------------------------------
(***************************************************************************)
(* Properties.                                                             *)
(***************************************************************************)

At == {"off", "picking", "idle", "baseline", "change", "load", "merge", "apply", "push", "saved"}
Steps == {"baseline", "change", "refresh", "flush"}

\* Every variable stays within the states the code has for it; a queue that isn't running
\* holds nothing, and what a step noted down is there only while that step runs.
TypeOK ==
    /\ local \in [Devices -> Copies] /\ values \in Copies /\ version \in Nat
    /\ \A d \in Devices :
          /\ meta[d].state \in Nat \union {NoVersion} /\ meta[d].pending \in Patches
          /\ meta[d].refused \subseteq Keys \ In(meta[d].pending)
          /\ queue[d].at \in At /\ queue[d].attempt \in 1 .. MaxAttempts
          /\ \A i \in 1 .. Len(queue[d].chain) : queue[d].chain[i] \in Steps
          /\ queue[d].snapshot \in Copies \union {NotYet}
          /\ (queue[d].loaded # NotYet) = (queue[d].at = "merge")
          /\ (queue[d].answer # "none") = (queue[d].at = "saved")
          /\ ~Running(d) => queue[d].chain = <<>> /\ pushed[d] = NoVersion
    /\ \A k \in Keys \ Lists, d \in Devices : local[d][k] # None

\* A key changed here that the server hasn't had since keeps its value, whatever comes from the
\* server, from other devices or from a restart (mergeWithServer: "a key changed here and not
\* sent yet wins").  Not so a signature: it can change while a merge stores another.
KeepsWhatChangedHere ==
    [][\A d \in Devices, k \in Keys \ Signatures :
          k \in unsent[d] /\ local'[d][k] # local[d][k] => edits' = edits + 1]_vars

\* While requests are answered and the program goes on, a device that agreed with the server
\* changes a key there only if its person changed that key since the server had it last: it
\* never sends back what came from others, never undoes a later change made elsewhere, never
\* brings back what was removed. (A first merge hands in what the server doesn't have.)
WritesAreOwed ==
    [][\A k \in Keys, d \in Devices :
          values'[k] # values[k] /\ queue[d].at = "push" /\ queue'[d].at = "saved" =>
             \/ k \in owed[d]
             \/ d \notin agreed
             \/ faults > 0 \/ quits > 0]_vars

\* Nothing disappears from a device that nobody removed on any device: lists become the union
\* at first, and removals travel only if someone made them.  What is excepted is a change made
\* here that the queue forgot: it was still waiting to be noted when the program quit, or it was
\* made to a signature, which a merge may store over it.
Forgotten(d) == owed[d] \ (unsent[d] \ Signatures)
NothingVanishes ==
    [][\A d \in Devices, k \in Keys :
          local[d][k] # None /\ local'[d][k] = None => k \in removed' \union Forgotten(d)]_vars

\* Whatever the server says, a protection is switched off only by a person on this device.
NeverWeakened ==
    [][\A d \in Devices, k \in Keys :
          local'[d][k] # local[d][k] /\ <<k, local'[d][k]>> \in Weaker => edits' = edits + 1]_vars

\* Once nobody changes anything and requests get through, every device with a queue ends up
\* with what the server has, except for what the server refused and what it can't bring.
Agrees(d) ==
    \A k \in Keys \ meta[d].refused : <<k, values[k]>> \in Weaker \/ local[d][k] = values[k]

Converges == \A d \in Devices : <>[](Running(d) => Agrees(d))

=============================================================================
