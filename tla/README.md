# A TLA+ verification of UwUMail's client

This directory holds TLA+ models of the parts of UwUMail's mail client where
things happen at the same time, break off in the middle, or come back after a
restart: sending later from this device and through the server, the settings
sync, the local copies of JMAP and IMAP mailboxes, sign-ins with rotating
tokens, push subscriptions, and the labels put on mail by themselves. The models
are translated from the source (`src/...` is the repository), checked with TLC
on small instances, and in good part proved with TLAPS for every value of the
constants.

## 1. The system and its parts

UwUMail's engine is the crate `uwumail-core` (Rust, tokio): a local SQLite
store, a task per mailbox that syncs, a task for the outbox, one that labels new
mail, and methods the windows call. The desktop and Android apps are a React
page over it; the page keeps the settings and syncs them itself. Windows call
engine methods concurrently; the engine tells them of changes by events.

| Part | State it keeps | Operations | What is hard about it | Modelled |
|---|---|---|---|---|
| **Outbox** `engine/send_later_ops.rs`, `store/send_later.rs`, `send_later.rs` | table `outbox` (row: time, claimed, held, attempts), the outbox task and its wake-up permit | queue_send, send_later, cancel_send, reschedule, send now, stop, edit; the task: release, take due, nap; a delivery per claimed row; a background removal of the draft | claims against the person's statements, crash with a mail on the wire, lost SMTP answers, Drafts failing, naps and sleep | `Outbox` |
| **Server-held send later** `jmap_scheduled.rs` and the server arms above | on the server: the mail's place and its submissions | submit, new time / send now, stop, edit, each of several requests | lost, late and silent answers; the server sending meanwhile; two clients | `ServerScheduled` |
| **Settings sync** `settingsSyncQueue.ts`, `settingsSync.ts`, `accountSync.ts` | settings, the queue's snapshot and chain, its stored meta (state, pending, refused, synced) | start, change, push, pull and merge, save, retry, restart | awaits in every step, races for the document, first merges, lost answers, quitting | `SettingsSync` (partly) |
| **JMAP mail sync** `jmap_sync.rs`, `engine.rs` | state strings, folders, message rows | mirror mailboxes, changes, full listing, download; flag, move, trash, destroy, empty, search | windows write the rows the sync writes; `cannotCalculateChanges`; breaking off before the state is stored | `JmapSync` (partly) |
| **IMAP mail sync** `imap.rs`, `store.rs`, `engine.rs` | UIDVALIDITY and rows with uids or placeholders | select, list, download, compare; flag, move, destroy, empty, search | uids change meaning, mail that moves loses its uid, newest-first downloads that break, servers that can't move or expunge by uid | `ImapSync` (partly) |
| **Push subscriptions** `engine/push_ops.rs`, `jmap_push.rs` | the stored subscription | subscribe, verify, maintain, renew, unsubscribe | late and lost verifications, new server keys, requests cut off after they were carried out | `Push` |
| **Sign-in and nested mailboxes** `engine.rs` (`credential`), `engine/cloud_ops.rs`, `engine/shared_ops.rs` | refresh tokens, tokens in memory, who is nested under whom | refresh for mail and calendars, sign in again, add, nest, adopt, keep, remove | rotation under one lock, a stop before the new token is saved, removals meanwhile, pairs of writes to the store and the saved sign-ins | `SignIn` (partly) |
| **Labels this device puts on** `engine/assist_ops.rs`, `store/assist.rs`, crate `uwumail-labels` | labels, log, what was learned of senders, the worker's queue | label new mail, "Label now", labels by hand, take back, delete a label, switch ways on and off | choices made from what was read before several awaits; one keyword of two failing; a log that forgets | `AutoLabels` (partly) |
| Snooze `engine/snooze_ops.rs` | a synced setting, the Snoozed folder | snooze, wake | two devices waking one mail; its moves are those above | no, see 5 |
| Verification codes, contacts and calendars | caches | pass-through | little of their own | no |
| Assistant: answers and consent | one consent row | requests to a model | no state across requests | no |
| Message parsing, links, phishing hints; shells, installers | - | - | pure functions over text, or I/O | no |

How they meet. A window calls the engine, which writes the outbox table and
permits the outbox task to wake (`Notify`); the task claims rows and spawns
deliveries; these call SMTP or JMAP, and `save_draft`/`delete_draft` on the
server's Drafts; a scheduled mail's old draft is removed by a task of its own,
concurrently. A mailbox's sync task and the windows' calls write the same rows
of the store: `JmapSync` and `ImapSync` each compose the two, with other devices
changing the server. Every login, of a sync, a window or a calendar, takes its
refresh token under one lock, and nested mailboxes take their account's
(`SignIn`). A push wakes the sync, and lets the page's settings queue look; the
settings queue reaches the server through the engine. The sync hands new inbox
mail to the label worker (`Arrives` in `AutoLabels`), and brings labels that
were changed elsewhere.

`PROJECT.json` lists, under `hazards`, what in this code is hard to test, each
at its line, and under `map` which lines every definition stands for.

## 2. The modules

| Module | What it is |
|---|---|
| `Outbox` | the outbox of one device: table, task, deliveries, windows, Drafts, draft removal, clock, crash |
| `OutboxPromise` | what the outbox promises for each mail, without tasks, rows, drafts, clocks and crashes |
| `OutboxProofs` | theorems: every safety property of `Outbox`, and the refinement of `OutboxPromise` |
| `ServerScheduled` | mails a UwUMail server holds, and the request sequences of the clients |
| `ServerScheduledProofs` | theorems: types; one client never sends a mail twice, and what it tells is so |
| `SettingsSync` | devices, their settings queues, and the server's settings document |
| `SettingsSyncProofs` | theorems: types, and the four properties of `settings_copies` |
| `JmapSync` | a JMAP mailbox: server, store, one sync, the windows' calls |
| `JmapSyncProofs` | theorems: types, and that what differs is still to be reported |
| `ImapSync` | two IMAP folders: server, store, one sync, the windows' calls |
| `ImapSyncProofs` | theorems: types, uids name their mails, deletes, what a sync passes over |
| `SignIn` | refresh tokens, tokens in memory, nested mailboxes, the calls that use and change them |
| `SignInProofs` | theorems: all six properties of `SignIn` |
| `Push` | the push subscription of one account, its server and the push service |
| `PushProofs` | theorems: types, what counts is pushed to, one subscription is kept |
| `AutoLabels` | the label worker, "Label now", labels by hand, their log |
| `AutoLabelsProofs` | theorems: types, a label taken off stays off, at most two labels, the log tells all |
| `MC...`, `*.cfg` | the instances: `MC` modules name sets for TLC, a `.cfg` is a run |

Operators marked `Mutant:` are not part of any behaviour: they are plausible
bugs of the definition after them, used to see that each property would notice.
Variables and fields marked "no action reads it" are history, there for the
properties.

### Outbox

`rows` and `row` are the table; `row[m].wait` is the time until it is due, in
steps of a coarse clock, so that comparing with the current time becomes
`wait = 0`. One action per SQL statement or per stretch of code between two
awaits:

* the person: `QueueSend`, `SendLater`, `CancelSend`, `RescheduleSend`,
  `SendScheduledNow`, `EditScheduled`, and `StopScheduled` followed by
  `StopDraftSaved`/`StopDraftFails` and `StopTakesRow` (the call awaits
  Drafts in between, per window);
* the task: `TaskReleases`, `TaskTakesDue`, `TaskNaps`, `TaskWakes`, with
  tokio's `Notify` as one permit (`wakeup`);
* a delivery: `DeliverHandsOver` to the server, `ServerTakes`, then one of
  `DeliverSent`, `DeliverRetries`, `DeliverGivesUp`, `DeliverBreaksOff`
  (MaybeSent), and what follows each of them;
* the draft removal: `SweepFinds`, `SweepDeletes`, `SweepFails`;
* `Tick`, `ComputerSleeps` (the wall clock goes on, tokio's timers do not),
  `Quit`, `Start`, `RemoveAccount`.

`DiskErrors` says whether local statements may fail where the code only logs
it. History variables (`accepted`, `taken`, `asked`, `warned`, `back`, `swept`,
`slept`) are read by no action.

`OutboxPromise` is the abstract specification: a mail waits, is on its way, is
held or has left; the server may take it only while it is on its way, and one
the server has taken is on its way again only with the person's consent.
`KeepsPromise` in `Outbox` is the refinement (`INSTANCE ... WITH`).

### ServerScheduled

A call (of a window or device) walks through the requests of its operation:
`Submit`; `Look`, `Cancel`, `Check`, then `Create` and `Lookup` (a new time),
`File` (stop) or `Download` and `Destroy` (edit). Each request is answered,
denied, refused, or breaks off: never arrived (`lost`), carried out without an
answer (`silent`), or carried out later (`late`). `Fires` is the server sending
a submission at any time. What the server does (`Accepts`, `Carries`) is
external: RFC 8621 as this client relies on it. `told` is the last word the
person got, and `cut` the mails whose call was cut off in the middle or had a
request carried out late; both are history variables.

### SettingsSync

A device's queue is a chain of steps (`baseline`, `change`, `refresh`, `flush`);
`at` is where the running one awaits: the server (`load`, `push`, `saved`), the
signatures the engine keeps (`baseline`, `change`, `merge`), or their storing
(`apply`). Timers are flags (`flushSoon`, `retrySoon`) that may fire at any
time; the push of another device's write is `pushed`. `meta` is what is stored
between starts. `Edit` is the person; `Quit` and `Start` are the program. A
queued step behind an equal one is left out, as it would find nothing new.
Sending again when the mailbox is back online is the same as the retry timer
firing. The server writes a batch only in the state the client names, and all
of it or nothing (external). `Starts` says which devices may have agreed with
the server before (`agreed`); the others begin with their first merge.

### JmapSync

`srv` and `boxes` are the server's mail and mailboxes, `version` its state and
`touched[e]` the state that last changed a mail: what `Email/changes` reports
(`ChangesAnswer`) are the mails touched after the state it is asked for. `row`,
`folders` and `state` are the store. One sync runs at a time, one action per
answer: `SyncStarts`, `BoxesAnswer`, `Mirror`, then `ChangesAnswer` in one or
more rounds, or `CannotCalculate` and the full listing (`StateAnswer`,
`ListAnswer` per folder, `Listed`, `ExistingAnswer`); then `Apply`, `Download`
per mail and `Finish`, which stores the state. A call of a window writes the
store before its request (`SetSeen`) or after the answer (`MovePlaces`,
`DestroyDrops`, `EmptyClears`, `PreviewStored`). `SyncFails`, `CallFails`,
`FlagFails` and `Quit` break off anywhere. A mail is a mailbox and one keyword.
The sync writes and removes by the ids of the rows it read when it began: `anew`
are the emails whose row was cleared and stored again since, under another id,
which `Apply` leaves alone.
`adrift` notes the mails whose row something left unlike the server although the
server won't report it again (section 3).

### ImapSync

`box[f][u]` is what folder `f` has at uid `u`, `next` the uid it gives out next,
`validity` its UIDVALIDITY. A row has a folder and a uid, 0 for the placeholder
of a mail that was moved and whose new uid nobody told. The sync of a folder is
`SyncStarts` (SELECT; a new UIDVALIDITY drops the rows), `ListAnswer` (uids above
the largest stored; the newest `Window` of an empty folder), `Download` (small
ones newest first, then previews of the large), `FlagsAnswer` and `Compare` for
what was there, or `Finish`. Calls as above, with `Move` writing the row first.
`Renumbers` gives a folder a new UIDVALIDITY.

Each request of a call is one action. A move is `MoveCarried`, or on a server
without MOVE `CopyCarried`, `MarkCarried` and an EXPUNGE; a delete is
`MarkCarried` and an EXPUNGE, emptying the same for all the trash has. The
EXPUNGE is `UidExpungeCarried` with UIDPLUS and `ExpungeCarried` without, which
takes whatever carries `\Deleted`; other devices set and clear that mark too
(`MarkedElsewhere`). `CanMove` and `UidPlus` say what a server may be able to do.
The requests of one call hold the one connection (`Connected`), and a connection
that breaks between them repeats all of them once (`Retries`, `with_session`).
`skipped` notes the uids that no sync will ask for any more; `named` in a call is
history: whether its uids meant under the server's UIDVALIDITY what the store
means by them.

### SignIn

A refresh token is a sign-in (`grant`) and how often it was replaced (`turn`).
`secret` are the saved ones, `mail` and `cloud` the access tokens in memory,
`parent` and `noted` what the store knows of whose mailbox is whose. A login
(`Begins`, `TakesLock`, `Redeems`, `IsRefused`, `Saves`, or `AnswerLost`) holds
the lock from `TakesLock` to its end; `Free` is the lock. The first mail
token of an account also tells whose sign-in it is (`Notes`), and the mailboxes of
that person go under the account (`Nests`, each a write) before their own
sign-ins are deleted (`Drops`, each a write). Signing in again is `Again`,
`AgainSaves` (under the lock), the same two, and `AgainForgets`; a new account is
`Add` (its sign-in) and `AddsRow`. A search is `Search`, then `Finds` (the row) and
`FoundNests` (its parent), or `Adopts` and then `Drops`. Removing is `Remove`, per
mailbox `RemoveAborts`, `RemovesTokens`, `RemovesRow`, `RemovesSecret`, and before it
`Copies`, `Keeps` and `KeptForgets` for those that stay. Other calls come between
any two of these, and `Quit`, which starts again at once. `spoiled` are the sign-ins
whose newest token nobody will save, or that two mailboxes have copies of; `bare`
are the mailboxes left without a sign-in, by a stop between `Finds` and
`FoundNests`, or by a `Drops` that comes after the mailbox got its copy. Both are
history.

### Push

`subs` are the server's subscriptions, `key` the key it signs with, `msgs` what
is on its way through the push service; `given` and `handed` the platform's
endpoint; `record` what UwUMail keeps, and `op` the operation that holds the
lock: `ours` (which there are), `destroy`, `create`, `renew`, `verify`, each
carried out and then answered, or cut off (`Cut`) in between. `Maintain`,
`Subscribe`, `Unsubscribe`, `VerificationArrives` begin one; `ChangeArrives`
takes no lock. `KeyChanges`, `ServerLoses`, `MessageLost` are the world.

Maintaining goes by two times, counted from when the record was made or renewed:
to wait for its verification, and to renew it (`VerificationLost`, `RenewalDue`).
`since` is how many of the two have passed (`TimePasses`), `lost` how many
verifications in a row never came. Each doubles the wait, and from `Patience` of
them on the wait is the longer of the two: then the record is renewed, which
starts both times anew.

### AutoLabels

A runner is the worker or a window's "Label now" (`Applies`). It takes mail
(`TakesBatch`), reads one with what was learned of its sender and decides by the
cheap ways (`Reads`), asks a model about what is in doubt (`Answers`,
`AnswerFails`), puts the labels on the server, all in one request or one by one
(`PutsOn`, `PutFails`), and then notes them in store and log (`Logs`). Entries are
numbered as they came; each new one lets the log forget what is too old (`aged`,
which `Ages` moves on) and what came before the newest `LogKept`. By hand:
`SetsKeyword`, `Undoes`, `Deletes` begin a call, `Sends` or `SendFails` is the
server, `Stores` the store, `Learns` what is learned, `Drops` the label's end.
Which label fits is left open: any that may be chosen may be. `byItself`,
`takenOff`, `notes` (the log with what it has forgotten) and the fields `crossed`
and `unaware` are history.

## 3. What is checked

Passing runs:

| Run | Instance | Properties |
|---|---|---|
| `outbox_later` | 1 scheduled mail with a draft, 2 retries, 1 window, fairness | `TypeOK`, `DeliveryOwnsRow`, `NoOrphanClaim`, `NothingElseLost`, `SleepsNoLonger`, `KeepsOnlyUnsent`, `TakenBackOrSent`, `NeverTwiceUnasked`, `KeepsPromise`, `DueIsClaimed`, `ClaimsEnd` |
| `outbox_undo` | 1 mail with an undo window, 1 scheduled mail with an unreadable row, failing disk | `NothingLost`, `GoesOnlyIfAsked`, `TakenBackNeverGoes` |
| `server_one_call` | 2 mails, 3 submissions, 1 client, every fault, client stops | `NeverTwice`, `ToldScheduledWillGo`, `StoppedNeverGoes`, `PutAwayNeverGoes`, `UnsentIsTold` |
| `settings_copies` | 2 devices, each in agreement or new; a choice with a weaker value and an entry; 3 events, of which 2 edits, a first merge each, and a lost answer, a failing look or a restart | `WritesAreOwed`, `KeepsWhatChangedHere`, `NothingVanishes`, `NeverWeakened` |
| `settings_live` | 2 devices in agreement, entry and signature, 1 edit at any time, 1 fault, 1 restart, fairness | `Converges` |
| `jmap_copy` | 2 mails, one too deep for the first listing, 2 mailboxes, 1 window, 1 state after the first and what the calls add, any request failing, quitting | `StillReported` |
| `imap_copy` | 2 mails, one large, both there at first or none, servers with and without MOVE and UIDPLUS, 3 uids a folder, a window of 1, 1 window with calls, a new UIDVALIDITY, 3 events, breaking connections | `UidNames`, `NothingElseSkipped`, `DestroysWhatWasAsked` |
| `sign_in` | an account and a mailbox, 2 calls, 3 sign-ins, 1 replacement each, lost answers, quitting | `TypeOK`, `NewestIsKept`, `RedeemsNewest`, `EachOpens`, `CalendarsUseSaved`, `ReplacesWhatItRedeemed` |
| `push` | 3 subscription names, 2 server keys, 2 endpoints a key, 2 things that go wrong, a wait longer than the renewal from the first lost verification on (`Patience = 1`), fairness | `CountedIsPushed`, `OneIsKept`, `Heals` |
| `auto_labels` | 1 mail on IMAP, 3 labels (one by rule), a log that keeps 1 entry and any that isn't too old, 1 window with 2 calls, 1 switch, 1 fault | `LogTellsAll`, `AtMostTwo`, `OffStaysOff` |

Runs that end in a violation, each a place where the code does other than what
it says of itself:

| Run | Property | What happens |
|---|---|---|
| `outbox_sweep` | `NothingLost` | schedule a mail with a draft; stop it, which saves the draft again; only now the removal of the old draft looks, finds the new copy and deletes it; the row is gone too |
| `server_twice` | `NeverTwice` | A's cancel is lost, B's works, A reads `canceled` and takes it for its own: both submit again |

### Where a property stops holding

The passing runs leave out what makes their properties false, or the properties
except it by name (`swept`, `cut`, `adrift`, `skipped`, `spoiled`, `bare`, `misled`,
`crossed`, `unaware`, `Forgotten`, `Outlasted`, `Outdated`). Each of these was seen in a trace; changing
what the second column names shows it again. "Stated" properties are in the
modules and belong to no run.

| Property, run | Change | What happens |
|---|---|---|
| `NeverTwiceUnasked`, `outbox_later` | `Windows <- TwoWindows` | window A stops a mail and awaits Drafts; B sends it now; the sending breaks off after the server took it, the row is `unsure`; A's save fails and puts back "not held" (`send_later_ops.rs:393`): it goes again |
| `KeepsOnlyUnsent`, `outbox_later` | `DiskErrors = TRUE` | a local error after the hand-over counts as "not sent" (`engine.rs:1536`), and the mail is kept in Drafts |
| `PutAwayNeverGoes`, `server_one_call` | without `\ cut` | the new submission arrives after the client looked for it and moved the mail to Drafts (`jmap_scheduled.rs:386`) |
| `KeepsWhatChangedHere`, `settings_copies` | `EarlyEdits = TRUE` | a change between `start()` and the baseline's read is taken for old (`settingsSyncQueue.ts:152`) |
| `KeepsWhatChangedHere`, `settings_copies` | a signature among the keys, `k \in Keys`, 3 edits, `MaxEvents = 4` | a signature saved while a merge stores an older one is overwritten (`settingsSyncQueue.ts:275`) |
| `KeepsWhatChangedHere`, `settings_copies` | a signature, `Faults <- Stores`, 3 edits, `MaxTroubles = 2`, `MaxEvents = 5`, `MaxChain = 2` | after a restart a merge takes a setting from the server and the person changes it back meanwhile; storing the merge's signature fails, so the queue still knows the old value, sees nothing new, and the next merge undoes the change (`accountSync.ts:250`) |
| `KeepsWhatChangedHere`, `settings_copies` | in `IsChange`, any value that waits: `Waits(queue[d], meta[d], k) # Same`; 4 edits, `MaxEvents = 5`, `MaxChain = 2` | a change waits and the next one is unnoted when the program quits; a third one after the restart is undone by hand: the queue sees nothing new, and the value that waited goes to the server and comes back (`settingsSyncQueue.ts:169`) |
| `NothingVanishes`, `settings_copies` | a signature, `Faults <- Stores`, 3 edits, `MaxTroubles = 2`, `MaxEvents = 5`, `MaxChain = 2` | a merge after a restart removes a forgotten entry, storing its signature fails: the next look notes that removal as made here, and another device that added the entry meanwhile loses it (`accountSync.ts:250`) |
| `NothingVanishes`, `settings_copies` | without `Forgotten(d)` | an added entry waits unnoted behind a request; after a restart the merge removes it (`settingsSyncQueue.ts:169`); with `EarlyEdits = TRUE` the same happens to one added before the baseline's read |
| `NothingVanishes`, `settings_copies` | `Forgotten(d) == owed[d] \ unsent[d]`; a signature with two values | a forgotten signature is changed again while a merge that removes it stores: it is gone (`settingsSyncQueue.ts:275`) |
| `WritesAreOwed`, `settings_copies` | without `faults > 0 \/ quits > 0` | the answer to a save is lost (or the program quits before it), another device changes the key, the retry undoes that (`settingsSyncQueue.ts:290`) |
| `WritesAreOwed`, `settings_copies` | `Faults <- Stores`, a signature, 3 edits, without the same | settings of a merge are taken, storing its signature fails: the next look takes the server's values for changes made here (`accountSync.ts:250`) |
| `WritesAreOwed`, `settings_copies` | without `d \notin agreed` | two devices hand in a choice at once; the loser overwrites it though nobody touched it there (`settingsSync.ts:624`) |
| `Converges`, `settings_live` | `Faults <- Looks` | reading the signatures fails in `localChanged`: nothing is noted, nothing is retried (`settingsSyncQueue.ts:212`) |
| `Converges`, `settings_live` | `Starts <- AnyAgree` | the first pull fails; an edit's flush succeeds with no state at all, and `succeeded()` clears the retry: the first merge waits for the next start or push (`settingsSyncQueue.ts:303-310`) |
| `UpToDate`, stated in `JmapSync` | add it | a mailbox made while the sync runs is no folder yet: its mail counts as seen and is dropped, until it changes again. `keep` is computed before `Mailbox/get` (`engine.rs:2177`), though the comment there means to spare it, and `jmap_sync.rs:227` promises "up to date" |
| `StillReported`, `jmap_copy` | without `\ adrift` | the same; a first sync that breaks off leaves rows the next first listing doesn't check again (`jmap_sync.rs:236`); the late answer of a move, a lost `set_flags`, a late preview of a search, the end of emptying a folder write a row the server had changed since |
| `NothingSkipped`, stated in `ImapSync` | add it | new mail is downloaded newest first (`imap.rs:550`) and the next sync asks only above the largest uid (`imap.rs:536`): a connection that breaks leaves the older ones out for good, against `imap.rs:511`; the headers a search stores, and a draft's, jump ahead the same way |
| `PlaceholderStandsForMail`, stated in `ImapSync` | add it | a move that fails leaves the placeholder in the target while the mail stays at the source; a mail that is moved again before its new folder synced has no uid to name (`group_by_folder`, `engine.rs:1787`), and stays on the server where it was first moved |
| `DestroysWhatWasAsked`, `imap_copy` | without `named`, `Window = 2` | after a new UIDVALIDITY, before the next sync of the folder, a delete destroys what has that uid now: commands select the folder without looking at it |
| `DestroysNothingElse`, stated in `ImapSync` | add it | without UIDPLUS a delete ends in a plain EXPUNGE, which takes whatever in the folder anybody marked `\Deleted` (`imap.rs:716-717`); a move without MOVE does the same in the folder it leaves (`imap.rs:700`), and so does moving a whole folder's mail (`imap.rs:796`) |
| `EachAlwaysOpens`, stated in `SignIn` | add it | UwUMail stops between `insert_account` and `set_account_parent` (`shared_ops.rs:310-311`): the mailbox has neither a sign-in nor an account until the person signs in to it again. With `Faults = FALSE`: a refresh or a search nests a mailbox, a removal of its account gives it a copy of the sign-in and sets it free (392-393), and the late `secrets.delete` of the first (135, 285) deletes the copy |
| `NewestAlwaysKept`, stated in `SignIn` | add it (`Faults = FALSE` is enough) | removing a shared mailbox aborts its task while it redeems its account's token: the newest is never saved (`engine.rs:664`, against `cloud_ops.rs:5`) |
| `CountedIsAlwaysPushed`, stated in `Push` | add it | a state change of the subscription before arrives while the new one waits for its verification, and marks the new one verified (`push_ops.rs:170`) |
| `AlwaysHeals`, stated in `Push` | add it | from 7 verifications lost in a row the wait for the next (10 minutes doubled 7 times, 21 hours; at most a day) is longer than the 20 hours after which the record is renewed, and renewing starts the wait anew (`jmap_push.rs:128-144`, `push_ops.rs:287-295`): a subscription that was never verified is renewed again and again and never made anew, until the platform hands over another endpoint or the key changes. Where the server lets subscriptions end within a day, 3 lost ones are enough (80 minutes against 1 hour) |
| `LogTellsAll`, `auto_labels` | without `\/ Outdated(e)` | the log forgets entries of more than 400 days and those before the newest 20000 (`assist_ops.rs:1937`): the label stays on the mail and can't be taken back from the log any more |
| `LogTellsAll`, `auto_labels` | `byItself' = byItself` in `PutFails` | on IMAP the second keyword fails: the first is on the mail and in no log (`assist_ops.rs:1541`) |
| `AtMostTwo`, `auto_labels` | without `crossed` | the worker and "Label now" are at one mail, each with room for two |
| `OffStaysOff`, `auto_labels` | without `unaware` | a run that chose a label before it was taken off puts it back on (`assist_ops.rs:1807`) |

More that the models showed and no property names:

* Stopping an `unsure` mail marks it `failed` while Drafts is written, so a stop
  of the program there forgets that it may have gone (`send_later_ops.rs:385`);
  a server-held mail whose cancel worked, but not its answer, stays in Sent
  unsent though the person was told of a failure (`jmap_scheduled.rs:245`).
* `delete_forever` goes by the folder of the row: what another device moved out
  of Trash meanwhile is destroyed with it (`engine.rs:2057`); emptying likewise.
* Placeholder uids are made of the second and an index (`store.rs:1449`), unique
  per folder: two moves into one folder within a second collide, and the loop
  that writes them is no transaction. Flags set on a placeholder are never sent.
* A new UIDVALIDITY before a folder's first sync finished isn't noticed.
* Copies of a sign-in that mailboxes keep share one rotating token. A refresh
  between the removal of an account's tokens and of its secret saves the secret
  again. A mailbox nested while its account is removed has no sign-in.
* An endpoint registered for one server key can be subscribed under the next
  (`Created` notes `known`); a creation that fails within maintenance leaves no
  record until the platform registers again; unsubscribing forgets first, so a
  failing destroy leaves the server pushing.
* A run with an old list, or a hand, puts a label on after its deletion listed the
  mail; its rows in log and senders are orphans, and a later label of the same
  name gets the same keyword. At the limit on remembered senders the blocked ones
  go first (`store/assist.rs:772`, `ORDER BY abs(count)`).

Some of these are known limitations in the repository's own audit
(`docs/security-audit-2026-10-05.md`: SL-8, SL-12, SL-14).

### Bounds, and why they are enough

* **Outbox.** Mails don't share anything but the task and the limit on scheduled
  mails, so one mail shows every interleaving of its own actors, and two show
  the shared task and the limit. Times up to 2 steps distinguish due, next and
  later, and a nap shorter or longer than the wait. Two retries show the first,
  the next and the end of retries.
* **ServerScheduled.** Submission ids are given out once; three let a mail be
  moved twice, which is what it takes for an old submission, a new one and a
  late one to coexist. The state space is finite without further bounds, and
  ends where the ids run out (`CHECK_DEADLOCK FALSE`).
* **SettingsSync.** Keys don't interact but in batches and refusals, so a choice
  and a list entry (or an entry and a signature) are enough; two devices are the
  device and "the others". `MaxEdits`, `MaxFaults`, `MaxQuits` bound what the
  person and the world do, `MaxTroubles` failures and restarts together,
  `MaxEvents` all of it with first merges; `MaxChain` is how many steps may wait;
  `MaxAttempts` is 2 instead of the code's 3, so that few edits use all attempts
  up. A choice has two values and an entry one, there or not. The system stops when
  the edits are used up (`CHECK_DEADLOCK FALSE`). Devices are symmetric.
* **JmapSync.** Mails meet only in listings, pages and the states they share, so
  two are enough: one within and one beyond the first listing. `MaxVersion`
  bounds what others begin; calls that run may take the server's state further.
  A sync can be two states behind and a full listing read with changes between
  its pages.
* **ImapSync.** Three uids let one mail move away and back, or two arrive above a
  stored one, which is what skipping takes. `Window = 1` makes the first listing
  leave something out; `MaxEvents = 3` is an arrival, a move and a call, or a new
  UIDVALIDITY between two of them. A copy counts as an event, as each leaves one
  mail more. Both mails are there at first, or none. Rows are symmetric.
* **SignIn.** Two calls are a refresh and what crosses it. Of three sign-ins one is
  made after the start; one replacement is enough for an old and a new token. A
  search finds or adopts one mailbox. Writes to the database and to the keyring
  are taken to work. The system stops when all mailboxes are removed (`CHECK_DEADLOCK FALSE`).
* **Push.** Three names are the kept one and two left behind by two failures.
  `Patience = 1` stands for the code's seven lost verifications (or three): the
  same happens from there on, and the two failures reach it.
* **AutoLabels.** Three labels are one more than a mail may get. Mails share only
  what was learned of their sender; two mails with two labels on JMAP, and three
  calls, were checked while developing. `LogKept = 1` stands for 20000: the second
  entry pushes the first out. The clock isn't set back; entries made in the same
  second as the oldest one kept may stay (`before` in `Logs`). Calls and faults
  run out, and the worker waits (`CHECK_DEADLOCK FALSE`).

Each module's `TypeOK` was checked while developing, also where no run lists it;
all are proved.

### Fairness

Outbox: the task, every delivery, stop and draft removal, and the clock are
weakly fair: tokio polls every task, and each await has a timeout. Nothing is
assumed of the person, of quitting, or of the computer sleeping. SettingsSync:
the queue that exists goes on (the page's event loop runs its promises and
timers, requests time out); starting, quitting, editing and failing are not
fair. `settings_live` bounds faults, since under failures without end nothing
can arrive. Push: time passes, and an operation that holds the lock goes on
(requests time out);
maintenance, registering, subscribing and reading the session are strongly fair,
because starts and the periodic maintenance come again and again while other
operations may hold the lock in between; a verification somebody waits for
arrives if it stays on its way, and the push service doesn't keep one nobody
waits for forever. What goes wrong is bounded there, as are the server's keys.

## 4. What is proved

For every set of mails and windows, every clock bound and every list of retry
waits (`OutboxProofs`; assumptions: those of `Outbox`):

* `TypesHold`: `Spec => []TypeOK`. `TypeOK` is inductive; one lemma per group of
  actions.
* `DeliveriesOwnTheirRows`: `Spec => []DeliveryOwnsRow`. Not inductive alone: a
  delivery could claim a row that someone else removes, or a row could be
  inserted again for a mail that still is being delivered. `Ownership` adds that
  nothing is delivered before the task released what a stopped program left
  (`QuietBeforeRelease`), that a removed mailbox has no rows
  (`RemovedIsEmpty`), that a mail enters once (`EntersOnce`), and that what was
  handed back is not in the table or on its way (`BackIsOut`).
* `TakenBackStaysBack`: `Spec => TakenBackNeverGoes`, an action property, from
  `BackIsOut`.
* `NoClaimIsOrphaned` and `NapsEndInTime`: `Spec => []NoOrphanClaim` and
  `Spec => []SleepsNoLonger`, assuming `~DiskErrors`. With failing statements both are
  false: a hold that fails leaves its row claimed until the next start, and a
  failed query naps for the full 30 s of `MAX_NAP`, whatever is due before.
* `TakenBackOrWarned` and `OnlyUnsentIsKept`: `Spec => []TakenBackOrSent` and
  `Spec => []KeepsOnlyUnsent`, also with a working disk (section 3 has the trace
  without), from `Out`: what the server took and nobody was warned of has a
  claimed row or none, and its delivery isn't on the way to Drafts. Claimed rows
  can't be taken back, so it isn't.
* `NothingElseIsLost`: `Spec => []NothingElseLost`, whatever fails, from `Safe`: who
  is about to remove a row (a stop in its last step, a delivery that gave up) has
  put the copy in Drafts before, and nothing but the draft's removal takes it
  away. `NothingIsLost`: `Spec => []NothingLost` where no scheduled mail has a
  draft of the composer's (`Keyed \intersect Laters = {}`), as then there is nothing
  to remove; `outbox_sweep` refutes it where one has.
* `GoesAgainOnlyIfAsked` and `NeverGoesTwiceUnasked`, `Spec => []GoesOnlyIfAsked` and
  `Spec => NeverTwiceUnasked`, for one window (`Alone`), from `Consented`: an
  entry that went out and wasn't asked for again neither waits nor is on its way,
  and a stop that would put its row back to "waiting" may (`StopsIdle`). With two
  windows this is false (section 3).
* `PromiseIsKept`: `Spec => KeepsPromise` for one window: `Outbox` implements
  `OutboxPromise`. Each step changes the status of one mail (`OneChanges`,
  `OneLeaves`, `OneResumes`), of the claimed ones at a start (`SomeAreHeld`), or
  of none (`Stutters`); that a resumed mail has the person's consent is
  `Consented`.

How a step may change one row, one delivery and the history of one mail is said
once, in `RowsMove`, `DeliveriesMove`, `NotesMove` and `CallsMove`; the invariants
above follow from those four, not from the actions.

For server-held mail (`ServerScheduledProofs`), for every set of mails,
submissions and faults:

* `TypesHold`: `Spec => []TypeOK`, for any number of clients.
* `OneClientNeverSendsTwice`: with one client, `Spec => []NeverTwice`. The
  assumption is needed: `server_twice` refutes it for two. `NeverTwice` is not
  inductive, as a request may make a submission long after the client gave up on
  it. `OneAtATime` adds what is on its way (`LateIdsAreFree`: ids are given out
  once; `LateOnesAreAlone`: while a new submission may still arrive, its mail has
  no other) and what the call has learned (`Informed`: at `cancel` and `check`
  its submission is the mail's only one; at `create` there is none). Steps that
  make no submission keep all of it (`CalmKeeps`), so only `Submit`, `Create`
  and their late arrivals need an argument of their own.
* `ScheduledWillGo`, `StoppedStays`, `PutAwayStays`, `UnsentIsHeardOf`: the other four
  properties of `server_one_call`, also for one client, from `Told`. The person's
  last word fits the mail (`Heard`) while no call works on it; a call that works
  on it has made sure of its next step (`Stands`: from `create` on nothing of the
  mail goes out, so moving it to Drafts puts away a mail that won't go); and a
  mail put away has nothing going out (`PutAway`). `LateCancels` says that a
  cancellation still under way names its own mail, so it can't stop another's.

For sign-ins (`SignInProofs`), for every set of shared mailboxes and calls and
all bounds, each property of the run `sign_in`:

* `TypesCorrect` from `Base`, types and what the calls hold at each step (`HoldsOK`;
  `AddsOK`: the account being added isn't there yet, and has its sign-in).
* `MailboxesOpen` from `Own`: a mailbox without a parent has a saved sign-in, is being
  inserted, or is `bare` (`OwnOK`), and one that is about to be set free got its copy,
  or lost it to a late delete (`CopiedOK`). Each write is a step of its own, so a
  mailbox that is nested may still have a sign-in, and one that has a copy may still
  be nested; what can't be is a mailbox with neither, but for the named exceptions.
* `KeepsTheNewest`, `RedeemsTheNewest`, `ReplacesOwn` from `Tokens`: besides
  `NewestIsKept` that two mailboxes with one sign-in make it spoiled (`AloneOK`),
  that a sign-in on its way from the browser is nobody's yet (`GrantedOK`), and
  that a call that redeems holds the newest, read from the one place that has it
  (`RedeemingOK`, `AsksOK`, `AnswersOK`). Most steps only lose tokens or calls:
  `Loses` says so of each, and one lemma (`LosesTokens`) does for all of them.
* `CalendarsFollow` from `CalendarsOK`: a calendar token in memory is of the saved
  sign-in, or a call is about to forget it; `Forgets` is to it what `Loses` is to
  `Tokens`.

For push (`PushProofs`), for every finite set of names and all bounds:

* `TypesHold`: `TypeOK`, which also says what an operation that holds the lock may
  rely on: what is verified is the record, what is created has no record beside it.
* `CountedIsPushedHolds` from `Pushed`: once the server took the code, what is noted
  next is true of the server too (`TakenIsPushed`). Most steps keep the record and
  at most lose subscriptions (`PushedLasts`), or leave a record that doesn't count
  (`UncountedIsPushed`).
* `OneIsKeptHolds` from `Counted`: at each step UwUMail means to have certain
  subscriptions there (`Meant`: the record's, the one just created, none between
  destroying and creating), and what the server has beyond them is no more than
  went wrong. It rests on destroying always what the record names (`GoesToo`).

For the JMAP mirror (`JmapSyncProofs`), for every set of emails, mailboxes and
windows and all bounds:

* `TypesHold`: `TypeOK` with what a listing holds at each step (`NewIsListed`,
  `BeginsEmpty`). That `Apply` passes over rows stored anew makes no difference to
  what follows: what it passes over and isn't as on the server is newer, or adrift.
* `DifferencesAreReported`: `Spec => []StillReported`. The property speaks of quiet
  states only; `Reported` is what holds while things run. An email that isn't
  adrift is newer than the stored state or its row is fine: as on the server, or
  with a flag on its way there (`Right`). The same is true of the state a running
  sync will store and of what it holds by then (`Holds`): told by the changes so
  far, to be found in a folder not yet listed, asked about after a reset, or
  waiting for its download. A mailbox that the mirror would drop has no email the
  state counts (`MirrorKnows`), and what is gone doesn't come back (`GoneIsGone`).
  Steps of the server and the calls leave the sync alone, and one lemma
  (`OutsideStep`) does for them: each email stays fine, becomes newer, or is adrift.

For the IMAP copy (`ImapSyncProofs`), for every set of mails and rows, every finite
set of calls, and all bounds, each property of the run `imap_copy`:

* `TypesHold` from `Base`: `TypeOK`, and that no call can make a uid beyond `MaxUid`
  (`HasRoom`: moves under way are counted with the uids given out).
* `UidsNameTheirMails` from `Names`: where the UIDVALIDITY is the server's, or the
  running sync just read it, stored uids were given out and what still has one is
  its row's mail. A step keeps a uid's mail or gives out the next one
  (`CellsMove`), and a row keeps its mail (`RowMoves`).
* `DestroysItsMail`: `Spec => DestroysWhatWasAsked`, from `Asked`, which says the same
  of the uids a delete goes by, from its beginning over the mark to the EXPUNGE and
  through a retry. It says of a plain EXPUNGE only that it takes what is marked.
* `SyncLeavesNothingElse` from `Fresh`: what no row stands for, and nobody is about to
  store or move, is above every stored uid and all the running sync asks for, or
  skipped. It needs `SyncFits` of that sync: it asks for uids that were given out,
  and below its largest everything is among what it compares.

For the settings (`SettingsSyncProofs`), for all devices, keys, values and bounds,
each property of the run `settings_copies`. A step of one device leaves the others
alone but for the server's document (`Elsewhere`), and most steps leave settings
and memory alone (`Quiet`); lemmas say what each of the others does:

* `TypesHold` from `Types`: `TypeOK`, and when a queue holds a snapshot, what it saw
  and what it loaded (`QueueFits`); what is refused doesn't wait, and a choice is
  never removed (`MetaFits`).
* `ProtectionsStay`: `Spec => NeverWeakened`. Settings change by the person, a merge,
  or a signature that is stored, and a merge takes nothing of `Weaker`.
* `ChangesAreKept`: `Spec => KeepsWhatChangedHere`, from `Kept`: but for signatures,
  what the server hasn't had is refused, waits, or differs from the snapshot, so the
  next look finds it. While a merge's signatures are stored, what counts is the
  snapshot and what waits afterwards (`Saw`, `Waits`), which is why they have to be
  stored in the end: it assumes `SignaturesStored` (storing doesn't fail, or there
  are no signatures) and `~EarlyEdits`. Without either it is false (section 3).
* `OnlyOwedIsWritten`: `Spec => WritesAreOwed`, from `Owing`: while nothing failed or
  stopped, at a device that agreed with the server all that waits, and all that a
  look will find changed, is owed, and the snapshot has what waits. Between a merge
  and its stored signatures that holds of the settings as they will be. A choice is
  always on a server that devices agreed with (`ChoicesStay`), so a merge doesn't
  hand one in.
* `NothingIsLost`: `Spec => NothingVanishes`, from `Kept` and `Staying`: what waits to
  be removed, or is missing on the server or here since it was seen, someone removed
  (`OnlyRemoved`); an entry nobody removed is on the server, waits, is refused or is
  owed (`Backed`); a signature unlike what a step read of it is owed, and one a merge
  is about to remove is owed or removed (`SignaturesOwed`). Its assumptions are those
  of `ChangesAreKept`, and needed (section 3).

For labels (`AutoLabelsProofs`), for every finite set of
labels and all mails, senders, windows and bounds, each property of the run
`auto_labels`:

* `TypesHold`: `TypeOK` with a finite log.
* `OffStaysOffHolds` and `AtMostTwoHolds` from `Known`. A run acts on what it read
  several awaits ago, so both need what that says of now: a label it may put on
  and that was taken off is there by a rule or was taken off since (`Wary`), and
  what others put on the mail leaves the room the run counted, unless it is
  crossed (`Roomy`). Pairs taken off are barred in the store, as a call that puts
  the label on again has cleared them before it learns (`PutOnAgain`).
* `LogTellsAllHolds` from `TellsAll`. An entry can be taken back by a call that read
  it long ago, so what is told must be told by an entry nobody is taking back, that
  is in the log or was forgotten as `Outdated` (`Stands`). Entries are numbered as
  they come: a number names one entry (`Numbered`), no call waits with a number
  still to come (`Earlier`), and so no more entries follow one in the log than were
  numbered after it (`SinceCount`): what the log forgets for their number is beyond
  the newest `LogKept`, and stays so (`StaysOutdated`).

Only model-checked: all liveness (`DueIsClaimed`, `ClaimsEnd`, `Converges`,
`Heals`), which is beyond what these proofs can state. Every other property of a
passing run is a theorem.

## 5. What is left out

* The contents of mails, addresses, times as text, limits on sizes; the SMTP
  dialogue before the hand-over, which is one "could not be sent".
* The list `scheduled_sends` only reads; what a window acts on is any entry it
  could have shown.
* In `ServerScheduled`: the upload of the mail and the lookup of the identity
  before a submission, which leave nothing behind; the undo window on the server.
* In `SettingsSync`: switching the account while a step still runs, signatures
  with `cid:` pictures (kept out of the sync), cleaned signature HTML.
* In `JmapSync`: keywords other than one flag, making, renaming and deleting
  folders, drafts, mail in several mailboxes. In `ImapSync`: keywords, the folder
  list, IDLE and the waits of the sync loop, appending drafts; placeholder uids
  are distinct (the collision above is not modelled).
* In `SignIn`: the browser's protocol (`oauth.rs`), passwords, JMAP shares, the
  list of dismissed mailboxes, adding a shared mailbox by its address (its writes
  are those of one that was found), failing writes to database and keyring. In `Push`: other accounts, which share only the
  lock.
* In `AutoLabels`: which label fits (rules, detectors, classifier, prompts);
  corrections and examples, which change only that; the limit on remembered
  senders; the day's limit, which may be reached at any time; creating labels;
  labels that other devices or a UwUMail server put on.
* **Snooze**: a due snooze is a synced setting (`SettingsSync`), and every device
  that sees it looks for the mail in the Snoozed folder and moves it back like
  any other mail (`JmapSync`, `ImapSync`); what isn't there counts as done. The
  dialogue of two devices over one snooze is not modelled.
* **Verification codes, contacts, calendars**: caches of what a server answered
  last, or pass-through. **Assistant answers**: a request to a model and its
  answer; the consent is one row, read right before each request. **Parsing,
  links, phishing hints**: pure functions over large texts, of which a bounded
  check would say little. **Shells and installers**: I/O.

## 6. What could come next

1. Folders made, renamed and deleted in `JmapSync`; account switches in
   `SettingsSync`; snoozes over two devices.
