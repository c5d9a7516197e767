------------------------- MODULE SettingsSyncProofs -------------------------
(***************************************************************************)
(* Theorems about SettingsSync, for any devices, keys and values: its      *)
(* types, and what a merge, a restart or another device may not do to what *)
(* a person set.                                                           *)
(***************************************************************************)
EXTENDS SettingsSync, TLAPS

-----------------------------------------------------------------------------
(***************************************************************************)
(* Types.                                                                  *)
(***************************************************************************)

Answers == {"none", "ok", "stateMismatch", "invalidProperties", "overQuota"}
Looks == Copies \union {NotYet}

QueueRecord == [at : At, chain : Seq(Steps), snapshot : Looks, seen : Looks, loaded : Looks, loadedAt : Nat,
                next : Patches, apply : Patches, answer : Answers, attempt : 1 .. MaxAttempts,
                flushSoon : BOOLEAN, retrySoon : BOOLEAN]
MetaRecord == [state : Nat \union {NoVersion}, pending : Patches, refused : SUBSET Keys, synced : BOOLEAN]

\* A choice is never removed.
NoChoiceGone(patch) == \A k \in Keys \ Lists : patch[k] # None

\* What a queue noted down is there only while the step that needs it runs, and the baseline
\* is what it begins with.
QueueFits(q) ==
    /\ (q.loaded # NotYet) <=> (q.at = "merge")
    /\ (q.answer # "none") <=> (q.at = "saved")
    /\ q.seen # NotYet => q.at \in {"baseline", "change", "merge"}
    /\ q.at \in {"off", "picking"} => q.chain = <<>> /\ q.snapshot = NotYet
    /\ q.at = "baseline" => q.snapshot = NotYet
    /\ \A i \in 1 .. Len(q.chain) : q.chain[i] = "baseline" => i = 1 /\ q.at = "idle" /\ q.snapshot = NotYet
    /\ q.at = "apply" => q.snapshot # NotYet /\ NoChoiceGone(q.apply) /\ Signatures # {}
    /\ NoChoiceGone(q.snapshot) /\ NoChoiceGone(q.seen)

\* What waits isn't refused.
MetaFits(q, m) ==
    /\ m.refused \intersect In(m.pending) = {} /\ NoChoiceGone(m.pending)
    /\ q.at = "apply" => m.refused \intersect In(q.next) = {} /\ NoChoiceGone(q.next)

Types ==
    /\ local \in [Devices -> Copies] /\ values \in Copies /\ version \in Nat
    /\ meta \in [Devices -> MetaRecord] /\ queue \in [Devices -> QueueRecord]
    /\ pushed \in [Devices -> Nat \union {NoVersion}]
    /\ unsent \in [Devices -> SUBSET Keys] /\ owed \in [Devices -> SUBSET Keys] /\ agreed \subseteq Devices
    /\ edits \in Nat /\ faults \in Nat /\ quits \in Nat
    /\ \A d \in Devices : /\ QueueFits(queue[d]) /\ MetaFits(queue[d], meta[d]) /\ NoChoiceGone(local[d])
                          /\ ~Running(d) => pushed[d] = NoVersion

-----------------------------------------------------------------------------
(***************************************************************************)
(* What the inductive invariants say of a device with the queue q, its     *)
(* memory m, the settings here, and what is unsent or owed there.          *)
(***************************************************************************)

\* What the server hasn't had is refused, waits, or is different from what the queue last saw.
Keeps(q, m, here, mine) ==
    \A k \in mine \ Signatures : \/ k \in m.refused
                                 \/ q.snapshot # NotYet /\ Saw(q, k) # here[k]
                                 \/ Waits(q, m, k) = here[k] /\ q.answer # "ok"

Kept == \A d \in Devices : Keeps(queue[d], meta[d], local[d], unsent[d])

\* As long as nothing fails, what waits and what the queue will see as a change is owed.
OwesPending(q, m, due) ==
    \A k \in Keys : m.pending[k] # Same => (q.answer # "ok" => k \in due) /\ m.pending[k] = q.snapshot[k]
OwesNext(q, due) ==
    \A k \in Keys : q.next[k] # Same => k \in due /\ q.apply[k] = Same /\ q.next[k] = q.snapshot[k]
OwesChanges(q, here, due) ==
    q.snapshot # NotYet => \A k \in Keys :
        (IF q.at = "apply" /\ k \notin Signatures /\ q.apply[k] # Same THEN q.apply[k] ELSE q.snapshot[k]) # here[k]
            => k \in due
OwesSeen(q, here, due) ==
    q.seen # NotYet => \A k \in Signatures :
        q.seen[k] # here[k] \/ (q.snapshot # NotYet /\ q.seen[k] # q.snapshot[k]) => k \in due
Begins(q, m) ==
    q.snapshot = NotYet => /\ m.pending = NoPatch
                           /\ q.at = "baseline" \/ (q.at = "idle" /\ q.chain # <<>> /\ q.chain[1] = "baseline")
Owes(q, m, here, due) ==
    /\ m.synced /\ Begins(q, m) /\ OwesChanges(q, here, due) /\ OwesSeen(q, here, due)
    /\ IF q.at = "apply" THEN OwesNext(q, due) ELSE OwesPending(q, m, due)

ChoicesStay == agreed # {} => /\ NoChoiceGone(values)
                              /\ \A d \in Devices : queue[d].at = "merge" => NoChoiceGone(queue[d].loaded)

Owing == faults = 0 /\ quits = 0 => \A d \in agreed : Owes(queue[d], meta[d], local[d], owed[d])

\* Only what someone removed waits to be removed, or goes missing on the server since it was
\* loaded, or here since a look at it.
OnlyRemoved(q, m, here, there, gone) ==
    \A k \in Keys :
        /\ m.pending[k] = None \/ (q.at = "apply" /\ q.next[k] = None) => k \in gone
        /\ q.at = "merge" /\ q.loaded[k] # None /\ there[k] = None => k \in gone
        /\ q.snapshot # NotYet /\ here[k] = None
              /\ (IF k \in Signatures THEN q.snapshot[k] ELSE Saw(q, k)) # None => k \in gone
        /\ q.seen # NotYet /\ q.seen[k] # None /\ here[k] = None => k \in gone
        /\ q.seen # NotYet /\ q.snapshot # NotYet /\ q.seen[k] = None /\ q.snapshot[k] # None => k \in gone

\* An entry nobody removed is on the server, waits to go there, or is owed to it.
There(q, m, due, there, k) == there[k] # None \/ k \in due \/ k \in m.refused \/ (m.pending[k] # Same /\ q.answer # "ok")
Backed(q, m, here, due, there, gone) ==
    \A k \in Lists \ gone :
        /\ m.synced /\ here[k] # None => There(q, m, due, there, k)
        /\ m.synced /\ here[k] # None /\ q.at = "merge" => There(q, m, due, q.loaded, k)
        /\ q.at = "apply" /\ (IF k \in Signatures /\ q.apply[k] # Same THEN q.apply[k] ELSE here[k]) # None =>
              there[k] # None \/ k \in due \/ k \in m.refused \/ q.next[k] # Same

\* A signature that changed since it was read is owed, and so is one that a merge removes though
\* nobody did.
SignaturesOwed(q, here, due, gone) ==
    \A k \in Signatures : /\ q.seen # NotYet /\ q.seen[k] # here[k] => k \in due
                          /\ q.at = "apply" /\ q.apply[k] = None => k \in due \union gone

Staying == \A d \in Devices : /\ OnlyRemoved(queue[d], meta[d], local[d], values, removed)
                              /\ Backed(queue[d], meta[d], local[d], owed[d], values, removed)
                              /\ SignaturesOwed(queue[d], local[d], owed[d], removed)

-----------------------------------------------------------------------------
(***************************************************************************)
(* Patches and copies.                                                     *)
(***************************************************************************)

LEMMA NoneIsNotSame == None # Same
  BY KeysAssumption, ValuesAssumption

LEMMA IsPatch ==
  ASSUME NEW p, p = [k \in Keys |-> p[k]], \A k \in Keys : p[k] \in Values[k] \union {None, Same}
  PROVE  p \in Patches
<1>1. \A k \in Keys : p[k] \in Held \union {Same}
  BY DEF Held
<1>2. p \in [Keys -> Held \union {Same}]
  BY <1>1
<1> QED
  BY <1>2 DEF Patches

LEMMA IsCopy ==
  ASSUME NEW p, p = [k \in Keys |-> p[k]], \A k \in Keys : p[k] \in Values[k] \union {None}
  PROVE  p \in Copies
<1>1. p \in Patches
  BY IsPatch
<1>2. \A k \in Keys : p[k] # Same
  BY ValuesAssumption
<1> QED
  BY <1>1, <1>2 DEF Copies

LEMMA PatchEntries ==
  ASSUME NEW p \in Patches
  PROVE  /\ p = [k \in Keys |-> p[k]]
         /\ \A k \in Keys : p[k] \in Values[k] \union {None, Same}
  BY DEF Patches

LEMMA CopyEntries ==
  ASSUME NEW p \in Copies
  PROVE  /\ p \in Patches /\ p = [k \in Keys |-> p[k]]
         /\ \A k \in Keys : p[k] \in Values[k] \union {None} /\ p[k] # Same
  BY DEF Patches, Copies

LEMMA NotTaken == NoPatch \in Patches /\ NotYet \in Looks /\ NotYet \notin Copies /\ NotYet = NoPatch
                  /\ NoChoiceGone(NotYet) /\ NoChoiceGone(NoPatch) /\ In(NoPatch) = {}
<1>1. NoPatch \in Patches
  <2>1. NoPatch = [k \in Keys |-> NoPatch[k]] /\ \A k \in Keys : NoPatch[k] = Same
    BY DEF NoPatch
  <2> QED
    BY <2>1, IsPatch
<1>2. NoPatch \notin Copies
  BY KeysAssumption, CopyEntries DEF NoPatch
<1> QED
  BY <1>1, <1>2, NoneIsNotSame DEF NotYet, Looks, NoPatch, NoChoiceGone, In

LEMMA PatchedIsCopy ==
  ASSUME NEW c \in Copies, NEW p \in Patches
  PROVE  Patched(c, p) \in Copies /\ \A k \in Keys : Patched(c, p)[k] = IF p[k] = Same THEN c[k] ELSE p[k]
<1> DEFINE r == Patched(c, p)
<1>1. r = [k \in Keys |-> r[k]] /\ \A k \in Keys : r[k] = IF p[k] = Same THEN c[k] ELSE p[k]
  BY DEF Patched
<1>2. \A k \in Keys : r[k] \in Values[k] \union {None}
  BY <1>1, PatchEntries, CopyEntries
<1> HIDE DEF r
<1>3. r \in Copies
  BY <1>1, <1>2, IsCopy
<1> QED
  BY <1>1, <1>3 DEF r

LEMMA PatchedIsPatch ==
  ASSUME NEW c \in Patches, NEW p \in Patches
  PROVE  Patched(c, p) \in Patches /\ \A k \in Keys : Patched(c, p)[k] = IF p[k] = Same THEN c[k] ELSE p[k]
<1> DEFINE r == Patched(c, p)
<1>1. r = [k \in Keys |-> r[k]] /\ \A k \in Keys : r[k] = IF p[k] = Same THEN c[k] ELSE p[k]
  BY DEF Patched
<1>2. \A k \in Keys : r[k] \in Values[k] \union {None, Same}
  BY <1>1, PatchEntries
<1> HIDE DEF r
<1>3. r \in Patches
  BY <1>1, <1>2, IsPatch
<1> QED
  BY <1>1, <1>3 DEF r

\* diffValues.
LEMMA DiffIsPatch ==
  ASSUME NEW b \in Copies, NEW c \in Copies
  PROVE  Diff(b, c) \in Patches /\ \A k \in Keys : Diff(b, c)[k] = IF b[k] = c[k] THEN Same ELSE c[k]
<1> DEFINE r == Diff(b, c)
<1>1. r = [k \in Keys |-> r[k]] /\ \A k \in Keys : r[k] = IF b[k] = c[k] THEN Same ELSE c[k]
  BY DEF Diff
<1>2. \A k \in Keys : r[k] \in Values[k] \union {None, Same}
  BY <1>1, CopyEntries
<1> HIDE DEF r
<1>3. r \in Patches
  BY <1>1, <1>2, IsPatch
<1> QED
  BY <1>1, <1>3 DEF r

\* mergeWithServer: what is applied here leaves alone what waits, what is refused, and what is
\* the same already; what was there and isn't on the server is removed only after a first merge.
LEMMA ApplyIsPatch ==
  ASSUME NEW s \in Copies, NEW here \in Copies, NEW p \in Patches, NEW first, NEW keep
  PROVE  /\ Take(MergeApply(s, here, p, first, keep)) \in Patches
         /\ \A k \in Keys : Take(MergeApply(s, here, p, first, keep))[k] # Same =>
               /\ k \notin keep /\ p[k] = Same /\ s[k] # here[k]
               /\ Take(MergeApply(s, here, p, first, keep))[k] = s[k]
               /\ s[k] = None => ~first /\ k \in Lists
               /\ <<k, s[k]>> \notin Weaker
         /\ \A k \in Keys \ keep : p[k] = Same /\ s[k] # here[k] /\ s[k] # None /\ <<k, s[k]>> \notin Weaker =>
               Take(MergeApply(s, here, p, first, keep))[k] = s[k]
<1> DEFINE f == MergeApply(s, here, p, first, keep)
           r == Take(f)
<1>1. \A k \in Keys : f[k] = IF k \in keep \/ p[k] # Same \/ s[k] = here[k] THEN Same
                             ELSE IF s[k] # None THEN s[k] ELSE IF first \/ k \notin Lists THEN Same ELSE None
  BY DEF MergeApply
<1> HIDE DEF f
<1>2. r = [k \in Keys |-> r[k]] /\ \A k \in Keys : r[k] = IF <<k, f[k]>> \in Weaker THEN Same ELSE f[k]
  BY DEF Take
<1> HIDE DEF r
<1>3. \A k \in Keys : r[k] \in Values[k] \union {None, Same}
  BY <1>1, <1>2, CopyEntries
<1>4. r \in Patches
  BY <1>2, <1>3, IsPatch
<1>5. \A k \in Keys : r[k] # Same => r[k] = f[k] /\ f[k] # Same /\ <<k, r[k]>> \notin Weaker
  BY <1>2
<1>6. \A k \in Keys : r[k] # Same =>
         /\ k \notin keep /\ p[k] = Same /\ s[k] # here[k] /\ r[k] = s[k] /\ (s[k] = None => ~first /\ k \in Lists)
         /\ <<k, s[k]>> \notin Weaker
  BY <1>1, <1>5
<1>7. \A k \in Keys \ keep : p[k] = Same /\ s[k] # here[k] /\ s[k] # None /\ <<k, s[k]>> \notin Weaker => r[k] = s[k]
  BY <1>1, <1>2
<1> QED
  BY <1>4, <1>6, <1>7 DEF r, f

\* ... and what still goes to the server.
LEMMA PendingIsPatch ==
  ASSUME NEW s \in Copies, NEW here \in Copies, NEW p \in Patches, NEW first, NEW keep
  PROVE  /\ MergePending(s, here, p, first, keep) \in Patches
         /\ \A k \in Keys : MergePending(s, here, p, first, keep)[k] =
               IF k \in keep THEN Same
               ELSE IF p[k] # Same THEN (IF p[k] = s[k] THEN Same ELSE p[k])
               ELSE IF s[k] = None /\ here[k] # None /\ (first \/ k \notin Lists) THEN here[k]
               ELSE Same
<1> DEFINE r == MergePending(s, here, p, first, keep)
<1>1. r = [k \in Keys |-> r[k]] /\ \A k \in Keys : r[k] =
               IF k \in keep THEN Same
               ELSE IF p[k] # Same THEN (IF p[k] = s[k] THEN Same ELSE p[k])
               ELSE IF s[k] = None /\ here[k] # None /\ (first \/ k \notin Lists) THEN here[k]
               ELSE Same
  BY DEF MergePending
<1> HIDE DEF r
<1>2. \A k \in Keys : r[k] \in Values[k] \union {None, Same}
  BY <1>1, PatchEntries, CopyEntries
<1>3. r \in Patches
  BY <1>1, <1>2, IsPatch
<1> QED
  BY <1>1, <1>3 DEF r

\* What a step sees when it read the settings, and what it notes down.
LEMMA Looked ==
  ASSUME Types, NEW d \in Devices, queue[d].seen # NotYet
  PROVE  /\ Now(d) \in Copies /\ NoChoiceGone(Now(d))
         /\ \A k \in Keys : Now(d)[k] = IF k \in Signatures THEN queue[d].seen[k] ELSE local[d][k]
         /\ Changes(d) \in Patches
         /\ \A k \in Keys : Changes(d)[k] = IF queue[d].snapshot = NotYet \/ queue[d].snapshot[k] = Now(d)[k]
                                            THEN Same ELSE Now(d)[k]
<1>1. local[d] \in Copies /\ NoChoiceGone(local[d]) /\ queue[d] \in QueueRecord /\ QueueFits(queue[d])
  BY DEF Types
<1>2. queue[d].seen \in Copies /\ queue[d].snapshot \in Looks
  BY <1>1 DEF QueueRecord, Looks
<1>3. Now(d) = [k \in Keys |-> Now(d)[k]]
      /\ \A k \in Keys : Now(d)[k] = IF k \in Signatures THEN queue[d].seen[k] ELSE local[d][k]
  BY DEF Now
<1>4. \A k \in Keys : Now(d)[k] \in Values[k] \union {None}
  BY <1>1, <1>2, <1>3, CopyEntries
<1>5. Now(d) \in Copies
  BY <1>3, <1>4, IsCopy
<1>6. NoChoiceGone(Now(d))
  BY <1>1, <1>3, KeysAssumption DEF NoChoiceGone
<1>7. Changes(d) \in Patches /\ \A k \in Keys : Changes(d)[k] =
        IF queue[d].snapshot = NotYet \/ queue[d].snapshot[k] = Now(d)[k] THEN Same ELSE Now(d)[k]
  <2>1. CASE queue[d].snapshot = NotYet
    BY <2>1, NotTaken DEF Changes, NoPatch
  <2>2. CASE queue[d].snapshot # NotYet
    <3>1. queue[d].snapshot \in Copies /\ Changes(d) = Diff(queue[d].snapshot, Now(d))
      BY <1>2, <2>2 DEF Looks, Changes
    <3> QED
      BY <1>5, <2>2, <3>1, DiffIsPatch
  <2> QED
    BY <2>1, <2>2
<1> QED
  BY <1>3, <1>5, <1>6, <1>7

LEMMA CapturedIs ==
  ASSUME Types, NEW d \in Devices, queue[d].seen # NotYet
  PROVE  /\ Captured(d) \in MetaRecord /\ NoChoiceGone(Captured(d).pending)
         /\ Captured(d).state = meta[d].state /\ Captured(d).synced = meta[d].synced
         /\ Captured(d).refused = meta[d].refused \ In(Changes(d))
         /\ \A k \in Keys : Captured(d).pending[k] = IF Changes(d)[k] = Same THEN meta[d].pending[k]
                                                     ELSE Changes(d)[k]
         /\ Captured(d).refused \intersect In(Captured(d).pending) = {}
<1>1. meta[d] \in MetaRecord /\ MetaFits(queue[d], meta[d])
  BY DEF Types
<1>2. meta[d].pending \in Patches /\ meta[d].refused \in SUBSET Keys
  BY <1>1 DEF MetaRecord
<1> DEFINE w == Patched(meta[d].pending, Changes(d))
           l == meta[d].refused \ In(Changes(d))
<1>3. w \in Patches /\ \A k \in Keys : w[k] = IF Changes(d)[k] = Same THEN meta[d].pending[k] ELSE Changes(d)[k]
  BY <1>2, Looked, PatchedIsPatch
<1>4. l \in SUBSET Keys
  BY <1>2
<1>5. NoChoiceGone(w)
  BY <1>1, <1>3, Looked DEF NoChoiceGone, MetaFits
<1>6. l \intersect In(w) = {}
  BY <1>1, <1>3 DEF MetaFits, In
<1>7. Captured(d) = [meta[d] EXCEPT !.pending = w, !.refused = l]
  BY DEF Captured
<1> HIDE DEF w, l
<1>8. Captured(d) \in MetaRecord /\ Captured(d).state = meta[d].state /\ Captured(d).synced = meta[d].synced
      /\ Captured(d).refused = l /\ Captured(d).pending = w
  BY <1>1, <1>3, <1>4, <1>7 DEF MetaRecord
<1> QED
  BY <1>3, <1>5, <1>6, <1>8 DEF l

-----------------------------------------------------------------------------
(***************************************************************************)
(* Queues.                                                                 *)
(***************************************************************************)

\* Two queues that know the same of the settings.
Alike(q, r) == /\ q.snapshot = r.snapshot /\ q.seen = r.seen /\ q.loaded = r.loaded
               /\ q.next = r.next /\ q.apply = r.apply

LEMMA EnqueueIs ==
  ASSUME NEW q \in QueueRecord, QueueFits(q), q.at \notin {"off", "picking"}, NEW step \in Steps \ {"baseline"}
  PROVE  /\ Enqueue(q, step) \in QueueRecord /\ QueueFits(Enqueue(q, step))
         /\ Alike(Enqueue(q, step), q) /\ Enqueue(q, step).at = q.at /\ Enqueue(q, step).answer = q.answer
         /\ q.chain # <<>> => Enqueue(q, step).chain # <<>> /\ Enqueue(q, step).chain[1] = q.chain[1]
<1>1. CASE q.chain # <<>> /\ q.chain[Len(q.chain)] = step
  BY <1>1 DEF Enqueue, Alike
<1>2. CASE ~(q.chain # <<>> /\ q.chain[Len(q.chain)] = step)
  <2> DEFINE c == Append(q.chain, step)
             r == [q EXCEPT !.chain = c]
  <2>1. q.chain \in Seq(Steps)
    BY DEF QueueRecord
  <2>2. c \in Seq(Steps) /\ Len(c) = Len(q.chain) + 1 /\ c[Len(q.chain) + 1] = step
        /\ (\A i \in 1 .. Len(q.chain) : c[i] = q.chain[i]) /\ (q.chain # <<>> => c[1] = q.chain[1] /\ c # <<>>)
    BY <2>1
  <2> HIDE DEF c
  <2>3. r \in QueueRecord /\ Alike(r, q) /\ r.at = q.at /\ r.answer = q.answer /\ r.chain = c
    BY <2>2 DEF QueueRecord, Alike
  <2>4. Enqueue(q, step) = r
    BY <1>2 DEF Enqueue, c
  <2> HIDE DEF r
  <2>5. \A i \in 1 .. Len(c) : c[i] = "baseline" => i \in 1 .. Len(q.chain) /\ q.chain[i] = "baseline"
    BY <2>1, <2>2
  <2>6. QueueFits(r)
    BY <2>3, <2>5 DEF QueueFits, Alike
  <2> QED
    BY <2>2, <2>3, <2>4, <2>6
<1> QED
  BY <1>1, <1>2

LEMMA EndedIs ==
  ASSUME Types, NEW d \in Devices, Running(d), NEW retry \in BOOLEAN
  PROVE  /\ Ended(d, retry) \in QueueRecord /\ (queue[d].at # "idle" => QueueFits(Ended(d, retry)))
         /\ Ended(d, retry).at = "idle" /\ Ended(d, retry).snapshot = queue[d].snapshot
         /\ Ended(d, retry).seen = NotYet /\ Ended(d, retry).answer = "none"
<1> DEFINE r == Ended(d, retry)
<1>1. queue[d] \in QueueRecord /\ QueueFits(queue[d])
  BY DEF Types
<1>2. r \in QueueRecord /\ r.at = "idle" /\ r.snapshot = queue[d].snapshot /\ r.seen = NotYet /\ r.loaded = NotYet
      /\ r.answer = "none" /\ r.chain = queue[d].chain
  BY <1>1, NotTaken DEF Ended, QueueRecord, At, Answers
<1> HIDE DEF r
<1>3. queue[d].at # "idle" => QueueFits(r)
  BY <1>1, <1>2, NotTaken DEF QueueFits
<1> QED
  BY <1>2, <1>3 DEF r

LEMMA AgainIs ==
  ASSUME Types, NEW d \in Devices, queue[d].at = "saved", NEW at \in {"push", "load"}
  PROVE  /\ Again(d, at) \in QueueRecord /\ QueueFits(Again(d, at)) /\ Alike(Again(d, at), queue[d])
         /\ Again(d, at).at = at /\ Again(d, at).answer = "none"
<1> DEFINE r == Again(d, at)
           n == IF queue[d].attempt < MaxAttempts THEN queue[d].attempt + 1 ELSE MaxAttempts
<1>1. queue[d] \in QueueRecord /\ QueueFits(queue[d])
  BY DEF Types
<1>2. n \in 1 .. MaxAttempts
  BY <1>1, BoundsAssumption DEF QueueRecord
<1>3. r = [queue[d] EXCEPT !.at = at, !.answer = "none", !.attempt = n]
  BY DEF Again
<1> HIDE DEF n, r
<1>4. r \in QueueRecord /\ r.at = at /\ Alike(r, queue[d]) /\ r.answer = "none" /\ r.chain = queue[d].chain
  BY <1>1, <1>2, <1>3 DEF QueueRecord, At, Answers, Alike
<1>5. QueueFits(r)
  BY <1>1, <1>4 DEF QueueFits, Alike
<1> QED
  BY <1>4, <1>5 DEF r

LEMMA FreshIs ==
  ASSUME NEW at \in {"off", "picking", "idle"}
  PROVE  /\ Fresh(at) \in QueueRecord /\ QueueFits(Fresh(at)) /\ Fresh(at).at = at /\ Fresh(at).chain = <<>>
         /\ Fresh(at).snapshot = NotYet /\ Fresh(at).seen = NotYet /\ Fresh(at).answer = "none"
<1> DEFINE r == Fresh(at)
<1>1. 1 \in 1 .. MaxAttempts /\ <<>> \in Seq(Steps) /\ Len(<<>>) = 0
  BY BoundsAssumption
<1>2. r \in QueueRecord
  BY <1>1, NotTaken DEF Fresh, QueueRecord, At, Answers, Looks
<1>3. r.at = at /\ r.chain = <<>> /\ r.snapshot = NotYet /\ r.seen = NotYet /\ r.loaded = NotYet /\ r.answer = "none"
  BY DEF Fresh
<1> HIDE DEF r
<1>4. QueueFits(r)
  BY <1>1, <1>3, NotTaken DEF QueueFits
<1> QED
  BY <1>2, <1>3, <1>4 DEF r

\* The queue as the program starts it.
LEMMA BeginningIs ==
  /\ [Fresh("idle") EXCEPT !.chain = <<"baseline", "refresh">>] \in QueueRecord
  /\ QueueFits([Fresh("idle") EXCEPT !.chain = <<"baseline", "refresh">>])
  /\ [Fresh("idle") EXCEPT !.chain = <<"baseline", "refresh">>].at = "idle"
  /\ [Fresh("idle") EXCEPT !.chain = <<"baseline", "refresh">>].snapshot = NotYet
  /\ [Fresh("idle") EXCEPT !.chain = <<"baseline", "refresh">>].seen = NotYet
  /\ [Fresh("idle") EXCEPT !.chain = <<"baseline", "refresh">>].answer = "none"
  /\ [Fresh("idle") EXCEPT !.chain = <<"baseline", "refresh">>].chain = <<"baseline", "refresh">>
<1> DEFINE c == <<"baseline", "refresh">>
           r == [Fresh("idle") EXCEPT !.chain = c]
<1>1. c \in Seq(Steps) /\ \A i \in 1 .. Len(c) : c[i] = "baseline" => i = 1
  <2>1. Len(c) = 2 /\ c[1] = "baseline" /\ c[2] = "refresh" /\ c \in Seq(Steps)
    BY DEF Steps
  <2>2. \A i \in 1 .. 2 : i = 1 \/ i = 2
    OBVIOUS
  <2> QED
    BY <2>1, <2>2
<1>2. Fresh("idle") \in QueueRecord /\ Fresh("idle").at = "idle" /\ Fresh("idle").snapshot = NotYet
      /\ Fresh("idle").seen = NotYet /\ Fresh("idle").answer = "none" /\ QueueFits(Fresh("idle"))
  BY FreshIs
<1> HIDE DEF c
<1>3. r \in QueueRecord /\ r.at = "idle" /\ r.snapshot = NotYet /\ r.seen = NotYet /\ r.answer = "none" /\ r.chain = c
      /\ r.loaded = NotYet
  BY <1>1, <1>2 DEF QueueRecord, QueueFits
<1> HIDE DEF r
<1>4. QueueFits(r)
  BY <1>1, <1>2, <1>3, NotTaken DEF QueueFits
<1> QED
  BY <1>3, <1>4 DEF r, c

-----------------------------------------------------------------------------
(***************************************************************************)
(* Steps.                                                                  *)
(***************************************************************************)

Elsewhere(d) == \A e \in Devices \ {d} : /\ queue'[e] = queue[e] /\ meta'[e] = meta[e] /\ local'[e] = local[e]
                                         /\ unsent'[e] = unsent[e] /\ owed'[e] = owed[e]

\* What other steps than a look, a merge or a write do: neither settings nor what the queue
\* remembers change, and unless something fails it goes on with what it knows.
Quiet(d) ==
    /\ Elsewhere(d) /\ UNCHANGED <<local, meta, values, unsent, owed, removed, agreed, edits, quits>>
    /\ queue'[d].snapshot = queue[d].snapshot
    /\ queue'[d].answer = "ok" => queue[d].answer = "ok"
    /\ queue'[d].seen \in {queue[d].seen, NotYet} \/ (queue'[d].seen = local[d] /\ queue[d].at # "apply")
    /\ queue'[d].at = "merge" => queue'[d].loaded = IF queue[d].at = "merge" THEN queue[d].loaded ELSE values
    /\ faults' = faults \/ faults' = faults + 1
    /\ queue'[d].at = "apply" =>
          queue[d].at = "apply" /\ queue'[d].next = queue[d].next /\ queue'[d].apply = queue[d].apply
    /\ queue[d].at = "apply" => queue'[d].at = "apply" \/ ("store" \in Faults /\ faults' # faults)
    /\ faults' = faults =>
          /\ queue'[d].answer = "ok" <=> queue[d].answer = "ok"
          /\ Begins(queue[d], meta[d]) => Begins(queue'[d], meta[d])

\* A step of one device.
LEMMA DeviceMoves ==
  ASSUME Types, NEW d \in Devices, NEW q \in QueueRecord, NEW m \in MetaRecord, NEW c \in Copies,
         QueueFits(q), MetaFits(q, m), NoChoiceGone(c),
         Moves(d, q), meta' = [meta EXCEPT ![d] = m], local' = [local EXCEPT ![d] = c],
         values' \in Copies, version' \in Nat, pushed' \in [Devices -> Nat \union {NoVersion}],
         \A e \in Devices \ {d} : ~Running(e) => pushed'[e] = NoVersion,
         q.at \in {"off", "picking"} => pushed'[d] = NoVersion,
         unsent' \in [Devices -> SUBSET Keys], owed' \in [Devices -> SUBSET Keys], agreed' = agreed,
         edits' \in Nat, faults' \in Nat, quits' \in Nat
  PROVE  Types' /\ queue'[d] = q
<1>1. queue' = [queue EXCEPT ![d] = q] /\ queue' \in [Devices -> QueueRecord]
  BY DEF Moves, Types
<1>2. meta' \in [Devices -> MetaRecord] /\ local' \in [Devices -> Copies]
  BY DEF Types
<1>3. ASSUME NEW e \in Devices
      PROVE  /\ QueueFits(queue'[e]) /\ MetaFits(queue'[e], meta'[e]) /\ NoChoiceGone(local'[e])
             /\ queue'[e].at \in {"off", "picking"} => pushed'[e] = NoVersion
  <2>1. CASE e = d
    BY <1>1, <2>1 DEF Types
  <2>2. CASE e # d
    <3>1. queue'[e] = queue[e] /\ meta'[e] = meta[e] /\ local'[e] = local[e]
      BY <1>1, <2>2 DEF Types
    <3> QED
      BY <2>2, <3>1 DEF Types, Running
  <2> QED
    BY <2>1, <2>2
<1>4. \A e \in Devices : /\ QueueFits(queue[e])' /\ MetaFits(queue[e], meta[e])' /\ NoChoiceGone(local[e])'
                         /\ ~Running(e)' => pushed'[e] = NoVersion
  BY <1>3 DEF QueueFits, MetaFits, NoChoiceGone, Running, In
<1>5. queue'[d] = q
  BY <1>1 DEF Types
<1> QED
  BY <1>1, <1>2, <1>4, <1>5 DEF Types

\* A step that changes only the queue.
LEMMA QueueMoves ==
  ASSUME Types, NEW d \in Devices, NEW q \in QueueRecord, QueueFits(q), Moves(d, q),
         q.at = "apply" => queue[d].at = "apply" /\ q.next = queue[d].next,
         q.at \in {"off", "picking"} => pushed'[d] = NoVersion,
         UNCHANGED <<local, meta, document, unsent, owed, removed, agreed, edits>>,
         pushed' \in [Devices -> Nat \union {NoVersion}], \A e \in Devices \ {d} : pushed'[e] = pushed[e],
         faults' \in Nat, quits' \in Nat
  PROVE  Types' /\ queue'[d] = q /\ Elsewhere(d)
<1>1. /\ meta[d] \in MetaRecord /\ local[d] \in Copies /\ NoChoiceGone(local[d]) /\ MetaFits(queue[d], meta[d])
      /\ meta' = [meta EXCEPT ![d] = meta[d]] /\ local' = [local EXCEPT ![d] = local[d]]
      /\ unsent' \in [Devices -> SUBSET Keys] /\ owed' \in [Devices -> SUBSET Keys] /\ edits' \in Nat
      /\ values' \in Copies /\ version' \in Nat
      /\ \A e \in Devices \ {d} : ~Running(e) => pushed'[e] = NoVersion
  BY DEF Types, document
<1>2. MetaFits(q, meta[d])
  BY <1>1 DEF MetaFits
<1>3. Types' /\ queue'[d] = q
  BY <1>1, <1>2, DeviceMoves
<1>4. Elsewhere(d)
  BY DEF Elsewhere, Moves, Types
<1> QED
  BY <1>3, <1>4

LEMMA SameCounters == ASSUME Types, UNCHANGED <<pushed, history, counters>>
                      PROVE  /\ UNCHANGED <<unsent, owed, removed, agreed, edits, faults, quits, pushed>>
                             /\ pushed' \in [Devices -> Nat \union {NoVersion}] /\ faults' \in Nat /\ quits' \in Nat
                             /\ \A e \in Devices : pushed'[e] = pushed[e]
  BY DEF Types, history, counters

LEMMA StepStartsQuietly == ASSUME Types, NEW d \in Devices, StepStarts(d) PROVE Types' /\ Quiet(d)
<1>1. queue[d] \in QueueRecord /\ QueueFits(queue[d]) /\ queue[d].at = "idle" /\ queue[d].chain # <<>>
  BY DEF Types, StepStarts
<1>2. PICK at : /\ at = CASE Head(queue[d].chain) = "baseline" -> "baseline"
                          [] Head(queue[d].chain) = "change" -> "change"
                          [] Head(queue[d].chain) = "refresh" -> "load"
                          [] Head(queue[d].chain) = "flush" -> "push"
                /\ Moves(d, [queue[d] EXCEPT !.chain = Tail(queue[d].chain), !.attempt = 1, !.at = at])
  BY DEF StepStarts
<1>3. queue[d].chain \in Seq(Steps) /\ Head(queue[d].chain) = queue[d].chain[1] /\ 1 \in 1 .. Len(queue[d].chain)
      /\ Head(queue[d].chain) \in Steps
  BY <1>1 DEF QueueRecord
<1>4. at \in {"baseline", "change", "load", "push"} /\ (at = "baseline" <=> queue[d].chain[1] = "baseline")
  BY <1>2, <1>3 DEF Steps
<1> DEFINE c == Tail(queue[d].chain)
           q == [queue[d] EXCEPT !.chain = c, !.attempt = 1, !.at = at]
<1>5. c \in Seq(Steps) /\ \A i \in 1 .. Len(c) : i + 1 \in 1 .. Len(queue[d].chain) /\ c[i] = queue[d].chain[i + 1] /\ i + 1 # 1
  BY <1>1, <1>3
<1> HIDE DEF c
<1>6. q \in QueueRecord /\ Alike(q, queue[d]) /\ q.at = at /\ q.answer = queue[d].answer /\ q.chain = c
  <2>1. 1 \in 1 .. MaxAttempts /\ at \in At
    BY <1>4, BoundsAssumption DEF At
  <2> QED
    BY <1>1, <1>5, <2>1 DEF QueueRecord, Alike
<1>7. Moves(d, q)
  BY <1>2 DEF c
<1> HIDE DEF q
<1>8. \A i \in 1 .. Len(c) : c[i] # "baseline"
  BY <1>1, <1>5 DEF QueueFits
<1>9. QueueFits(q)
  BY <1>1, <1>3, <1>4, <1>6, <1>8 DEF QueueFits, Alike
<1>10. Types' /\ queue'[d] = q /\ Elsewhere(d)
  BY <1>4, <1>6, <1>7, <1>9, QueueMoves, SameCounters DEF StepStarts
<1>11. Begins(queue[d], meta[d]) => Begins(q, meta[d])
  BY <1>1, <1>4, <1>6 DEF Begins, Alike
<1>12. Quiet(d)
  BY <1>1, <1>4, <1>6, <1>10, <1>11, SameCounters DEF Quiet, Alike, StepStarts, document
<1> QED
  BY <1>10, <1>12

LEMMA ReadsQuietly == ASSUME Types, NEW d \in Devices, ReadsSignatures(d) PROVE Types' /\ Quiet(d)
<1> DEFINE q == [queue[d] EXCEPT !.seen = local[d]]
<1>1. queue[d] \in QueueRecord /\ QueueFits(queue[d]) /\ local[d] \in Copies /\ NoChoiceGone(local[d])
  BY DEF Types
<1>2. q \in QueueRecord /\ q.seen = local[d] /\ q.snapshot = queue[d].snapshot /\ q.at = queue[d].at
      /\ q.loaded = queue[d].loaded /\ q.answer = queue[d].answer /\ q.chain = queue[d].chain
      /\ q.at \in {"baseline", "change", "merge"} /\ Moves(d, q)
  BY <1>1 DEF QueueRecord, Looks, ReadsSignatures
<1> HIDE DEF q
<1>3. QueueFits(q)
  BY <1>1, <1>2 DEF QueueFits
<1>4. Types' /\ queue'[d] = q /\ Elsewhere(d)
  BY <1>2, <1>3, QueueMoves, SameCounters DEF ReadsSignatures
<1>5. Quiet(d)
  BY <1>2, <1>4, SameCounters DEF Quiet, Begins, ReadsSignatures, document
<1> QED
  BY <1>4, <1>5

LEMMA LoadsQuietly == ASSUME Types, NEW d \in Devices, Loads(d) PROVE Types' /\ Quiet(d)
<1> DEFINE q == [queue[d] EXCEPT !.at = "merge", !.loaded = values, !.loadedAt = version]
<1>1. queue[d] \in QueueRecord /\ QueueFits(queue[d]) /\ values \in Copies /\ version \in Nat /\ queue[d].at = "load"
  BY DEF Types, Loads
<1>2. q \in QueueRecord /\ q.seen = queue[d].seen /\ q.snapshot = queue[d].snapshot /\ q.at = "merge"
      /\ q.loaded = values /\ q.answer = queue[d].answer /\ q.chain = queue[d].chain /\ Moves(d, q)
  BY <1>1 DEF QueueRecord, Looks, Loads, At
<1> HIDE DEF q
<1>3. QueueFits(q)
  BY <1>1, <1>2, NotTaken DEF QueueFits
<1>4. Types' /\ queue'[d] = q /\ Elsewhere(d)
  BY <1>2, <1>3, QueueMoves, SameCounters DEF Loads
<1>5. Quiet(d)
  BY <1>1, <1>2, <1>4, SameCounters DEF Quiet, Begins, Loads, document
<1> QED
  BY <1>4, <1>5

LEMMA SucceedsQuietly == ASSUME Types, NEW d \in Devices, Succeeds(d) PROVE Types' /\ Quiet(d)
<1> DEFINE q == [queue[d] EXCEPT !.at = "idle", !.retrySoon = FALSE]
<1>1. queue[d] \in QueueRecord /\ QueueFits(queue[d]) /\ queue[d].at = "push"
  BY DEF Types, Succeeds
<1>2. q \in QueueRecord /\ Alike(q, queue[d]) /\ q.at = "idle" /\ q.answer = queue[d].answer
      /\ q.chain = queue[d].chain /\ Moves(d, q)
  BY <1>1 DEF QueueRecord, Alike, Succeeds, At
<1> HIDE DEF q
<1>3. QueueFits(q)
  BY <1>1, <1>2 DEF QueueFits, Alike
<1>4. Types' /\ queue'[d] = q /\ Elsewhere(d)
  BY <1>2, <1>3, QueueMoves, SameCounters DEF Succeeds
<1>5. Quiet(d)
  BY <1>1, <1>2, <1>4, SameCounters DEF Quiet, Begins, Alike, Succeeds, document
<1> QED
  BY <1>4, <1>5

LEMMA TurnedQuietly ==
  ASSUME Types, NEW d \in Devices, queue[d].at = "push", NEW why \in Answers \ {"none", "ok"}, Turned(d, why),
         UNCHANGED <<local, meta, removed, agreed, edits, quits>>, faults' = faults \/ faults' = faults + 1
  PROVE  Types' /\ Quiet(d)
<1> DEFINE q == [queue[d] EXCEPT !.at = "saved", !.answer = why]
<1>1. queue[d] \in QueueRecord /\ QueueFits(queue[d]) /\ quits \in Nat /\ faults' \in Nat
      /\ pushed \in [Devices -> Nat \union {NoVersion}]
  BY DEF Types
<1>2. q \in QueueRecord /\ Alike(q, queue[d]) /\ q.at = "saved" /\ q.answer = why
      /\ q.chain = queue[d].chain /\ Moves(d, q)
  BY <1>1 DEF QueueRecord, Alike, Turned, At
<1> HIDE DEF q
<1>3. QueueFits(q)
  BY <1>1, <1>2 DEF QueueFits, Alike
<1>4. Types' /\ queue'[d] = q /\ Elsewhere(d)
  BY <1>1, <1>2, <1>3, QueueMoves DEF Turned
<1>5. queue[d].answer = "none"
  BY <1>1 DEF QueueFits
<1>6. Quiet(d)
  BY <1>2, <1>4, <1>5 DEF Quiet, Begins, Alike, Turned, document
<1> QED
  BY <1>4, <1>6

LEMMA AgainQuietly ==
  ASSUME Types, NEW d \in Devices, LosesRace(d) PROVE Types' /\ Quiet(d)
<1> DEFINE q == Again(d, "load")
<1>1. queue[d] \in QueueRecord /\ QueueFits(queue[d]) /\ queue[d].at = "saved" /\ queue[d].answer = "stateMismatch"
  BY DEF Types, LosesRace
<1>2. q \in QueueRecord /\ Alike(q, queue[d]) /\ q.at = "load" /\ q.answer = "none" /\ QueueFits(q) /\ Moves(d, q)
  BY <1>1, AgainIs DEF LosesRace
<1> HIDE DEF q
<1>3. Types' /\ queue'[d] = q /\ Elsewhere(d)
  BY <1>2, QueueMoves, SameCounters DEF LosesRace
<1>4. Quiet(d)
  BY <1>1, <1>2, <1>3, SameCounters DEF Quiet, Begins, Alike, LosesRace, document
<1> QED
  BY <1>3, <1>4

\* A step of the queue ends with nothing done.
LEMMA EndsQuietly ==
  ASSUME Types, NEW d \in Devices, Running(d), queue[d].at # "idle", NEW retry \in BOOLEAN, Moves(d, Ended(d, retry)),
         UNCHANGED <<local, meta, document, pushed, history, edits, quits>>,
         faults' = faults + 1 \/ (faults' = faults /\ queue[d].at = "saved" /\ queue[d].answer # "ok"),
         queue[d].at = "apply" => "store" \in Faults
  PROVE  Types' /\ Quiet(d)
<1> DEFINE q == Ended(d, retry)
<1>1. q \in QueueRecord /\ q.snapshot = queue[d].snapshot /\ q.seen = NotYet /\ q.at = "idle" /\ q.answer = "none"
      /\ QueueFits(q) /\ Moves(d, q)
  BY EndedIs
<1>2. faults \in Nat /\ quits \in Nat /\ pushed \in [Devices -> Nat \union {NoVersion}]
  BY DEF Types
<1> HIDE DEF q
<1>3. Types' /\ queue'[d] = q /\ Elsewhere(d)
  BY <1>1, <1>2, QueueMoves DEF history
<1>4. Quiet(d)
  BY <1>1, <1>2, <1>3 DEF Quiet, Begins, history, document
<1> QED
  BY <1>3, <1>4

\* A timer or a push queues a step.
LEMMA EnqueuesQuietly ==
  ASSUME Types, NEW d \in Devices, NEW r \in QueueRecord, QueueFits(r), Alike(r, queue[d]), r.at = queue[d].at,
         r.answer = queue[d].answer, queue[d].chain # <<>> => r.chain # <<>> /\ r.chain[1] = queue[d].chain[1],
         Moves(d, r), Running(d), UNCHANGED <<local, meta, document, history, counters>>,
         pushed' \in [Devices -> Nat \union {NoVersion}], \A e \in Devices \ {d} : pushed'[e] = pushed[e]
  PROVE  Types' /\ Quiet(d)
<1>1. UNCHANGED <<unsent, owed, removed, agreed, edits, faults, quits>> /\ faults' \in Nat /\ quits' \in Nat
  BY DEF history, counters, Types
<1>2. Types' /\ queue'[d] = r /\ Elsewhere(d)
  BY <1>1, QueueMoves DEF Running, Alike
<1>3. Quiet(d)
  BY <1>1, <1>2 DEF Quiet, Begins, Alike, document
<1> QED
  BY <1>2, <1>3

LEMMA FlushQuietly == ASSUME Types, NEW d \in Devices, FlushFires(d) PROVE Types' /\ Quiet(d)
<1> DEFINE q == Enqueue(queue[d], "flush")
           r == [q EXCEPT !.flushSoon = FALSE]
<1>1. queue[d] \in QueueRecord /\ QueueFits(queue[d]) /\ Running(d) /\ pushed \in [Devices -> Nat \union {NoVersion}]
  BY DEF Types, FlushFires
<1>2. q \in QueueRecord /\ QueueFits(q) /\ Alike(q, queue[d]) /\ q.at = queue[d].at /\ q.answer = queue[d].answer
      /\ (queue[d].chain # <<>> => q.chain # <<>> /\ q.chain[1] = queue[d].chain[1])
  BY <1>1, EnqueueIs DEF Running, Steps
<1> HIDE DEF q
<1>3. r \in QueueRecord /\ Alike(r, q) /\ r.at = q.at /\ r.answer = q.answer /\ r.chain = q.chain
  BY <1>2 DEF QueueRecord, Alike
<1>4. Moves(d, r) /\ UNCHANGED <<local, meta, document, pushed, history, counters>>
  BY DEF FlushFires, q
<1> HIDE DEF r
<1>5. QueueFits(r) /\ Alike(r, queue[d])
  BY <1>2, <1>3 DEF QueueFits, Alike
<1> QED
  BY <1>1, <1>2, <1>3, <1>4, <1>5, EnqueuesQuietly

LEMMA RetryQuietly == ASSUME Types, NEW d \in Devices, RetryFires(d) PROVE Types' /\ Quiet(d)
<1> DEFINE q == Enqueue(queue[d], "refresh")
           r == [q EXCEPT !.retrySoon = FALSE]
<1>1. queue[d] \in QueueRecord /\ QueueFits(queue[d]) /\ Running(d) /\ pushed \in [Devices -> Nat \union {NoVersion}]
  BY DEF Types, RetryFires
<1>2. q \in QueueRecord /\ QueueFits(q) /\ Alike(q, queue[d]) /\ q.at = queue[d].at /\ q.answer = queue[d].answer
      /\ (queue[d].chain # <<>> => q.chain # <<>> /\ q.chain[1] = queue[d].chain[1])
  BY <1>1, EnqueueIs DEF Running, Steps
<1> HIDE DEF q
<1>3. r \in QueueRecord /\ Alike(r, q) /\ r.at = q.at /\ r.answer = q.answer /\ r.chain = q.chain
  BY <1>2 DEF QueueRecord, Alike
<1>4. Moves(d, r) /\ UNCHANGED <<local, meta, document, pushed, history, counters>>
  BY DEF RetryFires, q
<1> HIDE DEF r
<1>5. QueueFits(r) /\ Alike(r, queue[d])
  BY <1>2, <1>3 DEF QueueFits, Alike
<1> QED
  BY <1>1, <1>2, <1>3, <1>4, <1>5, EnqueuesQuietly

LEMMA PushedQuietly == ASSUME Types, NEW d \in Devices, IsPushed(d) PROVE Types' /\ Quiet(d)
<1>1. queue[d] \in QueueRecord /\ QueueFits(queue[d]) /\ Running(d) /\ pushed' \in [Devices -> Nat \union {NoVersion}]
      /\ (\A e \in Devices \ {d} : pushed'[e] = pushed[e]) /\ queue \in [Devices -> QueueRecord]
  BY DEF Types, IsPushed
<1>2. UNCHANGED <<local, meta, document, history, counters>>
  BY DEF IsPushed
<1>3. CASE UNCHANGED queue
  BY <1>1, <1>2, <1>3, EnqueuesQuietly DEF Moves, Alike
<1>4. CASE Moves(d, Enqueue(queue[d], "refresh"))
  <2> DEFINE q == Enqueue(queue[d], "refresh")
  <2>1. q \in QueueRecord /\ QueueFits(q) /\ Alike(q, queue[d]) /\ q.at = queue[d].at /\ q.answer = queue[d].answer
        /\ (queue[d].chain # <<>> => q.chain # <<>> /\ q.chain[1] = queue[d].chain[1])
    BY <1>1, EnqueueIs DEF Running, Steps
  <2> HIDE DEF q
  <2>2. Moves(d, q)
    BY <1>4 DEF q
  <2> QED
    BY <1>1, <1>2, <2>1, <2>2, EnqueuesQuietly
<1> QED
  BY <1>3, <1>4 DEF IsPushed

LEMMA FailsQuietly ==
  ASSUME Types, NEW d \in Devices, Fails(d) \/ LookFails(d) \/ GivesUpRace(d) PROVE Types' /\ Quiet(d)
<1>1. queue[d] \in QueueRecord
  BY DEF Types
<1>2. CASE Fails(d)
  <2>1. queue[d].at \in {"load", "push", "saved", "merge", "apply"} /\ faults' = faults + 1
        /\ (queue[d].at = "apply" => "store" \in Faults)
    BY <1>2 DEF Fails, Broken, Hits
  <2>2. Running(d) /\ queue[d].at # "idle"
    BY <2>1 DEF Running
  <2> QED
    BY <1>2, <2>1, <2>2, EndsQuietly DEF Fails
<1>3. CASE LookFails(d)
  <2>1. queue[d].at \in {"baseline", "change"} /\ faults' = faults + 1 /\ queue[d].retrySoon \in BOOLEAN
    BY <1>1, <1>3 DEF LookFails, Hits, QueueRecord
  <2>2. Running(d) /\ queue[d].at # "idle"
    BY <2>1 DEF Running
  <2> QED
    BY <1>3, <2>1, <2>2, EndsQuietly DEF LookFails
<1>4. CASE GivesUpRace(d)
  <2>1. queue[d].at = "saved" /\ queue[d].answer # "ok" /\ UNCHANGED <<edits, faults, quits>>
    BY <1>4 DEF GivesUpRace, counters
  <2>2. Running(d) /\ queue[d].at # "idle"
    BY <2>1 DEF Running
  <2> QED
    BY <1>4, <2>1, <2>2, EndsQuietly DEF GivesUpRace
<1> QED
  BY <1>2, <1>3, <1>4

LEMMA StartQuietly ==
  ASSUME Types, NEW d \in Devices, Start(d) \/ QueueStarts(d) PROVE Types' /\ Quiet(d)
<1>1. /\ queue[d].at \in {"off", "picking"} /\ pushed[d] = NoVersion /\ queue[d].snapshot = NotYet
      /\ queue[d].answer = "none" /\ pushed \in [Devices -> Nat \union {NoVersion}]
  BY DEF Types, Running, Start, QueueStarts, QueueFits
<1>2. /\ UNCHANGED <<unsent, owed, removed, agreed, edits, faults, quits, pushed, local, meta, document>>
      /\ faults' \in Nat /\ quits' \in Nat
  BY DEF Types, history, counters, Start, QueueStarts
<1>3. CASE Start(d)
  <2> DEFINE q == Fresh("picking")
  <2>1. q \in QueueRecord /\ QueueFits(q) /\ q.at = "picking" /\ q.snapshot = NotYet /\ q.seen = NotYet
        /\ q.answer = "none" /\ Moves(d, q)
    BY <1>3, FreshIs DEF Start
  <2> HIDE DEF q
  <2>2. Types' /\ queue'[d] = q /\ Elsewhere(d)
    BY <1>1, <1>2, <2>1, QueueMoves
  <2> QED
    BY <1>1, <1>2, <2>1, <2>2 DEF Quiet, Begins, document
<1>4. CASE QueueStarts(d)
  <2> DEFINE q == [Fresh("idle") EXCEPT !.chain = <<"baseline", "refresh">>]
  <2>1. q \in QueueRecord /\ QueueFits(q) /\ q.at = "idle" /\ q.snapshot = NotYet /\ q.seen = NotYet
        /\ q.answer = "none" /\ q.chain = <<"baseline", "refresh">>
    BY BeginningIs
  <2>2. Moves(d, q)
    BY <1>4 DEF QueueStarts
  <2>3. q.chain # <<>> /\ q.chain[1] = "baseline"
    BY <2>1
  <2> HIDE DEF q
  <2>4. Types' /\ queue'[d] = q /\ Elsewhere(d)
    BY <1>1, <1>2, <2>1, <2>2, QueueMoves
  <2> QED
    BY <1>1, <1>2, <2>1, <2>3, <2>4 DEF Quiet, Begins, document
<1> QED
  BY <1>3, <1>4

\* What a change by the person does.
Edited(d, k, v) ==
    /\ Elsewhere(d)
    /\ Alike(queue'[d], queue[d]) /\ queue'[d].at = queue[d].at /\ queue'[d].answer = queue[d].answer
    /\ Begins(queue[d], meta[d]) => Begins(queue'[d], meta[d])
    /\ meta' = meta /\ \A e \in Keys : local'[d][e] = IF e = k THEN v ELSE local[d][e]
    /\ unsent'[d] = IF IsChange(d, k, v) THEN unsent[d] \union {k} ELSE unsent[d] \ {k}
    /\ owed'[d] = owed[d] \union {k} /\ removed' = IF v = None THEN removed \union {k} ELSE removed
    /\ UNCHANGED <<values, agreed, faults, quits>> /\ edits' = edits + 1
    /\ EarlyEdits \/ (Running(d) /\ queue[d].snapshot # NotYet)

LEMMA EditDoes ==
  ASSUME Types, NEW d \in Devices, NEW k \in Keys, NEW v \in Values[k] \union {None}, Edit(d, k, v)
  PROVE  Types' /\ Edited(d, k, v)
<1>1. /\ queue[d] \in QueueRecord /\ QueueFits(queue[d]) /\ local[d] \in Copies /\ NoChoiceGone(local[d])
      /\ queue \in [Devices -> QueueRecord] /\ meta[d] \in MetaRecord /\ MetaFits(queue[d], meta[d])
      /\ meta = [meta EXCEPT ![d] = meta[d]] /\ edits \in Nat /\ faults \in Nat /\ quits \in Nat
      /\ pushed \in [Devices -> Nat \union {NoVersion}] /\ \A e \in Devices : ~Running(e) => pushed[e] = NoVersion
      /\ unsent \in [Devices -> SUBSET Keys] /\ owed \in [Devices -> SUBSET Keys] /\ values \in Copies /\ version \in Nat
      /\ local \in [Devices -> Copies]
  BY DEF Types
<1>2. /\ UNCHANGED <<meta, values, version, pushed, agreed, faults, quits>> /\ edits' = edits + 1
      /\ (k \notin Lists => v # None) /\ (EarlyEdits \/ (Running(d) /\ queue[d].snapshot # NotYet))
      /\ local' = [local EXCEPT ![d][k] = v]
  BY DEF Edit, document
<1> DEFINE c == [local[d] EXCEPT ![k] = v]
<1>3. /\ c = [e \in Keys |-> c[e]] /\ \A e \in Keys : c[e] = IF e = k THEN v ELSE local[d][e]
  BY <1>1, CopyEntries
<1>4. local' = [local EXCEPT ![d] = c]
  BY <1>1, <1>2
<1> HIDE DEF c
<1>5. \A e \in Keys : c[e] \in Values[e] \union {None}
  BY <1>1, <1>3, CopyEntries
<1>6. c \in Copies /\ NoChoiceGone(c)
  BY <1>1, <1>2, <1>3, <1>5, IsCopy DEF NoChoiceGone
<1>7. \E q \in QueueRecord :
         /\ Moves(d, q) /\ QueueFits(q) /\ Alike(q, queue[d]) /\ q.at = queue[d].at /\ q.answer = queue[d].answer
         /\ queue[d].chain # <<>> => q.chain # <<>> /\ q.chain[1] = queue[d].chain[1]
  <2>1. CASE Running(d)
    <3> DEFINE q == Enqueue(queue[d], "change")
    <3>1. q \in QueueRecord /\ QueueFits(q) /\ Alike(q, queue[d]) /\ q.at = queue[d].at /\ q.answer = queue[d].answer
          /\ (queue[d].chain # <<>> => q.chain # <<>> /\ q.chain[1] = queue[d].chain[1])
      BY <1>1, <2>1, EnqueueIs DEF Running, Steps
    <3>2. Moves(d, q)
      BY <2>1 DEF Edit, Moves
    <3> HIDE DEF q
    <3> QED
      BY <3>1, <3>2
  <2>2. CASE ~Running(d)
    <3>1. Moves(d, queue[d])
      BY <1>1, <2>2 DEF Edit, Moves
    <3> QED
      BY <1>1, <3>1 DEF Alike
  <2> QED
    BY <2>1, <2>2
<1>8. PICK q \in QueueRecord :
         /\ Moves(d, q) /\ QueueFits(q) /\ Alike(q, queue[d]) /\ q.at = queue[d].at /\ q.answer = queue[d].answer
         /\ queue[d].chain # <<>> => q.chain # <<>> /\ q.chain[1] = queue[d].chain[1]
  BY <1>7
<1> DEFINE u == IF IsChange(d, k, v) THEN unsent[d] \union {k} ELSE unsent[d] \ {k}
           o == owed[d] \union {k}
<1>9. unsent' = [unsent EXCEPT ![d] = u] /\ owed' = [owed EXCEPT ![d] = o] /\ u \in SUBSET Keys /\ o \in SUBSET Keys
      /\ removed' = IF v = None THEN removed \union {k} ELSE removed
  BY <1>1 DEF Edit
<1> HIDE DEF u, o
<1>10. unsent' \in [Devices -> SUBSET Keys] /\ owed' \in [Devices -> SUBSET Keys] /\ unsent'[d] = u /\ owed'[d] = o
  BY <1>1, <1>9
<1>11. MetaFits(q, meta[d])
  BY <1>1, <1>8 DEF MetaFits, Alike
<1>12. /\ meta' = [meta EXCEPT ![d] = meta[d]] /\ values' \in Copies /\ version' \in Nat
       /\ pushed' \in [Devices -> Nat \union {NoVersion}] /\ (\A e \in Devices \ {d} : ~Running(e) => pushed'[e] = NoVersion)
       /\ (q.at \in {"off", "picking"} => pushed'[d] = NoVersion) /\ edits' \in Nat /\ faults' \in Nat /\ quits' \in Nat
       /\ agreed' = agreed
  BY <1>1, <1>2, <1>8 DEF Running
<1>13. Types' /\ queue'[d] = q
  BY <1>1, <1>4, <1>6, <1>8, <1>10, <1>11, <1>12, DeviceMoves
<1>14. Elsewhere(d)
  BY <1>1, <1>2, <1>4, <1>8, <1>9 DEF Elsewhere, Moves
<1>15. local'[d] = c
  BY <1>1, <1>4
<1>16. Begins(queue[d], meta[d]) => Begins(q, meta[d])
  BY <1>8 DEF Begins, Alike
<1> QED
  BY <1>2, <1>3, <1>8, <1>9, <1>10, <1>13, <1>14, <1>15, <1>16 DEF u, o, Edited

LEMMA BaselineDoes ==
  ASSUME Types, NEW d \in Devices, TakesBaseline(d)
  PROVE  /\ Types' /\ Elsewhere(d) /\ UNCHANGED <<local, meta, values, unsent, owed, removed, agreed, edits, faults, quits>>
         /\ queue[d].snapshot = NotYet /\ queue[d].seen # NotYet /\ queue[d].at = "baseline"
         /\ queue'[d].snapshot = Now(d) /\ Now(d) \in Copies /\ queue'[d].seen = NotYet
         /\ queue'[d].at = "idle" /\ queue'[d].answer = "none"
<1> DEFINE q == [queue[d] EXCEPT !.at = "idle", !.seen = NotYet, !.snapshot = Now(d)]
<1>1. queue[d] \in QueueRecord /\ QueueFits(queue[d]) /\ queue[d].at = "baseline" /\ queue[d].seen # NotYet
  BY DEF Types, TakesBaseline, HasRead
<1>2. Now(d) \in Copies /\ NoChoiceGone(Now(d))
  BY <1>1, Looked
<1>3. q \in QueueRecord /\ q.at = "idle" /\ q.seen = NotYet /\ q.snapshot = Now(d) /\ q.chain = queue[d].chain
      /\ q.loaded = queue[d].loaded /\ q.answer = queue[d].answer /\ Moves(d, q)
  BY <1>1, <1>2, NotTaken DEF QueueRecord, Looks, At, TakesBaseline
<1> HIDE DEF q
<1>4. QueueFits(q) /\ q.answer = "none" /\ queue[d].snapshot = NotYet
  BY <1>1, <1>2, <1>3, NotTaken DEF QueueFits
<1>5. Types' /\ queue'[d] = q /\ Elsewhere(d)
  BY <1>3, <1>4, QueueMoves, SameCounters DEF TakesBaseline
<1> QED
  BY <1>1, <1>2, <1>3, <1>4, <1>5, SameCounters DEF TakesBaseline, document

LEMMA NotesDoes ==
  ASSUME Types, NEW d \in Devices, NotesChange(d)
  PROVE  /\ Types' /\ Elsewhere(d) /\ UNCHANGED <<local, values, unsent, owed, removed, agreed, edits, faults, quits>>
         /\ queue[d].seen # NotYet /\ queue[d].at = "change" /\ queue[d].answer = "none"
         /\ queue'[d].snapshot = Now(d) /\ Now(d) \in Copies /\ queue'[d].seen = NotYet
         /\ queue'[d].at = "idle" /\ queue'[d].answer = "none" /\ meta'[d] = Captured(d)
<1> DEFINE f == queue[d].flushSoon \/ In(Changes(d)) # {}
           q == [queue[d] EXCEPT !.at = "idle", !.seen = NotYet, !.snapshot = Now(d), !.flushSoon = f]
<1>1. queue[d] \in QueueRecord /\ QueueFits(queue[d]) /\ queue[d].at = "change" /\ queue[d].seen # NotYet
  BY DEF Types, NotesChange, HasRead
<1>2. Now(d) \in Copies /\ NoChoiceGone(Now(d))
  BY <1>1, Looked
<1>3. f \in BOOLEAN
  BY <1>1 DEF QueueRecord
<1>4. Moves(d, q)
  BY DEF NotesChange
<1> HIDE DEF f
<1>5. q \in QueueRecord /\ q.at = "idle" /\ q.seen = NotYet /\ q.snapshot = Now(d) /\ q.chain = queue[d].chain
      /\ q.loaded = queue[d].loaded /\ q.answer = queue[d].answer
  BY <1>1, <1>2, <1>3, NotTaken DEF QueueRecord, Looks, At
<1> HIDE DEF q
<1>6. QueueFits(q) /\ q.answer = "none"
  BY <1>1, <1>2, <1>5, NotTaken DEF QueueFits
<1>7. Captured(d) \in MetaRecord /\ MetaFits(q, Captured(d))
  BY <1>1, <1>5, CapturedIs DEF MetaFits
<1>8. /\ local[d] \in Copies /\ NoChoiceGone(local[d]) /\ local' = [local EXCEPT ![d] = local[d]]
      /\ values' \in Copies /\ version' \in Nat /\ unsent' \in [Devices -> SUBSET Keys] /\ owed' \in [Devices -> SUBSET Keys]
      /\ (\A e \in Devices \ {d} : ~Running(e) => pushed'[e] = NoVersion) /\ edits' \in Nat
      /\ UNCHANGED <<local, values, unsent, owed, removed, agreed, edits, faults, quits, pushed>>
  BY SameCounters DEF Types, NotesChange, document
<1>9. meta' = [meta EXCEPT ![d] = Captured(d)] /\ faults' \in Nat /\ quits' \in Nat /\ pushed' \in [Devices -> Nat \union {NoVersion}]
  BY SameCounters DEF NotesChange
<1>10. Types' /\ queue'[d] = q
  BY <1>4, <1>5, <1>6, <1>7, <1>8, <1>9, DeviceMoves
<1>11. Elsewhere(d) /\ meta'[d] = Captured(d)
  BY <1>4, <1>8, <1>9 DEF Elsewhere, Moves, Types
<1> QED
  BY <1>1, <1>2, <1>5, <1>6, <1>8, <1>10, <1>11

LEMMA QuitDoes ==
  ASSUME Types, NEW d \in Devices, Quit(d)
  PROVE  /\ Types' /\ Elsewhere(d) /\ UNCHANGED <<local, meta, values, owed, removed, agreed, edits, faults>> /\ quits' = quits + 1
         /\ queue'[d].snapshot = NotYet /\ queue'[d].seen = NotYet /\ queue'[d].at = "off" /\ queue'[d].answer = "none"
         /\ unsent'[d] = {k \in unsent[d] : k \in meta[d].refused \/ meta[d].pending[k] = local[d][k]}
<1> DEFINE q == Fresh("off")
           u == {k \in unsent[d] : k \in meta[d].refused \/ meta[d].pending[k] = local[d][k]}
<1>1. /\ queue \in [Devices -> QueueRecord] /\ meta \in [Devices -> MetaRecord] /\ local \in [Devices -> Copies]
      /\ NoChoiceGone(local[d]) /\ MetaFits(queue[d], meta[d]) /\ unsent \in [Devices -> SUBSET Keys]
      /\ owed \in [Devices -> SUBSET Keys] /\ edits \in Nat /\ faults \in Nat /\ quits \in Nat
      /\ pushed \in [Devices -> Nat \union {NoVersion}] /\ (\A e \in Devices : ~Running(e) => pushed[e] = NoVersion)
      /\ values \in Copies /\ version \in Nat
  BY DEF Types
<1>2. /\ Moves(d, q) /\ pushed' = [pushed EXCEPT ![d] = NoVersion] /\ unsent' = [unsent EXCEPT ![d] = u]
      /\ UNCHANGED <<local, meta, values, version, owed, removed, agreed, edits, faults>> /\ quits' = quits + 1
  BY DEF Quit, document
<1>3. q \in QueueRecord /\ QueueFits(q) /\ q.at = "off" /\ q.snapshot = NotYet /\ q.seen = NotYet /\ q.answer = "none"
  BY FreshIs
<1>4. u \in SUBSET Keys
  BY <1>1
<1> HIDE DEF q, u
<1>5. MetaFits(q, meta[d])
  BY <1>1, <1>3 DEF MetaFits
<1>6. /\ local[d] \in Copies /\ meta[d] \in MetaRecord /\ local' = [local EXCEPT ![d] = local[d]]
      /\ meta' = [meta EXCEPT ![d] = meta[d]] /\ pushed' \in [Devices -> Nat \union {NoVersion}]
      /\ (\A e \in Devices \ {d} : ~Running(e) => pushed'[e] = NoVersion) /\ pushed'[d] = NoVersion
      /\ unsent' \in [Devices -> SUBSET Keys] /\ owed' \in [Devices -> SUBSET Keys] /\ unsent'[d] = u
      /\ edits' \in Nat /\ faults' \in Nat /\ quits' \in Nat /\ values' \in Copies /\ version' \in Nat
  BY <1>1, <1>2, <1>4
<1>7. Types' /\ queue'[d] = q
  BY <1>1, <1>2, <1>3, <1>5, <1>6, DeviceMoves
<1>8. Elsewhere(d)
  BY <1>1, <1>2 DEF Elsewhere, Moves
<1> QED
  BY <1>2, <1>3, <1>6, <1>7, <1>8 DEF u

LEMMA WrittenDoes ==
  ASSUME Types, NEW d \in Devices, queue[d].at = "push", Written(d),
         UNCHANGED <<local, meta, removed, agreed, counters>>
  PROVE  /\ Types' /\ Elsewhere(d) /\ UNCHANGED <<local, meta, removed, agreed, edits, faults, quits>>
         /\ queue'[d].snapshot = queue[d].snapshot /\ queue[d].seen = NotYet /\ queue'[d].seen = NotYet
         /\ queue'[d].at = "saved" /\ queue'[d].answer = "ok" /\ queue[d].answer = "none"
         /\ \A k \in Keys : values'[k] = IF meta[d].pending[k] = Same THEN values[k] ELSE meta[d].pending[k]
         /\ unsent'[d] = unsent[d] \ {k \in In(meta[d].pending) : local[d][k] = meta[d].pending[k]}
         /\ owed'[d] = owed[d] \ {k \in In(meta[d].pending) : local[d][k] = meta[d].pending[k]}
<1> DEFINE q == [queue[d] EXCEPT !.at = "saved", !.answer = "ok", !.loadedAt = version + 1]
           there == {k \in In(meta[d].pending) : local[d][k] = meta[d].pending[k]}
<1>1. /\ queue \in [Devices -> QueueRecord] /\ meta \in [Devices -> MetaRecord] /\ local \in [Devices -> Copies]
      /\ NoChoiceGone(local[d]) /\ MetaFits(queue[d], meta[d]) /\ unsent \in [Devices -> SUBSET Keys]
      /\ owed \in [Devices -> SUBSET Keys] /\ edits \in Nat /\ faults \in Nat /\ quits \in Nat
      /\ pushed \in [Devices -> Nat \union {NoVersion}] /\ (\A e \in Devices : ~Running(e) => pushed[e] = NoVersion)
      /\ values \in Copies /\ version \in Nat /\ queue[d] \in QueueRecord /\ QueueFits(queue[d])
  BY DEF Types
<1>2. /\ Moves(d, q) /\ values' = Patched(values, meta[d].pending) /\ version' = version + 1
      /\ pushed' = [e \in Devices |-> IF Running(e) THEN version + 1 ELSE pushed[e]]
      /\ unsent' = [unsent EXCEPT ![d] = unsent[d] \ there] /\ owed' = [owed EXCEPT ![d] = owed[d] \ there]
      /\ UNCHANGED <<local, meta, removed, agreed, edits, faults, quits>>
  BY DEF Written, counters
<1> HIDE DEF there
<1>3. version + 1 \in Nat /\ meta[d].pending \in Patches
  BY <1>1 DEF MetaRecord
<1>4. q \in QueueRecord /\ q.at = "saved" /\ q.answer = "ok" /\ Alike(q, queue[d]) /\ q.chain = queue[d].chain
  BY <1>1, <1>3 DEF QueueRecord, At, Answers, Alike
<1> HIDE DEF q
<1>5. QueueFits(q) /\ MetaFits(q, meta[d]) /\ queue[d].seen = NotYet /\ queue[d].answer = "none"
  BY <1>1, <1>4 DEF QueueFits, Alike, MetaFits
<1>6. values' \in Copies /\ \A k \in Keys : values'[k] = IF meta[d].pending[k] = Same THEN values[k] ELSE meta[d].pending[k]
  BY <1>1, <1>2, <1>3, PatchedIsCopy
<1>7. /\ local[d] \in Copies /\ meta[d] \in MetaRecord /\ local' = [local EXCEPT ![d] = local[d]]
      /\ meta' = [meta EXCEPT ![d] = meta[d]] /\ pushed' \in [Devices -> Nat \union {NoVersion}]
      /\ (\A e \in Devices \ {d} : ~Running(e) => pushed'[e] = NoVersion)
      /\ unsent' \in [Devices -> SUBSET Keys] /\ owed' \in [Devices -> SUBSET Keys]
      /\ unsent'[d] = unsent[d] \ there /\ owed'[d] = owed[d] \ there
      /\ edits' \in Nat /\ faults' \in Nat /\ quits' \in Nat /\ version' \in Nat
  BY <1>1, <1>2, <1>3
<1>8. Types' /\ queue'[d] = q
  BY <1>2, <1>4, <1>5, <1>6, <1>7, <1>1, DeviceMoves
<1>9. Elsewhere(d)
  BY <1>1, <1>2 DEF Elsewhere, Moves
<1> QED
  BY <1>2, <1>4, <1>5, <1>6, <1>7, <1>8, <1>9 DEF Alike, there

\* A step of the queue changes what it remembers, and nothing else.
LEMMA MetaMoves ==
  ASSUME Types, NEW d \in Devices, NEW q \in QueueRecord, NEW m \in MetaRecord, QueueFits(q), MetaFits(q, m),
         q.at \notin {"off", "picking"}, Moves(d, q), meta' = [meta EXCEPT ![d] = m],
         UNCHANGED <<local, document, pushed, history, counters>>
  PROVE  /\ Types' /\ Elsewhere(d) /\ queue'[d] = q /\ meta'[d] = m
         /\ UNCHANGED <<local, values, unsent, owed, removed, agreed, edits, faults, quits>>
<1>1. /\ local[d] \in Copies /\ NoChoiceGone(local[d]) /\ local' = [local EXCEPT ![d] = local[d]]
      /\ values' \in Copies /\ version' \in Nat /\ unsent' \in [Devices -> SUBSET Keys] /\ owed' \in [Devices -> SUBSET Keys]
      /\ (\A e \in Devices \ {d} : ~Running(e) => pushed'[e] = NoVersion) /\ edits' \in Nat
      /\ UNCHANGED <<local, values, unsent, owed, removed, agreed, edits, faults, quits, pushed>>
      /\ faults' \in Nat /\ quits' \in Nat /\ pushed' \in [Devices -> Nat \union {NoVersion}]
  BY SameCounters DEF Types, document
<1>2. Types' /\ queue'[d] = q
  BY <1>1, DeviceMoves
<1>3. Elsewhere(d) /\ meta'[d] = m
  BY <1>1 DEF Elsewhere, Moves, Types
<1> QED
  BY <1>1, <1>2, <1>3

LEMMA SentDoes ==
  ASSUME Types, NEW d \in Devices, Sent(d)
  PROVE  /\ Types' /\ Elsewhere(d) /\ UNCHANGED <<local, values, unsent, owed, removed, agreed, edits, faults, quits>>
         /\ queue[d].answer = "ok" /\ queue[d].at = "saved" /\ queue[d].seen = NotYet
         /\ queue'[d].snapshot = queue[d].snapshot /\ queue'[d].seen = NotYet
         /\ queue'[d].at = "push" /\ queue'[d].answer = "none"
         /\ meta'[d].pending = NoPatch /\ meta'[d].refused = meta[d].refused /\ meta'[d].synced = meta[d].synced
<1> DEFINE q == Again(d, "push")
           m == [meta[d] EXCEPT !.pending = NoPatch, !.state = queue[d].loadedAt]
<1>1. queue[d] \in QueueRecord /\ QueueFits(queue[d]) /\ meta[d] \in MetaRecord /\ queue[d].at = "saved"
      /\ queue[d].answer = "ok"
  BY DEF Types, Sent
<1>2. m \in MetaRecord /\ m.pending = NoPatch /\ m.refused = meta[d].refused /\ m.synced = meta[d].synced
  BY <1>1, NotTaken DEF MetaRecord, QueueRecord
<1>3. q \in QueueRecord /\ QueueFits(q) /\ Alike(q, queue[d]) /\ q.at = "push" /\ q.answer = "none"
  BY <1>1, AgainIs
<1>4. Moves(d, q) /\ meta' = [meta EXCEPT ![d] = m]
  BY DEF Sent
<1> HIDE DEF q, m
<1>5. MetaFits(q, m)
  BY <1>2, <1>3, NotTaken DEF MetaFits
<1>6. /\ Types' /\ Elsewhere(d) /\ queue'[d] = q /\ meta'[d] = m
      /\ UNCHANGED <<local, values, unsent, owed, removed, agreed, edits, faults, quits>>
  BY <1>2, <1>3, <1>4, <1>5, MetaMoves DEF Sent
<1> QED
  BY <1>1, <1>2, <1>3, <1>6 DEF QueueFits, Alike

LEMMA RefusesDoes ==
  ASSUME Types, NEW d \in Devices, Refuses(d)
  PROVE  /\ Types' /\ Elsewhere(d) /\ UNCHANGED <<local, values, unsent, owed, removed, agreed, edits, faults, quits>>
         /\ queue[d].answer # "ok" /\ queue[d].at = "saved" /\ queue[d].seen = NotYet
         /\ queue'[d].snapshot = queue[d].snapshot /\ queue'[d].seen = NotYet
         /\ queue'[d].at = "push" /\ queue'[d].answer = "none" /\ meta'[d].synced = meta[d].synced
         /\ \A k \in Keys : (k \in meta[d].refused => k \in meta'[d].refused)
                            /\ (meta'[d].pending[k] = meta[d].pending[k]
                                \/ (meta'[d].pending[k] = Same /\ k \in meta'[d].refused))
<1> DEFINE bad == IF queue[d].answer = "overQuota" THEN In(meta[d].pending) ELSE NotLiked(d)
           p == [k \in Keys |-> IF k \in bad THEN Same ELSE meta[d].pending[k]]
           m == [meta[d] EXCEPT !.pending = p, !.refused = meta[d].refused \union bad]
           q == Again(d, "push")
<1>1. queue[d] \in QueueRecord /\ QueueFits(queue[d]) /\ meta[d] \in MetaRecord /\ queue[d].at = "saved"
      /\ queue[d].answer # "ok" /\ MetaFits(queue[d], meta[d])
  BY DEF Types, Refuses
<1>2. bad \in SUBSET Keys
  BY DEF In, NotLiked
<1>3. Moves(d, q) /\ meta' = [meta EXCEPT ![d] = m]
  BY DEF Refuses
<1> HIDE DEF bad
<1>4. p = [k \in Keys |-> p[k]] /\ \A k \in Keys : p[k] = IF k \in bad THEN Same ELSE meta[d].pending[k]
  OBVIOUS
<1> HIDE DEF p
<1>5. meta[d].pending \in Patches /\ meta[d].refused \in SUBSET Keys
  BY <1>1 DEF MetaRecord
<1>6. p \in Patches
  BY <1>4, <1>5, PatchEntries, IsPatch
<1>7. m \in MetaRecord /\ m.pending = p /\ m.refused = meta[d].refused \union bad /\ m.synced = meta[d].synced
  BY <1>1, <1>2, <1>5, <1>6 DEF MetaRecord
<1>8. q \in QueueRecord /\ QueueFits(q) /\ Alike(q, queue[d]) /\ q.at = "push" /\ q.answer = "none"
  BY <1>1, AgainIs
<1> HIDE DEF q, m
<1>9. MetaFits(q, m)
  BY <1>1, <1>4, <1>7, <1>8, NoneIsNotSame DEF MetaFits, In, NoChoiceGone
<1>10. /\ Types' /\ Elsewhere(d) /\ queue'[d] = q /\ meta'[d] = m
       /\ UNCHANGED <<local, values, unsent, owed, removed, agreed, edits, faults, quits>>
  BY <1>3, <1>7, <1>8, <1>9, MetaMoves DEF Refuses
<1> QED
  BY <1>1, <1>4, <1>7, <1>8, <1>10 DEF QueueFits, Alike

LEMMA StoresDoes ==
  ASSUME Types, NEW d \in Devices, StoresSignatures(d)
  PROVE  /\ Types' /\ Elsewhere(d) /\ UNCHANGED <<values, unsent, owed, removed, agreed, edits, faults, quits>>
         /\ queue[d].at = "apply" /\ queue'[d].seen = NotYet /\ queue[d].answer = "none"
         /\ queue'[d].at = "push" /\ queue'[d].answer = "none"
         /\ \A k \in Keys : local'[d][k] = IF queue[d].apply[k] # Same /\ k \in Signatures THEN queue[d].apply[k]
                                           ELSE local[d][k]
         /\ \A k \in Keys : queue'[d].snapshot[k] = IF queue[d].apply[k] = Same THEN queue[d].snapshot[k]
                                                     ELSE queue[d].apply[k]
         /\ queue[d].snapshot # NotYet /\ queue'[d].snapshot # NotYet
         /\ meta'[d].pending = queue[d].next /\ meta'[d].refused = meta[d].refused /\ meta'[d].synced
<1> DEFINE c == [k \in Keys |-> IF queue[d].apply[k] # Same /\ k \in Signatures THEN queue[d].apply[k] ELSE local[d][k]]
           s == Patched(queue[d].snapshot, queue[d].apply)
           q == [queue[d] EXCEPT !.at = "push", !.snapshot = s, !.apply = NoPatch, !.next = NoPatch]
           m == Merged(d, meta[d], queue[d].next)
<1>1. /\ queue[d] \in QueueRecord /\ QueueFits(queue[d]) /\ meta[d] \in MetaRecord /\ MetaFits(queue[d], meta[d])
      /\ queue[d].at = "apply" /\ local[d] \in Copies /\ NoChoiceGone(local[d])
      /\ local \in [Devices -> Copies] /\ meta \in [Devices -> MetaRecord] /\ queue \in [Devices -> QueueRecord]
  BY DEF Types, StoresSignatures
<1>2. queue[d].snapshot \in Copies /\ queue[d].apply \in Patches /\ queue[d].next \in Patches /\ queue[d].loadedAt \in Nat
      /\ queue[d].snapshot # NotYet /\ NoChoiceGone(queue[d].apply) /\ NoChoiceGone(queue[d].snapshot)
  BY <1>1 DEF QueueRecord, QueueFits, Looks
<1>3. s \in Copies /\ \A k \in Keys : s[k] = IF queue[d].apply[k] = Same THEN queue[d].snapshot[k] ELSE queue[d].apply[k]
  BY <1>2, PatchedIsCopy
<1>4. /\ Moves(d, q) /\ local' = [local EXCEPT ![d] = c] /\ meta' = [meta EXCEPT ![d] = m]
      /\ UNCHANGED <<values, version, unsent, owed, removed, agreed, edits, faults, quits, pushed>>
  BY SameCounters DEF StoresSignatures, document
<1>5. m \in MetaRecord /\ m.pending = queue[d].next /\ m.refused = meta[d].refused /\ m.synced
  BY <1>1, <1>2 DEF Merged, MetaRecord
<1> HIDE DEF s
<1>6. q \in QueueRecord /\ q.at = "push" /\ q.snapshot = s /\ q.chain = queue[d].chain /\ q.loaded = queue[d].loaded
      /\ q.seen = queue[d].seen /\ q.answer = queue[d].answer
  BY <1>1, <1>3, NotTaken DEF QueueRecord, Looks, At
<1>7. c = [k \in Keys |-> c[k]]
      /\ \A k \in Keys : c[k] = IF queue[d].apply[k] # Same /\ k \in Signatures THEN queue[d].apply[k] ELSE local[d][k]
  OBVIOUS
<1> HIDE DEF q, m, c
<1>8. \A k \in Keys : c[k] \in Values[k] \union {None}
  BY <1>1, <1>2, <1>7, CopyEntries, PatchEntries
<1>9. c \in Copies /\ NoChoiceGone(c)
  BY <1>1, <1>7, <1>8, IsCopy, KeysAssumption DEF NoChoiceGone
<1>10. NoChoiceGone(s)
  BY <1>2, <1>3 DEF NoChoiceGone
<1>11. QueueFits(q) /\ MetaFits(q, m) /\ q.answer = "none" /\ queue[d].answer = "none" /\ q.seen = NotYet
  BY <1>1, <1>5, <1>6, <1>10 DEF QueueFits, MetaFits
<1>12. /\ values' \in Copies /\ version' \in Nat /\ unsent' \in [Devices -> SUBSET Keys] /\ owed' \in [Devices -> SUBSET Keys]
       /\ (\A e \in Devices \ {d} : ~Running(e) => pushed'[e] = NoVersion) /\ edits' \in Nat
       /\ faults' \in Nat /\ quits' \in Nat /\ pushed' \in [Devices -> Nat \union {NoVersion}]
  BY <1>4 DEF Types
<1>13. Types' /\ queue'[d] = q
  BY <1>4, <1>5, <1>6, <1>9, <1>11, <1>12, DeviceMoves
<1>14. Elsewhere(d) /\ meta'[d] = m /\ local'[d] = c
  BY <1>1, <1>4 DEF Elsewhere, Moves
<1>15. s # NotYet
  BY <1>3, NotTaken
<1> QED
  BY <1>1, <1>2, <1>3, <1>4, <1>5, <1>6, <1>7, <1>11, <1>13, <1>14, <1>15

\* What a merge takes from the server, what it leaves to be sent, and what the server has already.
Taken(d) == Take(MergeApply(queue[d].loaded, Now(d), Captured(d).pending, ~Captured(d).synced, Captured(d).refused))
Left(d) == MergePending(queue[d].loaded, Now(d), Captured(d).pending, ~Captured(d).synced, Captured(d).refused)
Known(d) == {k \in In(Captured(d).pending) : Captured(d).pending[k] = queue[d].loaded[k] /\ local[d][k] = Now(d)[k]}

\* The signatures are stored by now, or will be.
TakenNow(d) ==
    /\ \A k \in Signatures : Taken(d)[k] = Same
    /\ queue'[d].at = "push" /\ queue'[d].snapshot = Patched(Now(d), Taken(d))
    /\ meta'[d].pending = Left(d) /\ meta'[d].refused = Captured(d).refused /\ meta'[d].synced
TakenLater(d) ==
    /\ \E k \in Signatures : Taken(d)[k] # Same
    /\ queue'[d].at = "apply" /\ queue'[d].snapshot = Now(d) /\ queue'[d].apply = Taken(d) /\ queue'[d].next = Left(d)
    /\ meta'[d] = Captured(d)

LEMMA MergeKnows ==
  ASSUME Types, NEW d \in Devices, queue[d].at = "merge", queue[d].seen # NotYet
  PROVE  /\ queue[d].loaded \in Copies /\ Taken(d) \in Patches /\ Left(d) \in Patches
         /\ \A k \in Keys : Taken(d)[k] # Same =>
               /\ k \notin Captured(d).refused /\ Captured(d).pending[k] = Same /\ queue[d].loaded[k] # Now(d)[k]
               /\ Taken(d)[k] = queue[d].loaded[k] /\ (Taken(d)[k] = None => Captured(d).synced /\ k \in Lists)
               /\ <<k, Taken(d)[k]>> \notin Weaker
         /\ \A k \in Keys : Left(d)[k] =
               IF k \in Captured(d).refused THEN Same
               ELSE IF Captured(d).pending[k] # Same
                    THEN (IF Captured(d).pending[k] = queue[d].loaded[k] THEN Same ELSE Captured(d).pending[k])
               ELSE IF queue[d].loaded[k] = None /\ Now(d)[k] # None /\ (~Captured(d).synced \/ k \notin Lists)
                    THEN Now(d)[k]
               ELSE Same
         /\ NoChoiceGone(Taken(d)) /\ NoChoiceGone(Left(d)) /\ Captured(d).refused \intersect In(Left(d)) = {}
<1>1. queue[d] \in QueueRecord /\ QueueFits(queue[d])
  BY DEF Types
<1>2. queue[d].loaded \in Copies
  BY <1>1 DEF QueueRecord, QueueFits, Looks
<1>3. Now(d) \in Copies /\ Captured(d).pending \in Patches /\ Captured(d).synced \in BOOLEAN
      /\ NoChoiceGone(Captured(d).pending) /\ NoChoiceGone(Now(d))
  BY Looked, CapturedIs DEF MetaRecord
<1> DEFINE s == queue[d].loaded
           m == Captured(d)
           here == Now(d)
           first == ~m.synced
<1>4. /\ Taken(d) = Take(MergeApply(s, here, m.pending, first, m.refused))
      /\ Left(d) = MergePending(s, here, m.pending, first, m.refused)
  BY DEF Taken, Left
<1>5. s \in Copies /\ here \in Copies /\ m.pending \in Patches /\ (~first => m.synced) /\ (first => ~m.synced)
  BY <1>2, <1>3
<1> HIDE DEF s, m, here, first
<1>6. /\ Taken(d) \in Patches
      /\ \A k \in Keys : Taken(d)[k] # Same =>
               /\ k \notin m.refused /\ m.pending[k] = Same /\ s[k] # here[k] /\ Taken(d)[k] = s[k]
               /\ (s[k] = None => m.synced /\ k \in Lists) /\ <<k, s[k]>> \notin Weaker
  BY <1>4, <1>5, ApplyIsPatch
<1>7. /\ Left(d) \in Patches
      /\ \A k \in Keys : Left(d)[k] =
               IF k \in m.refused THEN Same
               ELSE IF m.pending[k] # Same THEN (IF m.pending[k] = s[k] THEN Same ELSE m.pending[k])
               ELSE IF s[k] = None /\ here[k] # None /\ (first \/ k \notin Lists) THEN here[k] ELSE Same
  BY <1>4, <1>5, PendingIsPatch
<1>8. \A k \in Keys : Left(d)[k] =
               IF k \in m.refused THEN Same
               ELSE IF m.pending[k] # Same THEN (IF m.pending[k] = s[k] THEN Same ELSE m.pending[k])
               ELSE IF s[k] = None /\ here[k] # None /\ (~m.synced \/ k \notin Lists) THEN here[k] ELSE Same
  BY <1>5, <1>7
<1>9. NoChoiceGone(Taken(d))
  BY <1>6, NoneIsNotSame DEF NoChoiceGone
<1>10. NoChoiceGone(Left(d))
  BY <1>3, <1>8, NoneIsNotSame DEF NoChoiceGone, m, here
<1>11. m.refused \intersect In(Left(d)) = {}
  BY <1>8 DEF In
<1> QED
  BY <1>2, <1>6, <1>7, <1>8, <1>9, <1>10, <1>11 DEF s, m, here

LEMMA MergesDoes ==
  ASSUME Types, NEW d \in Devices, Merges(d)
  PROVE  /\ Types' /\ Elsewhere(d) /\ UNCHANGED <<values, removed, agreed, edits, faults, quits>>
         /\ queue[d].at = "merge" /\ queue[d].seen # NotYet /\ queue[d].answer = "none"
         /\ queue'[d].seen = NotYet /\ queue'[d].answer = "none" /\ queue'[d].snapshot # NotYet
         /\ \A k \in Keys : local'[d][k] = IF Taken(d)[k] = Same \/ k \in Signatures THEN local[d][k] ELSE Taken(d)[k]
         /\ TakenNow(d) \/ TakenLater(d)
         /\ unsent'[d] = unsent[d] \ Known(d) /\ owed'[d] = owed[d] \ Known(d)
<1> DEFINE m == Captured(d)
           here == Now(d)
           later == In(Taken(d)) \intersect Signatures
           r == IF In(Taken(d)) \ Signatures = {} THEN queue[d] ELSE Enqueue(queue[d], "change")
           c == [k \in Keys |-> IF Taken(d)[k] = Same \/ k \in later THEN local[d][k] ELSE Taken(d)[k]]
           q1 == [r EXCEPT !.at = "push", !.seen = NotYet, !.loaded = NotYet, !.snapshot = Patched(here, Taken(d))]
           q2 == [r EXCEPT !.at = "apply", !.seen = NotYet, !.loaded = NotYet, !.snapshot = here,
                           !.apply = Taken(d), !.next = Left(d)]
           m1 == Merged(d, m, Left(d))
<1>1. /\ queue[d] \in QueueRecord /\ QueueFits(queue[d]) /\ queue[d].at = "merge" /\ queue[d].seen # NotYet
      /\ local[d] \in Copies /\ NoChoiceGone(local[d]) /\ local \in [Devices -> Copies]
      /\ meta \in [Devices -> MetaRecord] /\ queue \in [Devices -> QueueRecord]
      /\ unsent \in [Devices -> SUBSET Keys] /\ owed \in [Devices -> SUBSET Keys]
  BY DEF Types, Merges, HasRead
<1>2. /\ local' = [local EXCEPT ![d] = c]
      /\ IF later = {} THEN meta' = [meta EXCEPT ![d] = m1] /\ Moves(d, q1)
                       ELSE meta' = [meta EXCEPT ![d] = m] /\ Moves(d, q2)
      /\ unsent' = [unsent EXCEPT ![d] = unsent[d] \ Known(d)] /\ owed' = [owed EXCEPT ![d] = owed[d] \ Known(d)]
      /\ UNCHANGED <<document, pushed, removed, agreed, counters>>
  BY DEF Merges, Taken, Left, Known
<1>3. UNCHANGED <<values, version, pushed, removed, agreed, edits, faults, quits>>
  BY <1>2 DEF document, counters
<1>4. /\ here \in Copies /\ NoChoiceGone(here)
      /\ m \in MetaRecord /\ NoChoiceGone(m.pending) /\ m.refused \intersect In(m.pending) = {}
  BY <1>1, Looked, CapturedIs
<1>5. /\ Taken(d) \in Patches /\ Left(d) \in Patches /\ NoChoiceGone(Taken(d)) /\ NoChoiceGone(Left(d))
      /\ m.refused \intersect In(Left(d)) = {}
  BY <1>1, MergeKnows
<1>6. /\ r \in QueueRecord /\ QueueFits(r) /\ r.at = "merge" /\ r.answer = queue[d].answer
  BY <1>1, EnqueueIs DEF Steps
<1>7. c = [k \in Keys |-> c[k]] /\ \A k \in Keys : c[k] = IF Taken(d)[k] = Same \/ k \in later THEN local[d][k] ELSE Taken(d)[k]
  OBVIOUS
<1>8. \A k \in Keys : k \in later <=> Taken(d)[k] # Same /\ k \in Signatures
  BY DEF In
<1> HIDE DEF c, r, later, m, here
<1>9. \A k \in Keys : c[k] \in Values[k] \union {None}
  BY <1>1, <1>5, <1>7, CopyEntries, PatchEntries
<1>10. c \in Copies /\ NoChoiceGone(c)
  BY <1>1, <1>5, <1>7, <1>9, IsCopy DEF NoChoiceGone
<1>11. Patched(here, Taken(d)) \in Copies /\ NoChoiceGone(Patched(here, Taken(d)))
  BY <1>4, <1>5, PatchedIsCopy DEF NoChoiceGone
<1>12. /\ values' \in Copies /\ version' \in Nat /\ unsent' \in [Devices -> SUBSET Keys] /\ owed' \in [Devices -> SUBSET Keys]
       /\ (\A e \in Devices \ {d} : ~Running(e) => pushed'[e] = NoVersion) /\ edits' \in Nat
       /\ faults' \in Nat /\ quits' \in Nat /\ pushed' \in [Devices -> Nat \union {NoVersion}]
       /\ unsent'[d] = unsent[d] \ Known(d) /\ owed'[d] = owed[d] \ Known(d) /\ local'[d] = c
  BY <1>1, <1>2, <1>3 DEF Types
<1>13. queue[d].answer = "none" /\ r.answer = "none" /\ \A i \in 1 .. Len(r.chain) : r.chain[i] # "baseline"
  BY <1>1, <1>6 DEF QueueFits
<1>14. Elsewhere(d)
  <2>1. CASE later = {}
    BY <1>1, <1>2, <2>1 DEF Elsewhere, Moves
  <2>2. CASE later # {}
    BY <1>1, <1>2, <2>2 DEF Elsewhere, Moves
  <2> QED
    BY <2>1, <2>2
<1>15. ASSUME later = {}
       PROVE  Types' /\ TakenNow(d) /\ queue'[d].seen = NotYet /\ queue'[d].answer = "none" /\ queue'[d].snapshot # NotYet
  <2>1. q1 \in QueueRecord /\ q1.at = "push" /\ q1.seen = NotYet /\ q1.loaded = NotYet /\ q1.answer = r.answer
        /\ q1.snapshot = Patched(here, Taken(d)) /\ q1.chain = r.chain
    BY <1>6, <1>11, NotTaken DEF QueueRecord, Looks, At
  <2>2. m1 \in MetaRecord /\ m1.pending = Left(d) /\ m1.refused = m.refused /\ m1.synced
    BY <1>1, <1>4, <1>5 DEF Merged, MetaRecord, QueueRecord
  <2>3. Moves(d, q1) /\ meta' = [meta EXCEPT ![d] = m1]
    BY <1>2, <1>15
  <2> HIDE DEF q1, m1
  <2>4. QueueFits(q1) /\ MetaFits(q1, m1)
    BY <1>5, <1>11, <1>13, <2>1, <2>2, NotTaken DEF QueueFits, MetaFits
  <2>5. Types' /\ queue'[d] = q1
    BY <1>2, <1>3, <1>10, <1>12, <2>1, <2>2, <2>3, <2>4, DeviceMoves
  <2>6. meta'[d] = m1
    BY <1>1, <2>3
  <2>7. \A k \in Signatures : Taken(d)[k] = Same
    BY <1>8, <1>15, KeysAssumption
  <2> QED
    BY <1>11, <1>13, <2>1, <2>2, <2>5, <2>6, <2>7, NotTaken DEF TakenNow, m, here
<1>16. ASSUME later # {}
       PROVE  Types' /\ TakenLater(d) /\ queue'[d].seen = NotYet /\ queue'[d].answer = "none" /\ queue'[d].snapshot # NotYet
  <2>1. q2 \in QueueRecord /\ q2.at = "apply" /\ q2.seen = NotYet /\ q2.loaded = NotYet /\ q2.answer = r.answer
        /\ q2.snapshot = here /\ q2.chain = r.chain /\ q2.apply = Taken(d) /\ q2.next = Left(d)
    BY <1>4, <1>5, <1>6, NotTaken DEF QueueRecord, Looks, At
  <2>2. Moves(d, q2) /\ meta' = [meta EXCEPT ![d] = m]
    BY <1>2, <1>16
  <2> HIDE DEF q2
  <2>3. here # NotYet /\ Signatures # {}
    BY <1>4, <1>16, NotTaken DEF later
  <2>4. QueueFits(q2) /\ MetaFits(q2, m)
    BY <1>4, <1>5, <1>13, <2>1, <2>3, NotTaken DEF QueueFits, MetaFits
  <2>5. Types' /\ queue'[d] = q2
    BY <1>2, <1>3, <1>4, <1>10, <1>12, <2>1, <2>2, <2>4, DeviceMoves
  <2>6. meta'[d] = m
    BY <1>1, <2>2
  <2>7. \E k \in Signatures : Taken(d)[k] # Same
    BY <1>16 DEF later, In
  <2> QED
    BY <1>13, <2>1, <2>3, <2>5, <2>6, <2>7 DEF TakenLater, m, here
<1> QED
  BY <1>1, <1>3, <1>7, <1>8, <1>12, <1>13, <1>14, <1>15, <1>16

LEMMA WritesDoes ==
  ASSUME Types, NEW d \in Devices, Writes(d)
  PROVE  /\ Types'
         /\ Quiet(d) \/ (queue[d].at = "push" /\ Written(d) /\ UNCHANGED <<local, meta, removed, agreed, counters>>)
<1>1. queue[d].at = "push" /\ UNCHANGED <<local, meta, removed, agreed, counters>>
  BY DEF Writes
<1>2. CASE Turned(d, "stateMismatch") \/ Turned(d, "invalidProperties")
  BY <1>1, <1>2, TurnedQuietly DEF Answers, counters
<1>3. CASE Written(d)
  BY <1>1, <1>3, WrittenDoes
<1> QED
  BY <1>2, <1>3 DEF Writes

LEMMA NoRoomQuietly == ASSUME Types, NEW d \in Devices, HasNoRoom(d) PROVE Types' /\ Quiet(d)
<1>1. queue[d].at = "push" /\ Turned(d, "overQuota") /\ faults' = faults + 1
      /\ UNCHANGED <<local, meta, removed, agreed, edits, quits>>
  BY DEF HasNoRoom, Hits
<1> QED
  BY <1>1, TurnedQuietly DEF Answers

\* What a step that isn't quiet is.
Acts(d) ==
    \/ TakesBaseline(d) \/ NotesChange(d) \/ Merges(d) \/ StoresSignatures(d) \/ Sent(d) \/ Refuses(d) \/ Quit(d)
    \/ queue[d].at = "push" /\ Written(d) /\ UNCHANGED <<local, meta, removed, agreed, counters>>

LEMMA EveryStep ==
  ASSUME Types, Next
  PROVE  /\ Types'
         /\ \/ \E d \in Devices : Quiet(d) \/ Acts(d)
            \/ \E d \in Devices, k \in Keys : \E v \in Values[k] \union {None} : Edit(d, k, v)
<1>1. CASE \E d \in Devices, k \in Keys : \E v \in Values[k] \union {None} : Edit(d, k, v)
  BY <1>1, EditDoes
<1>2. ASSUME NEW d \in Devices,
             Runs(d) \/ HasNoRoom(d) \/ Fails(d) \/ LookFails(d) \/ Quit(d) \/ Start(d) \/ QueueStarts(d)
      PROVE  Types' /\ (Quiet(d) \/ Acts(d))
  <2>1. CASE StepStarts(d) \/ ReadsSignatures(d) \/ Loads(d) \/ Succeeds(d) \/ LosesRace(d)
    BY <2>1, StepStartsQuietly, ReadsQuietly, LoadsQuietly, SucceedsQuietly, AgainQuietly
  <2>2. CASE GivesUpRace(d) \/ FlushFires(d) \/ RetryFires(d) \/ IsPushed(d)
    BY <2>2, FailsQuietly, FlushQuietly, RetryQuietly, PushedQuietly
  <2>3. CASE TakesBaseline(d) \/ NotesChange(d) \/ Merges(d) \/ StoresSignatures(d)
    BY <2>3, BaselineDoes, NotesDoes, MergesDoes, StoresDoes DEF Acts
  <2>4. CASE Writes(d)
    BY <2>4, WritesDoes DEF Acts
  <2>5. CASE Sent(d) \/ Refuses(d) \/ Quit(d)
    BY <2>5, SentDoes, RefusesDoes, QuitDoes DEF Acts
  <2>6. CASE HasNoRoom(d) \/ Fails(d) \/ LookFails(d) \/ Start(d) \/ QueueStarts(d)
    BY <2>6, NoRoomQuietly, FailsQuietly, StartQuietly
  <2> QED
    BY <1>2, <2>1, <2>2, <2>3, <2>4, <2>5, <2>6 DEF Runs
<1> QED
  BY <1>1, <1>2 DEF Next

LEMMA Unchanged == ASSUME UNCHANGED vars
                   PROVE  UNCHANGED <<local, meta, queue, values, version, pushed, unsent, owed, removed, agreed,
                                      edits, faults, quits>>
  BY DEF vars, document, history, counters

LEMMA TypesBegin == Init => Types
<1> SUFFICES ASSUME Init PROVE Types
  OBVIOUS
<1> DEFINE q == [Fresh("idle") EXCEPT !.chain = <<"baseline", "refresh">>]
           m0 == [EmptyMeta EXCEPT !.state = 0, !.synced = TRUE]
<1>1. q \in QueueRecord /\ QueueFits(q) /\ q.at = "idle"
  BY BeginningIs
<1>2. queue = [d \in Devices |-> q]
  BY DEF Init
<1> HIDE DEF q
<1>3. EmptyMeta \in MetaRecord /\ m0 \in MetaRecord /\ EmptyMeta.pending = NoPatch /\ m0.pending = NoPatch
      /\ EmptyMeta.refused = {} /\ m0.refused = {}
  BY NotTaken DEF EmptyMeta, MetaRecord, NoVersion
<1>4. meta = [d \in Devices |-> IF d \in agreed THEN m0 ELSE EmptyMeta]
  BY DEF Init
<1> HIDE DEF m0
<1>5. \A d \in Devices : meta[d] \in MetaRecord /\ MetaFits(q, meta[d])
  BY <1>1, <1>3, <1>4, NotTaken DEF MetaFits
<1>6. local \in [Devices -> Copies] /\ \A d \in Devices : NoChoiceGone(local[d])
  BY DEF Init, NoChoiceGone
<1>7. agreed \subseteq Devices
  BY ChoicesAssumption DEF Init
<1>8. queue \in [Devices -> QueueRecord] /\ \A d \in Devices : queue[d] = q
  BY <1>1, <1>2
<1>9. meta \in [Devices -> MetaRecord]
  BY <1>3, <1>4
<1>10. /\ pushed \in [Devices -> Nat \union {NoVersion}] /\ \A d \in Devices : pushed[d] = NoVersion
       /\ unsent \in [Devices -> SUBSET Keys] /\ owed \in [Devices -> SUBSET Keys]
       /\ values \in Copies /\ version \in Nat /\ edits \in Nat /\ faults \in Nat /\ quits \in Nat
  BY DEF Init
<1> QED
  BY <1>1, <1>5, <1>6, <1>7, <1>8, <1>9, <1>10 DEF Types

LEMMA TypesStay == Types /\ [Next]_vars => Types'
<1> SUFFICES ASSUME Types, [Next]_vars PROVE Types'
  OBVIOUS
<1>1. CASE Next
  BY <1>1, EveryStep
<1>2. CASE UNCHANGED vars
  BY <1>2, Unchanged DEF Types, QueueFits, MetaFits, NoChoiceGone, In, Running
<1> QED
  BY <1>1, <1>2

LEMMA TypesAlways == Spec => []Types
<1> QED
  BY TypesBegin, TypesStay, PTL DEF Spec

\* A queue, its memory and the settings of a device stay within the states the code has for them.
THEOREM TypesHold == Spec => []TypeOK
<1>1. Types => TypeOK
  <2> SUFFICES ASSUME Types PROVE TypeOK
    OBVIOUS
  <2>1. ASSUME NEW d \in Devices
        PROVE  /\ meta[d].state \in Nat \union {NoVersion} /\ meta[d].pending \in Patches
               /\ meta[d].refused \subseteq Keys \ In(meta[d].pending)
               /\ queue[d].at \in At /\ queue[d].attempt \in 1 .. MaxAttempts
               /\ \A i \in 1 .. Len(queue[d].chain) : queue[d].chain[i] \in Steps
               /\ queue[d].snapshot \in Copies \union {NotYet}
               /\ (queue[d].loaded # NotYet) = (queue[d].at = "merge")
               /\ (queue[d].answer # "none") = (queue[d].at = "saved")
               /\ ~Running(d) => queue[d].chain = <<>> /\ pushed[d] = NoVersion
    <3>1. queue[d] \in QueueRecord /\ QueueFits(queue[d]) /\ meta[d] \in MetaRecord /\ MetaFits(queue[d], meta[d])
          /\ (~Running(d) => pushed[d] = NoVersion)
      BY DEF Types
    <3>2. meta[d].state \in Nat \union {NoVersion} /\ meta[d].pending \in Patches
          /\ meta[d].refused \subseteq Keys \ In(meta[d].pending)
      BY <3>1 DEF MetaRecord, MetaFits
    <3>3. queue[d].at \in At /\ queue[d].attempt \in 1 .. MaxAttempts /\ queue[d].chain \in Seq(Steps)
          /\ queue[d].snapshot \in Copies \union {NotYet}
      BY <3>1 DEF QueueRecord, Looks
    <3>4. \A i \in 1 .. Len(queue[d].chain) : queue[d].chain[i] \in Steps
      BY <3>3
    <3>5. /\ (queue[d].loaded # NotYet) = (queue[d].at = "merge")
          /\ (queue[d].answer # "none") = (queue[d].at = "saved")
          /\ ~Running(d) => queue[d].chain = <<>> /\ pushed[d] = NoVersion
      BY <3>1 DEF QueueFits, Running
    <3> QED
      BY <3>2, <3>3, <3>4, <3>5
  <2>2. \A k \in Keys \ Lists, d \in Devices : local[d][k] # None
    BY DEF Types, NoChoiceGone
  <2> QED
    BY <2>1, <2>2 DEF TypeOK, Types
<1> QED
  BY <1>1, TypesAlways, PTL

-----------------------------------------------------------------------------
(***************************************************************************)
(* Protections.                                                            *)
(***************************************************************************)

\* Only a person's change, a merge and the engine storing signatures change what is set here.
LEMMA SettingsChange ==
  ASSUME Types, Next, NEW e \in Devices, NEW k \in Keys, local'[e][k] # local[e][k]
  PROVE  \/ edits' = edits + 1
         \/ Merges(e) /\ k \notin Signatures /\ Taken(e)[k] # Same /\ local'[e][k] = Taken(e)[k]
         \/ StoresSignatures(e) /\ k \in Signatures
<1>1. CASE \E d \in Devices, i \in Keys : \E v \in Values[i] \union {None} : Edit(d, i, v)
  BY <1>1, EditDoes DEF Edited
<1>2. ASSUME NEW d \in Devices, Quiet(d) \/ Acts(d)
      PROVE  \/ Merges(e) /\ k \notin Signatures /\ Taken(e)[k] # Same /\ local'[e][k] = Taken(e)[k]
             \/ StoresSignatures(e) /\ k \in Signatures
  <2>1. CASE Merges(d)
    <3>1. d = e
      BY <2>1, MergesDoes DEF Elsewhere
    <3> QED
      BY <2>1, <3>1, MergesDoes
  <2>2. CASE StoresSignatures(d)
    <3>1. d = e
      BY <2>2, StoresDoes DEF Elsewhere
    <3> QED
      BY <2>2, <3>1, StoresDoes
  <2>3. CASE Quiet(d)
    BY <2>3 DEF Quiet
  <2>4. CASE TakesBaseline(d) \/ NotesChange(d) \/ Sent(d) \/ Refuses(d) \/ Quit(d)
    BY <2>4, BaselineDoes, NotesDoes, SentDoes, RefusesDoes, QuitDoes
  <2> QED
    BY <1>2, <2>1, <2>2, <2>3, <2>4 DEF Acts
<1> QED
  BY <1>1, <1>2, EveryStep

\* Whatever the server says and other devices write, and however requests fail, a protection is
\* switched off only by a person on this device (holdBackWeakening).
THEOREM ProtectionsStay == Spec => NeverWeakened
<1>1. ASSUME Types, Next, NEW d \in Devices, NEW k \in Keys, local'[d][k] # local[d][k], <<k, local'[d][k]>> \in Weaker
      PROVE  edits' = edits + 1
  <2>1. CASE Merges(d) /\ k \notin Signatures /\ Taken(d)[k] # Same /\ local'[d][k] = Taken(d)[k]
    <3>1. Types /\ Merges(d)
      BY <1>1, <2>1
    <3>2. queue[d].at = "merge" /\ queue[d].seen # NotYet
      BY <3>1, MergesDoes
    <3>3. <<k, Taken(d)[k]>> \notin Weaker
      BY <2>1, <3>1, <3>2, MergeKnows
    <3> QED
      BY <1>1, <2>1, <3>3
  <2>2. CASE StoresSignatures(d) /\ k \in Signatures
    BY <1>1, <2>2, KeysAssumption, ChoicesAssumption
  <2> QED
    BY <1>1, <2>1, <2>2, SettingsChange
<1>2. Types /\ [Next]_vars => [\A d \in Devices, k \in Keys :
          local'[d][k] # local[d][k] /\ <<k, local'[d][k]>> \in Weaker => edits' = edits + 1]_vars
  BY <1>1
<1> QED
  BY <1>2, TypesAlways, PTL DEF Spec, NeverWeakened

-----------------------------------------------------------------------------
(***************************************************************************)
(* What changed here stays.                                                *)
(***************************************************************************)

\* Storing signatures doesn't fail, or there are none.
SignaturesStored == "store" \notin Faults \/ Signatures = {}

LEMMA QuietApplies ==
  ASSUME Types, SignaturesStored, NEW d \in Devices, Quiet(d)
  PROVE  queue'[d].at = "apply" <=> queue[d].at = "apply"
<1>1. queue[d].at = "apply" => Signatures # {}
  BY DEF Types, QueueFits
<1> QED
  BY <1>1 DEF Quiet, SignaturesStored

LEMMA KeptElsewhere ==
  ASSUME Kept, NEW d \in Devices, Elsewhere(d), Keeps(queue'[d], meta'[d], local'[d], unsent'[d])
  PROVE  Kept'
<1>1. \A e \in Devices : Keeps(queue'[e], meta'[e], local'[e], unsent'[e])
  BY DEF Kept, Elsewhere
<1> QED
  BY <1>1 DEF Kept, Keeps, Saw, Waits

LEMMA KeptQuietly == ASSUME Types, Kept, SignaturesStored, NEW d \in Devices, Quiet(d) PROVE Kept'
<1>1. \A k \in Keys : Saw(queue'[d], k) = Saw(queue[d], k) /\ Waits(queue'[d], meta'[d], k) = Waits(queue[d], meta[d], k)
  BY QuietApplies DEF Quiet, Saw, Waits
<1>2. Keeps(queue[d], meta[d], local[d], unsent[d]) /\ unsent[d] \in SUBSET Keys
  BY DEF Kept, Types
<1>3. Keeps(queue'[d], meta'[d], local'[d], unsent'[d])
  BY <1>1, <1>2 DEF Keeps, Quiet
<1> QED
  BY <1>3, KeptElsewhere DEF Quiet

LEMMA KeptEdited ==
  ASSUME Types, Kept, ~EarlyEdits, NEW d \in Devices, NEW k \in Keys, NEW v \in Values[k] \union {None}, Edit(d, k, v)
  PROVE  Kept'
<1>1. Edited(d, k, v) /\ unsent[d] \in SUBSET Keys
  BY EditDoes DEF Types
<1>2. /\ Elsewhere(d) /\ queue'[d].snapshot = queue[d].snapshot /\ queue'[d].answer = queue[d].answer /\ meta'[d] = meta[d]
      /\ \A e \in Keys : local'[d][e] = IF e = k THEN v ELSE local[d][e]
      /\ unsent'[d] = IF IsChange(d, k, v) THEN unsent[d] \union {k} ELSE unsent[d] \ {k}
      /\ Running(d) /\ queue[d].snapshot # NotYet
      /\ \A e \in Keys : Saw(queue'[d], e) = Saw(queue[d], e) /\ Waits(queue'[d], meta'[d], e) = Waits(queue[d], meta[d], e)
  BY <1>1 DEF Edited, Alike, Saw, Waits
<1>3. ASSUME NEW e \in unsent'[d] \ Signatures
      PROVE  \/ e \in meta'[d].refused
             \/ queue'[d].snapshot # NotYet /\ Saw(queue'[d], e) # local'[d][e]
             \/ Waits(queue'[d], meta'[d], e) = local'[d][e] /\ queue'[d].answer # "ok"
  <2>1. e \in Keys
    BY <1>1, <1>2
  <2>2. CASE e # k
    <3>1. e \in unsent[d]
      BY <1>2, <2>2
    <3> QED
      BY <1>2, <1>3, <2>1, <2>2, <3>1 DEF Kept, Keeps
  <2>3. CASE e = k
    <3>1. IsChange(d, k, v)
      BY <1>2, <2>3
    <3> QED
      BY <1>2, <2>1, <2>3, <3>1 DEF IsChange
  <2> QED
    BY <2>2, <2>3
<1>4. Keeps(queue'[d], meta'[d], local'[d], unsent'[d])
  BY <1>3 DEF Keeps
<1> QED
  BY <1>2, <1>4, KeptElsewhere

\* What a look finds changed here and not sent: it is refused, or waits.
LEMMA LookKeeps ==
  ASSUME Types, Kept, NEW d \in Devices, queue[d].seen # NotYet, queue[d].at # "apply", queue[d].answer = "none",
         NEW k \in unsent[d] \ Signatures
  PROVE  /\ k \in Keys /\ Now(d)[k] = local[d][k] /\ local[d][k] # Same
         /\ k \in Captured(d).refused \/ Captured(d).pending[k] = local[d][k]
<1>1. k \in Keys /\ Keeps(queue[d], meta[d], local[d], unsent[d]) /\ local[d] \in Copies
  BY DEF Types, Kept
<1>2. Now(d)[k] = local[d][k] /\ local[d][k] # Same
  BY <1>1, Looked, CopyEntries
<1>3. CASE Changes(d)[k] = Same
  <2>1. k \notin In(Changes(d)) /\ (queue[d].snapshot = NotYet \/ queue[d].snapshot[k] = local[d][k])
    BY <1>1, <1>2, <1>3, Looked DEF In
  <2>2. k \in meta[d].refused \/ meta[d].pending[k] = local[d][k]
    BY <1>1, <2>1 DEF Keeps, Saw, Waits
  <2> QED
    BY <1>1, <1>2, <1>3, <2>1, <2>2, CapturedIs
<1>4. CASE Changes(d)[k] # Same
  BY <1>1, <1>2, <1>4, Looked, CapturedIs
<1> QED
  BY <1>1, <1>2, <1>3, <1>4

LEMMA KeptNoted ==
  ASSUME Types, Kept, NEW d \in Devices, TakesBaseline(d) \/ NotesChange(d) PROVE Kept'
<1>1. unsent[d] \in SUBSET Keys /\ Keeps(queue[d], meta[d], local[d], unsent[d])
  BY DEF Types, Kept
<1>2. CASE TakesBaseline(d)
  <2>1. \A k \in unsent[d] \ Signatures : k \in meta[d].refused \/ meta[d].pending[k] = local[d][k]
    BY <1>1, <1>2, BaselineDoes DEF Keeps, Waits
  <2>2. Keeps(queue'[d], meta'[d], local'[d], unsent'[d])
    BY <1>2, <2>1, BaselineDoes DEF Keeps, Waits
  <2> QED
    BY <1>2, <2>2, KeptElsewhere, BaselineDoes
<1>3. CASE NotesChange(d)
  <2>1. \A k \in unsent[d] \ Signatures : k \in Captured(d).refused \/ Captured(d).pending[k] = local[d][k]
    BY <1>3, NotesDoes, LookKeeps
  <2>2. Keeps(queue'[d], meta'[d], local'[d], unsent'[d])
    BY <1>3, <2>1, NotesDoes DEF Keeps, Waits
  <2> QED
    BY <1>3, <2>2, KeptElsewhere, NotesDoes
<1> QED
  BY <1>2, <1>3

\* ... and the server's value isn't taken.
LEMMA MergeKeeps ==
  ASSUME Types, Kept, NEW d \in Devices, Merges(d), NEW k \in unsent[d] \ Signatures
  PROVE  k \in Keys /\ Taken(d)[k] = Same
         /\ (k \in Captured(d).refused \/ Captured(d).pending[k] = local[d][k]) /\ Now(d)[k] = local[d][k]
         /\ local[d][k] # Same
<1>1. /\ k \in Keys /\ Now(d)[k] = local[d][k] /\ local[d][k] # Same
      /\ k \in Captured(d).refused \/ Captured(d).pending[k] = local[d][k]
  BY MergesDoes, LookKeeps
<1>2. Taken(d)[k] = Same
  BY <1>1, MergesDoes, MergeKnows
<1> QED
  BY <1>1, <1>2

LEMMA KeptMerged == ASSUME Types, Kept, NEW d \in Devices, Merges(d) PROVE Kept'
<1>1. queue[d].at = "merge" /\ queue[d].seen # NotYet /\ queue'[d].answer = "none" /\ (TakenNow(d) \/ TakenLater(d))
  BY MergesDoes
<1>2. meta'[d].refused = Captured(d).refused /\ \A k \in Keys : Waits(queue'[d], meta'[d], k) = Left(d)[k]
  BY <1>1 DEF TakenNow, TakenLater, Waits
<1>3. ASSUME NEW k \in unsent'[d] \ Signatures
      PROVE  k \in meta'[d].refused \/ Waits(queue'[d], meta'[d], k) = local'[d][k]
  <2>1. k \in unsent[d] \ Signatures /\ k \notin Known(d)
    BY <1>3, MergesDoes
  <2>2. /\ k \in Keys /\ Taken(d)[k] = Same /\ Now(d)[k] = local[d][k] /\ local[d][k] # Same
        /\ k \in Captured(d).refused \/ Captured(d).pending[k] = local[d][k]
    BY <2>1, MergeKeeps
  <2>3. local'[d][k] = local[d][k]
    BY <2>2, MergesDoes
  <2>4. CASE k \in Captured(d).refused
    BY <1>2, <2>4
  <2>5. CASE k \notin Captured(d).refused
    <3>1. Captured(d).pending[k] # Same /\ Captured(d).pending[k] = local[d][k]
      BY <2>2, <2>5
    <3>2. Captured(d).pending[k] # queue[d].loaded[k]
      BY <2>1, <2>2, <3>1 DEF Known, In
    <3>3. Left(d)[k] = Captured(d).pending[k]
      BY <1>1, <2>2, <2>5, <3>1, <3>2, MergeKnows
    <3> QED
      BY <1>2, <2>2, <2>3, <3>1, <3>3
  <2> QED
    BY <2>4, <2>5
<1>4. Keeps(queue'[d], meta'[d], local'[d], unsent'[d])
  BY <1>1, <1>3 DEF Keeps
<1> QED
  BY <1>4, KeptElsewhere, MergesDoes

LEMMA KeptStored == ASSUME Types, Kept, NEW d \in Devices, StoresSignatures(d) PROVE Kept'
<1>1. /\ queue[d].at = "apply" /\ queue[d].answer = "none" /\ queue'[d].at = "push" /\ queue'[d].answer = "none"
      /\ meta'[d].pending = queue[d].next /\ meta'[d].refused = meta[d].refused /\ queue'[d].snapshot # NotYet
      /\ unsent'[d] = unsent[d] /\ unsent[d] \in SUBSET Keys /\ Elsewhere(d)
      /\ Keeps(queue[d], meta[d], local[d], unsent[d])
  BY StoresDoes DEF Types, Kept
<1>2. \A k \in Keys : /\ Saw(queue'[d], k) = Saw(queue[d], k)
                      /\ Waits(queue'[d], meta'[d], k) = Waits(queue[d], meta[d], k)
                      /\ k \notin Signatures => local'[d][k] = local[d][k]
  BY <1>1, StoresDoes DEF Saw, Waits
<1>3. Keeps(queue'[d], meta'[d], local'[d], unsent'[d])
  BY <1>1, <1>2 DEF Keeps
<1> QED
  BY <1>1, <1>3, KeptElsewhere

LEMMA KeptWritten ==
  ASSUME Types, Kept, NEW d \in Devices, queue[d].at = "push", Written(d),
         UNCHANGED <<local, meta, removed, agreed, counters>>
  PROVE  Kept'
<1>1. ASSUME NEW k \in unsent'[d] \ Signatures
      PROVE  k \in meta'[d].refused \/ (queue'[d].snapshot # NotYet /\ Saw(queue'[d], k) # local'[d][k])
  <2>1. k \in unsent[d] /\ ~(k \in In(meta[d].pending) /\ local[d][k] = meta[d].pending[k])
    BY <1>1, WrittenDoes
  <2>2. k \in Keys /\ local[d][k] # Same
    BY <2>1, CopyEntries DEF Types
  <2>3. meta[d].pending[k] # local[d][k]
    BY <2>1, <2>2 DEF In
  <2>4. Waits(queue[d], meta[d], k) # local[d][k]
    BY <2>3 DEF Waits
  <2>5. Saw(queue'[d], k) = Saw(queue[d], k)
    BY WrittenDoes DEF Saw
  <2> QED
    BY <1>1, <2>1, <2>4, <2>5, WrittenDoes DEF Kept, Keeps
<1>2. Keeps(queue'[d], meta'[d], local'[d], unsent'[d])
  BY <1>1 DEF Keeps
<1> QED
  BY <1>2, KeptElsewhere, WrittenDoes

LEMMA KeptAnswered ==
  ASSUME Types, Kept, NEW d \in Devices, Sent(d) \/ Refuses(d) \/ Quit(d) PROVE Kept'
<1>1. Keeps(queue[d], meta[d], local[d], unsent[d]) /\ unsent[d] \in SUBSET Keys /\ local[d] \in Copies
  BY DEF Types, Kept
<1>2. CASE Sent(d)
  <2>1. \A k \in Keys : Saw(queue'[d], k) = Saw(queue[d], k)
    BY <1>2, SentDoes DEF Saw
  <2>2. Keeps(queue'[d], meta'[d], local'[d], unsent'[d])
    BY <1>1, <1>2, <2>1, SentDoes DEF Keeps
  <2> QED
    BY <1>2, <2>2, KeptElsewhere, SentDoes
<1>3. CASE Refuses(d)
  <2>1. \A k \in Keys : Saw(queue'[d], k) = Saw(queue[d], k) /\ Waits(queue[d], meta[d], k) = meta[d].pending[k]
                        /\ Waits(queue'[d], meta'[d], k) = meta'[d].pending[k]
    BY <1>3, RefusesDoes DEF Saw, Waits
  <2>2. Keeps(queue'[d], meta'[d], local'[d], unsent'[d])
    BY <1>1, <1>3, <2>1, RefusesDoes DEF Keeps
  <2> QED
    BY <1>3, <2>2, KeptElsewhere, RefusesDoes
<1>4. CASE Quit(d)
  <2>1. \A k \in Keys : Waits(queue'[d], meta'[d], k) = meta[d].pending[k]
    BY <1>4, QuitDoes DEF Waits
  <2>2. Keeps(queue'[d], meta'[d], local'[d], unsent'[d])
    BY <1>1, <1>4, <2>1, QuitDoes DEF Keeps
  <2> QED
    BY <1>4, <2>2, KeptElsewhere, QuitDoes
<1> QED
  BY <1>2, <1>3, <1>4

LEMMA KeptStays == SignaturesStored /\ ~EarlyEdits => (Types /\ Kept /\ [Next]_vars => Kept')
<1> SUFFICES ASSUME SignaturesStored, ~EarlyEdits, Types, Kept, [Next]_vars PROVE Kept'
  OBVIOUS
<1>1. CASE UNCHANGED vars
  BY <1>1, Unchanged DEF Kept, Keeps, Saw, Waits
<1>2. CASE \E d \in Devices, k \in Keys : \E v \in Values[k] \union {None} : Edit(d, k, v)
  BY <1>2, KeptEdited
<1>3. ASSUME NEW d \in Devices, Quiet(d) \/ Acts(d) PROVE Kept'
  <2>1. CASE Quiet(d) \/ TakesBaseline(d) \/ NotesChange(d)
    BY <2>1, KeptQuietly, KeptNoted
  <2>2. CASE Merges(d) \/ StoresSignatures(d)
    BY <2>2, KeptMerged, KeptStored
  <2>3. CASE Sent(d) \/ Refuses(d) \/ Quit(d)
    BY <2>3, KeptAnswered
  <2>4. CASE queue[d].at = "push" /\ Written(d) /\ UNCHANGED <<local, meta, removed, agreed, counters>>
    BY <2>4, KeptWritten
  <2> QED
    BY <1>3, <2>1, <2>2, <2>3, <2>4 DEF Acts
<1> QED
  BY <1>1, <1>2, <1>3, EveryStep

LEMMA KeptAlways == SignaturesStored /\ ~EarlyEdits => (Spec => []Kept)
<1> SUFFICES ASSUME SignaturesStored, ~EarlyEdits PROVE Spec => []Kept
  OBVIOUS
<1>1. Init => Kept
  BY DEF Init, Kept, Keeps
<1>2. Types /\ Kept /\ [Next]_vars => Kept'
  BY KeptStays
<1> QED
  BY <1>1, <1>2, TypesAlways, PTL DEF Spec

\* A setting changed here that the server hasn't had since keeps its value whatever the server, other
\* devices, lost answers or restarts bring (mergeWithServer). It takes a baseline before the first
\* change and signatures that are stored in the end: with an early change, or when storing them
\* fails after a merge took the settings, it is false.
THEOREM ChangesAreKept ==
  ASSUME SignaturesStored, ~EarlyEdits PROVE Spec => KeepsWhatChangedHere
<1>1. ASSUME Types, Kept, Next, NEW d \in Devices, NEW k \in Keys \ Signatures, k \in unsent[d],
             local'[d][k] # local[d][k]
      PROVE  edits' = edits + 1
  <2>1. CASE Merges(d) /\ Taken(d)[k] # Same
    BY <1>1, <2>1, MergeKeeps
  <2> QED
    BY <1>1, <2>1, SettingsChange
<1>2. Types /\ Kept /\ [Next]_vars => [\A d \in Devices, k \in Keys \ Signatures :
          k \in unsent[d] /\ local'[d][k] # local[d][k] => edits' = edits + 1]_vars
  BY <1>1
<1> QED
  BY <1>2, TypesAlways, KeptAlways, PTL DEF Spec, KeepsWhatChangedHere

-----------------------------------------------------------------------------
(***************************************************************************)
(* What is written was owed.                                               *)
(***************************************************************************)

LEMMA ChoicesElsewhere ==
  ASSUME ChoicesStay, NEW d \in Devices, Elsewhere(d), agreed' = agreed, agreed # {} => NoChoiceGone(values'),
         agreed # {} /\ queue'[d].at = "merge" => NoChoiceGone(queue'[d].loaded)
  PROVE  ChoicesStay'
  BY DEF ChoicesStay, Elsewhere, NoChoiceGone

LEMMA ChoicesStayThere == Types /\ ChoicesStay /\ [Next]_vars => ChoicesStay'
<1> SUFFICES ASSUME Types, ChoicesStay, [Next]_vars PROVE ChoicesStay'
  OBVIOUS
<1>1. CASE UNCHANGED vars
  BY <1>1, Unchanged DEF ChoicesStay, NoChoiceGone
<1>2. ASSUME NEW d \in Devices, NEW k \in Keys, NEW v \in Values[k] \union {None}, Edit(d, k, v) PROVE ChoicesStay'
  <2>1. Edited(d, k, v)
    BY <1>2, EditDoes
  <2>2. Elsewhere(d) /\ agreed' = agreed /\ values' = values /\ queue'[d].at = queue[d].at
        /\ queue'[d].loaded = queue[d].loaded
    BY <2>1 DEF Edited, Alike
  <2> QED
    BY <2>2, ChoicesElsewhere DEF ChoicesStay
<1>3. ASSUME NEW d \in Devices, Quiet(d) \/ Acts(d) PROVE ChoicesStay'
  <2>1. CASE Quiet(d)
    BY <2>1, ChoicesElsewhere DEF Quiet, ChoicesStay
  <2>2. CASE TakesBaseline(d) \/ NotesChange(d) \/ Sent(d) \/ Refuses(d) \/ Quit(d) \/ StoresSignatures(d)
    <3>1. Elsewhere(d) /\ agreed' = agreed /\ values' = values /\ queue'[d].at # "merge"
      BY <2>2, BaselineDoes, NotesDoes, SentDoes, RefusesDoes, QuitDoes, StoresDoes
    <3> QED
      BY <3>1, ChoicesElsewhere DEF ChoicesStay
  <2>3. CASE Merges(d)
    <3>1. Elsewhere(d) /\ agreed' = agreed /\ values' = values /\ queue'[d].at # "merge"
      BY <2>3, MergesDoes DEF TakenNow, TakenLater
    <3> QED
      BY <3>1, ChoicesElsewhere DEF ChoicesStay
  <2>4. CASE queue[d].at = "push" /\ Written(d) /\ UNCHANGED <<local, meta, removed, agreed, counters>>
    <3>1. /\ Elsewhere(d) /\ agreed' = agreed /\ queue'[d].at # "merge"
          /\ \A k \in Keys : values'[k] = IF meta[d].pending[k] = Same THEN values[k] ELSE meta[d].pending[k]
      BY <2>4, WrittenDoes
    <3>2. agreed # {} => NoChoiceGone(values')
      BY <3>1 DEF Types, MetaFits, NoChoiceGone, ChoicesStay
    <3> QED
      BY <3>1, <3>2, ChoicesElsewhere
  <2> QED
    BY <1>3, <2>1, <2>2, <2>3, <2>4 DEF Acts
<1> QED
  BY <1>1, <1>2, <1>3, EveryStep

LEMMA OwingElsewhere ==
  ASSUME Types, Owing, NEW d \in Devices, Elsewhere(d), agreed' = agreed,
         faults' = 0 /\ quits' = 0 => faults = 0 /\ quits = 0,
         faults' = 0 /\ quits' = 0 /\ d \in agreed => Owes(queue'[d], meta'[d], local'[d], owed'[d])
  PROVE  Owing'
<1>1. ASSUME faults' = 0, quits' = 0, NEW e \in agreed'
      PROVE  Owes(queue'[e], meta'[e], local'[e], owed'[e])
  <2>1. e \in agreed /\ e \in Devices /\ Owes(queue[e], meta[e], local[e], owed[e])
    BY <1>1 DEF Owing, Types
  <2>2. CASE e = d
    BY <1>1, <2>1, <2>2
  <2>3. CASE e # d
    <3>1. queue'[e] = queue[e] /\ meta'[e] = meta[e] /\ local'[e] = local[e] /\ owed'[e] = owed[e]
      BY <2>1, <2>3 DEF Elsewhere
    <3> QED
      BY <2>1, <3>1
  <2> QED
    BY <2>2, <2>3
<1> QED
  BY <1>1 DEF Owing, Owes, Begins, OwesPending, OwesNext, OwesChanges, OwesSeen

LEMMA OwingQuietly == ASSUME Types, Owing, NEW d \in Devices, Quiet(d) PROVE Owing'
<1>1. ASSUME faults' = 0, quits' = 0, d \in agreed
      PROVE  Owes(queue'[d], meta'[d], local'[d], owed'[d])
  <2>1. faults = 0 /\ quits = 0 /\ faults' = faults
    BY <1>1 DEF Quiet, Types
  <2>2. Owes(queue[d], meta[d], local[d], owed[d]) /\ queue[d] \in QueueRecord /\ QueueFits(queue[d])
    BY <1>1, <2>1 DEF Owing, Types
  <2>3. /\ queue'[d].snapshot = queue[d].snapshot /\ meta'[d] = meta[d] /\ local'[d] = local[d] /\ owed'[d] = owed[d]
        /\ queue'[d].answer = "ok" <=> queue[d].answer = "ok"
        /\ queue'[d].at = "apply" <=> queue[d].at = "apply"
        /\ queue[d].at = "apply" => queue'[d].next = queue[d].next /\ queue'[d].apply = queue[d].apply
        /\ Begins(queue[d], meta[d]) => Begins(queue'[d], meta[d])
        /\ queue'[d].seen \in {queue[d].seen, NotYet} \/ (queue'[d].seen = local[d] /\ queue[d].at # "apply")
    BY <2>1 DEF Quiet
  <2>4. OwesChanges(queue'[d], local'[d], owed'[d])
    BY <2>2, <2>3 DEF Owes, OwesChanges
  <2>5. OwesSeen(queue'[d], local'[d], owed'[d])
    BY <2>2, <2>3, KeysAssumption DEF Owes, OwesChanges, OwesSeen
  <2>6. IF queue'[d].at = "apply" THEN OwesNext(queue'[d], owed'[d]) ELSE OwesPending(queue'[d], meta'[d], owed'[d])
    BY <2>2, <2>3 DEF Owes, OwesNext, OwesPending
  <2> QED
    BY <2>2, <2>3, <2>4, <2>5, <2>6 DEF Owes
<1>2. faults' = 0 /\ quits' = 0 => faults = 0 /\ quits = 0
  BY DEF Quiet, Types
<1> QED
  BY <1>1, <1>2, OwingElsewhere DEF Quiet

LEMMA OwingEdited ==
  ASSUME Types, Owing, NEW d \in Devices, NEW k \in Keys, NEW v \in Values[k] \union {None}, Edit(d, k, v)
  PROVE  Owing'
<1>1. Edited(d, k, v)
  BY EditDoes
<1>2. ASSUME faults' = 0, quits' = 0, d \in agreed
      PROVE  Owes(queue'[d], meta'[d], local'[d], owed'[d])
  <2>1. Owes(queue[d], meta[d], local[d], owed[d])
    BY <1>1, <1>2 DEF Owing, Edited
  <2>2. /\ Alike(queue'[d], queue[d]) /\ queue'[d].at = queue[d].at /\ queue'[d].answer = queue[d].answer
        /\ Begins(queue[d], meta[d]) => Begins(queue'[d], meta[d])
        /\ meta'[d] = meta[d] /\ \A e \in Keys : local'[d][e] = IF e = k THEN v ELSE local[d][e]
        /\ owed'[d] = owed[d] \union {k}
    BY <1>1 DEF Edited
  <2>3. OwesChanges(queue'[d], local'[d], owed'[d])
    BY <2>1, <2>2 DEF Owes, OwesChanges, Alike
  <2>4. OwesSeen(queue'[d], local'[d], owed'[d])
    BY <2>1, <2>2, KeysAssumption DEF Owes, OwesSeen, Alike
  <2>5. IF queue'[d].at = "apply" THEN OwesNext(queue'[d], owed'[d]) ELSE OwesPending(queue'[d], meta'[d], owed'[d])
    BY <2>1, <2>2 DEF Owes, OwesNext, OwesPending, Alike
  <2> QED
    BY <2>1, <2>2, <2>3, <2>4, <2>5 DEF Owes
<1> QED
  BY <1>1, <1>2, OwingElsewhere DEF Edited

\* What a step notes down is owed.
LEMMA CapturedOwes ==
  ASSUME Types, NEW d \in Devices, Owes(queue[d], meta[d], local[d], owed[d]), queue[d].at # "apply",
         queue[d].answer = "none", queue[d].seen # NotYet, queue[d].snapshot # NotYet, NEW k \in Keys
  PROVE  /\ Captured(d).pending[k] # Same => k \in owed[d] /\ Captured(d).pending[k] = Now(d)[k]
         /\ Now(d)[k] # local[d][k] => k \in owed[d]
<1>1. Now(d)[k] = IF k \in Signatures THEN queue[d].seen[k] ELSE local[d][k]
  BY Looked
<1>2. Now(d)[k] # local[d][k] => k \in owed[d]
  BY <1>1 DEF Owes, OwesSeen
<1>3. CASE Changes(d)[k] = Same
  <2>1. queue[d].snapshot[k] = Now(d)[k]
    BY <1>3, Looked, CopyEntries
  <2> QED
    BY <1>2, <1>3, <2>1, CapturedIs DEF Owes, OwesPending
<1>4. CASE Changes(d)[k] # Same
  <2>1. queue[d].snapshot[k] # Now(d)[k] /\ Changes(d)[k] = Now(d)[k]
    BY <1>4, Looked
  <2>2. k \in owed[d]
    BY <1>1, <2>1 DEF Owes, OwesChanges, OwesSeen
  <2> QED
    BY <1>2, <1>4, <2>1, <2>2, CapturedIs
<1> QED
  BY <1>3, <1>4

LEMMA OwingNoted ==
  ASSUME Types, Owing, NEW d \in Devices, TakesBaseline(d) \/ NotesChange(d) PROVE Owing'
<1>1. CASE TakesBaseline(d)
  <2>1. ASSUME faults' = 0, quits' = 0, d \in agreed
        PROVE  Owes(queue'[d], meta'[d], local'[d], owed'[d])
    <3>1. Owes(queue[d], meta[d], local[d], owed[d])
      BY <1>1, <2>1, BaselineDoes DEF Owing
    <3>2. \A k \in Keys : Now(d)[k] = IF k \in Signatures THEN queue[d].seen[k] ELSE local[d][k]
      BY <1>1, BaselineDoes, Looked
    <3>3. meta'[d].pending = NoPatch /\ meta'[d].synced
      BY <1>1, <3>1, BaselineDoes DEF Owes, Begins
    <3>4. OwesChanges(queue'[d], local'[d], owed'[d])
      BY <1>1, <3>1, <3>2, BaselineDoes DEF Owes, OwesChanges, OwesSeen
    <3>5. OwesSeen(queue'[d], local'[d], owed'[d]) /\ Begins(queue'[d], meta'[d])
      BY <1>1, BaselineDoes, NotTaken DEF OwesSeen, Begins
    <3>6. OwesPending(queue'[d], meta'[d], owed'[d])
      BY <3>3 DEF OwesPending, NoPatch
    <3> QED
      BY <1>1, <3>3, <3>4, <3>5, <3>6, BaselineDoes DEF Owes
  <2> QED
    BY <1>1, <2>1, BaselineDoes, OwingElsewhere
<1>2. CASE NotesChange(d)
  <2>1. ASSUME faults' = 0, quits' = 0, d \in agreed
        PROVE  Owes(queue'[d], meta'[d], local'[d], owed'[d])
    <3>1. Owes(queue[d], meta[d], local[d], owed[d]) /\ queue[d].at = "change" /\ queue[d].answer = "none"
      BY <1>2, <2>1, NotesDoes DEF Owing
    <3>2. \A k \in Keys : Now(d)[k] = IF k \in Signatures THEN queue[d].seen[k] ELSE local[d][k]
      BY <1>2, NotesDoes, Looked
    <3>3. queue[d].snapshot # NotYet /\ meta'[d].synced /\ meta'[d] = Captured(d)
      BY <1>2, <3>1, NotesDoes, CapturedIs DEF Owes, Begins
    <3>4. OwesChanges(queue'[d], local'[d], owed'[d])
      BY <1>2, <3>1, <3>2, NotesDoes DEF Owes, OwesChanges, OwesSeen
    <3>5. OwesSeen(queue'[d], local'[d], owed'[d]) /\ Begins(queue'[d], meta'[d])
      BY <1>2, NotesDoes, NotTaken DEF OwesSeen, Begins
    <3>6. \A k \in Keys : Captured(d).pending[k] # Same => k \in owed[d] /\ Captured(d).pending[k] = Now(d)[k]
      BY <1>2, <3>1, <3>3, NotesDoes, CapturedOwes
    <3>7. OwesPending(queue'[d], meta'[d], owed'[d])
      BY <1>2, <3>3, <3>6, NotesDoes DEF OwesPending
    <3> QED
      BY <1>2, <3>3, <3>4, <3>5, <3>7, NotesDoes DEF Owes
  <2> QED
    BY <1>2, <2>1, NotesDoes, OwingElsewhere
<1> QED
  BY <1>1, <1>2

LEMMA OwingMerged == ASSUME Types, ChoicesStay, Owing, NEW d \in Devices, Merges(d) PROVE Owing'
<1>1. ASSUME faults' = 0, quits' = 0, d \in agreed
      PROVE  Owes(queue'[d], meta'[d], local'[d], owed'[d])
  <2>1. /\ Owes(queue[d], meta[d], local[d], owed[d]) /\ queue[d].at = "merge" /\ queue[d].answer = "none"
        /\ queue[d].seen # NotYet
    BY <1>1, MergesDoes DEF Owing
  <2>2. queue[d].snapshot # NotYet /\ meta[d].synced /\ Captured(d).synced
    BY <2>1, CapturedIs DEF Owes, Begins
  <2>3. \A k \in Keys : /\ Captured(d).pending[k] # Same => k \in owed[d] /\ Captured(d).pending[k] = Now(d)[k]
                        /\ Now(d)[k] # local[d][k] => k \in owed[d]
    BY <2>1, <2>2, CapturedOwes
  <2>4. \A k \in Keys \ Lists : queue[d].loaded[k] # None
    BY <1>1, <2>1 DEF ChoicesStay, NoChoiceGone
  <2>5. owed'[d] = owed[d] \ Known(d) /\ Known(d) = {k \in Keys : /\ Captured(d).pending[k] # Same
                          /\ Captured(d).pending[k] = queue[d].loaded[k] /\ local[d][k] = Now(d)[k]}
    BY MergesDoes DEF Known, In
  <2>6. ASSUME NEW k \in Keys, Left(d)[k] # Same
        PROVE  k \in owed'[d] /\ Taken(d)[k] = Same /\ Left(d)[k] = Now(d)[k]
    <3>1. Captured(d).pending[k] # Same /\ Captured(d).pending[k] # queue[d].loaded[k]
          /\ Left(d)[k] = Captured(d).pending[k]
      BY <2>1, <2>2, <2>4, <2>6, MergeKnows
    <3>2. Taken(d)[k] = Same
      BY <2>1, <3>1, MergeKnows
    <3> QED
      BY <2>3, <2>5, <3>1, <3>2
  <2>7. ASSUME NEW k \in Keys, Now(d)[k] # local[d][k] PROVE k \in owed'[d]
    BY <2>3, <2>5, <2>7
  <2>8. \A k \in Keys : local'[d][k] = IF Taken(d)[k] = Same \/ k \in Signatures THEN local[d][k] ELSE Taken(d)[k]
    BY MergesDoes
  <2>9. \A k \in Keys : k \notin Signatures => Now(d)[k] = local[d][k]
    BY <2>1, Looked
  <2>10. /\ queue'[d].seen = NotYet /\ queue'[d].snapshot # NotYet /\ queue'[d].answer = "none"
         /\ TakenNow(d) \/ TakenLater(d)
    BY MergesDoes
  <2>11. OwesSeen(queue'[d], local'[d], owed'[d]) /\ Begins(queue'[d], meta'[d])
    BY <2>10 DEF OwesSeen, Begins
  <2>12. CASE TakenNow(d)
    <3>1. \A k \in Keys : queue'[d].snapshot[k] = IF Taken(d)[k] = Same THEN Now(d)[k] ELSE Taken(d)[k]
      BY <2>1, <2>12, Looked, MergeKnows, PatchedIsCopy DEF TakenNow
    <3>2. OwesChanges(queue'[d], local'[d], owed'[d])
      BY <2>7, <2>8, <2>12, <3>1 DEF OwesChanges, TakenNow
    <3>3. OwesPending(queue'[d], meta'[d], owed'[d])
      BY <2>6, <2>12, <3>1 DEF OwesPending, TakenNow
    <3> QED
      BY <2>11, <2>12, <3>2, <3>3 DEF Owes, TakenNow
  <2>13. CASE TakenLater(d)
    <3>1. OwesChanges(queue'[d], local'[d], owed'[d])
      BY <2>7, <2>8, <2>9, <2>13 DEF OwesChanges, TakenLater
    <3>2. OwesNext(queue'[d], owed'[d])
      BY <2>6, <2>13 DEF OwesNext, TakenLater
    <3> QED
      BY <2>2, <2>11, <2>13, <3>1, <3>2 DEF Owes, TakenLater
  <2> QED
    BY <2>10, <2>12, <2>13
<1> QED
  BY <1>1, MergesDoes, OwingElsewhere

LEMMA OwingStored == ASSUME Types, Owing, NEW d \in Devices, StoresSignatures(d) PROVE Owing'
<1>1. ASSUME faults' = 0, quits' = 0, d \in agreed
      PROVE  Owes(queue'[d], meta'[d], local'[d], owed'[d])
  <2>1. Owes(queue[d], meta[d], local[d], owed[d]) /\ queue[d].at = "apply" /\ queue[d].snapshot # NotYet
        /\ queue'[d].snapshot # NotYet /\ queue'[d].seen = NotYet /\ queue'[d].at = "push" /\ queue'[d].answer = "none"
        /\ meta'[d].synced /\ meta'[d].pending = queue[d].next /\ owed'[d] = owed[d]
    BY <1>1, StoresDoes DEF Owing
  <2>2. /\ \A k \in Keys : local'[d][k] = IF queue[d].apply[k] # Same /\ k \in Signatures THEN queue[d].apply[k]
                                         ELSE local[d][k]
        /\ \A k \in Keys : queue'[d].snapshot[k] = IF queue[d].apply[k] = Same THEN queue[d].snapshot[k]
                                                   ELSE queue[d].apply[k]
    BY StoresDoes
  <2>3. OwesSeen(queue'[d], local'[d], owed'[d]) /\ Begins(queue'[d], meta'[d])
    BY <2>1 DEF OwesSeen, Begins
  <2>4. OwesChanges(queue'[d], local'[d], owed'[d])
    BY <2>1, <2>2 DEF Owes, OwesChanges
  <2>5. OwesPending(queue'[d], meta'[d], owed'[d])
    BY <2>1, <2>2 DEF Owes, OwesNext, OwesPending
  <2> QED
    BY <2>1, <2>3, <2>4, <2>5 DEF Owes
<1> QED
  BY <1>1, StoresDoes, OwingElsewhere

LEMMA OwingWritten ==
  ASSUME Types, Owing, NEW d \in Devices, queue[d].at = "push", Written(d),
         UNCHANGED <<local, meta, removed, agreed, counters>>
  PROVE  Owing'
<1>1. ASSUME faults' = 0, quits' = 0, d \in agreed
      PROVE  Owes(queue'[d], meta'[d], local'[d], owed'[d])
  <2>1. /\ Owes(queue[d], meta[d], local[d], owed[d]) /\ queue[d].answer = "none" /\ queue'[d].seen = NotYet
        /\ queue'[d].snapshot = queue[d].snapshot /\ queue'[d].at = "saved" /\ queue'[d].answer = "ok"
        /\ meta'[d] = meta[d] /\ local'[d] = local[d]
    BY <1>1, WrittenDoes DEF Owing
  <2>2. \A k \in Keys : k \in owed[d] /\ k \notin owed'[d] => meta[d].pending[k] # Same /\ local[d][k] = meta[d].pending[k]
    BY WrittenDoes DEF In
  <2>3. queue[d].snapshot # NotYet
    BY <2>1 DEF Owes, Begins
  <2>4. OwesChanges(queue'[d], local'[d], owed'[d])
    BY <2>1, <2>2 DEF Owes, OwesChanges, OwesPending
  <2>5. OwesPending(queue'[d], meta'[d], owed'[d])
    BY <2>1 DEF Owes, OwesPending
  <2>6. OwesSeen(queue'[d], local'[d], owed'[d]) /\ Begins(queue'[d], meta'[d])
    BY <2>1, <2>3 DEF OwesSeen, Begins
  <2> QED
    BY <2>1, <2>4, <2>5, <2>6 DEF Owes
<1> QED
  BY <1>1, WrittenDoes, OwingElsewhere

LEMMA OwingAnswered ==
  ASSUME Types, Owing, NEW d \in Devices, Sent(d) \/ Refuses(d) \/ Quit(d) PROVE Owing'
<1>1. CASE Sent(d) \/ Refuses(d)
  <2>1. ASSUME faults' = 0, quits' = 0, d \in agreed
        PROVE  Owes(queue'[d], meta'[d], local'[d], owed'[d])
    <3>1. /\ Owes(queue[d], meta[d], local[d], owed[d]) /\ queue[d].at = "saved"
          /\ queue'[d].snapshot = queue[d].snapshot /\ queue'[d].at = "push" /\ queue'[d].answer = "none"
          /\ queue'[d].seen = NotYet /\ meta'[d].synced = meta[d].synced /\ local'[d] = local[d] /\ owed'[d] = owed[d]
      BY <1>1, <2>1, SentDoes, RefusesDoes DEF Owing
    <3>2. queue[d].snapshot # NotYet
      BY <3>1 DEF Owes, Begins
    <3>3. OwesChanges(queue'[d], local'[d], owed'[d])
      BY <3>1 DEF Owes, OwesChanges
    <3>4. OwesPending(queue'[d], meta'[d], owed'[d])
      <4>1. CASE Sent(d)
        BY <4>1, SentDoes DEF OwesPending, NoPatch
      <4>2. CASE Refuses(d)
        BY <3>1, <4>2, RefusesDoes DEF Owes, OwesPending
      <4> QED
        BY <1>1, <4>1, <4>2
    <3>5. OwesSeen(queue'[d], local'[d], owed'[d]) /\ Begins(queue'[d], meta'[d])
      BY <3>1, <3>2 DEF OwesSeen, Begins
    <3> QED
      BY <3>1, <3>3, <3>4, <3>5 DEF Owes
  <2> QED
    BY <1>1, <2>1, SentDoes, RefusesDoes, OwingElsewhere
<1>2. CASE Quit(d)
  <2>1. quits' # 0
    BY <1>2, QuitDoes DEF Types
  <2> QED
    BY <1>2, <2>1, QuitDoes, OwingElsewhere
<1> QED
  BY <1>1, <1>2

LEMMA OwingStays == Types /\ ChoicesStay /\ Owing /\ [Next]_vars => Owing'
<1> SUFFICES ASSUME Types, ChoicesStay, Owing, [Next]_vars PROVE Owing'
  OBVIOUS
<1>1. CASE UNCHANGED vars
  BY <1>1, Unchanged DEF Owing, Owes, Begins, OwesPending, OwesNext, OwesChanges, OwesSeen
<1>2. CASE \E d \in Devices, k \in Keys : \E v \in Values[k] \union {None} : Edit(d, k, v)
  BY <1>2, OwingEdited
<1>3. ASSUME NEW d \in Devices, Quiet(d) \/ Acts(d) PROVE Owing'
  <2>1. CASE Quiet(d) \/ TakesBaseline(d) \/ NotesChange(d)
    BY <2>1, OwingQuietly, OwingNoted
  <2>2. CASE Merges(d) \/ StoresSignatures(d)
    BY <2>2, OwingMerged, OwingStored
  <2>3. CASE Sent(d) \/ Refuses(d) \/ Quit(d)
    BY <2>3, OwingAnswered
  <2>4. CASE queue[d].at = "push" /\ Written(d) /\ UNCHANGED <<local, meta, removed, agreed, counters>>
    BY <2>4, OwingWritten
  <2> QED
    BY <1>3, <2>1, <2>2, <2>3, <2>4 DEF Acts
<1> QED
  BY <1>1, <1>2, <1>3, EveryStep

LEMMA OwingBegins == Init => Owing /\ ChoicesStay
<1> SUFFICES ASSUME Init PROVE Owing /\ ChoicesStay
  OBVIOUS
<1> DEFINE q == [Fresh("idle") EXCEPT !.chain = <<"baseline", "refresh">>]
           m0 == [EmptyMeta EXCEPT !.state = 0, !.synced = TRUE]
<1>1. q.at = "idle" /\ q.snapshot = NotYet /\ q.seen = NotYet /\ q.chain = <<"baseline", "refresh">>
  BY BeginningIs
<1>2. \A d \in Devices : queue[d] = q
  BY DEF Init
<1>3. q.chain # <<>> /\ q.chain[1] = "baseline"
  BY <1>1
<1>4. m0.pending = NoPatch /\ m0.synced
  BY DEF EmptyMeta
<1>5. agreed \subseteq Devices /\ \A d \in agreed : meta[d] = m0
  BY ChoicesAssumption DEF Init
<1> HIDE DEF q, m0
<1>6. ASSUME NEW d \in agreed PROVE Owes(queue[d], meta[d], local[d], owed[d])
  <2>1. queue[d] = q /\ meta[d] = m0
    BY <1>2, <1>5
  <2> QED
    BY <1>1, <1>3, <1>4, <2>1 DEF Owes, Begins, OwesChanges, OwesSeen, OwesPending, NoPatch
<1>7. ChoicesStay
  BY <1>1, <1>2 DEF ChoicesStay, Init, NoChoiceGone
<1> QED
  BY <1>6, <1>7 DEF Owing

LEMMA OwingAlways == Spec => [](ChoicesStay /\ Owing)
<1> QED
  BY OwingBegins, OwingStays, ChoicesStayThere, TypesAlways, PTL DEF Spec

LEMMA WhoWrites ==
  ASSUME Types, Next, NEW d \in Devices, values' # values, queue[d].at = "push", queue'[d].at = "saved"
  PROVE  Written(d) /\ UNCHANGED <<local, meta, removed, agreed, counters>>
<1>1. CASE \E e \in Devices, k \in Keys : \E v \in Values[k] \union {None} : Edit(e, k, v)
  BY <1>1, EditDoes DEF Edited
<1>2. ASSUME NEW e \in Devices, Quiet(e) \/ Acts(e)
      PROVE  Written(d) /\ UNCHANGED <<local, meta, removed, agreed, counters>>
  <2>1. Acts(e) /\ queue[e].at = "push" /\ Written(e) /\ UNCHANGED <<local, meta, removed, agreed, counters>>
    BY <1>2, BaselineDoes, NotesDoes, MergesDoes, StoresDoes, SentDoes, RefusesDoes, QuitDoes DEF Quiet, Acts
  <2>2. e = d
    BY <2>1, WrittenDoes DEF Elsewhere
  <2> QED
    BY <2>1, <2>2
<1> QED
  BY <1>1, <1>2, EveryStep

\* While requests are answered and the program goes on, what a device that agreed with the server
\* changes there its person changed since the server had it last: nothing that came from others is
\* sent back, nothing removed comes back (capture, merge, sent).
THEOREM OnlyOwedIsWritten == Spec => WritesAreOwed
<1>1. ASSUME Types, Owing, Next, NEW d \in Devices, NEW k \in Keys, values'[k] # values[k],
             queue[d].at = "push", queue'[d].at = "saved", d \in agreed, ~(faults > 0), ~(quits > 0)
      PROVE  k \in owed[d]
  <2>1. Written(d) /\ UNCHANGED <<local, meta, removed, agreed, counters>>
    BY <1>1, WhoWrites
  <2>2. meta[d].pending[k] # Same /\ queue[d].answer = "none"
    BY <1>1, <2>1, WrittenDoes
  <2>3. Owes(queue[d], meta[d], local[d], owed[d])
    BY <1>1 DEF Owing, Types
  <2> QED
    BY <1>1, <2>2, <2>3 DEF Owes, OwesPending
<1>2. Types /\ Owing /\ [Next]_vars => [\A k \in Keys, d \in Devices :
          values'[k] # values[k] /\ queue[d].at = "push" /\ queue'[d].at = "saved" =>
             \/ k \in owed[d]
             \/ d \notin agreed
             \/ faults > 0 \/ quits > 0]_vars
  BY <1>1
<1> QED
  BY <1>2, TypesAlways, OwingAlways, PTL DEF Spec, WritesAreOwed

-----------------------------------------------------------------------------
(***************************************************************************)
(* Nothing goes missing.                                                   *)
(***************************************************************************)

\* Of a step of one device the others see the server's values, of which only what someone removed
\* goes away.
LEMMA StayingElsewhere ==
  ASSUME Types, Staying, NEW d \in Devices, Elsewhere(d), removed \subseteq removed',
         \A k \in Keys : values[k] # None /\ values'[k] = None => k \in removed',
         OnlyRemoved(queue'[d], meta'[d], local'[d], values', removed'),
         Backed(queue'[d], meta'[d], local'[d], owed'[d], values', removed'),
         SignaturesOwed(queue'[d], local'[d], owed'[d], removed')
  PROVE  Staying'
<1>1. ASSUME NEW e \in Devices
      PROVE  /\ OnlyRemoved(queue'[e], meta'[e], local'[e], values', removed')
             /\ Backed(queue'[e], meta'[e], local'[e], owed'[e], values', removed')
             /\ SignaturesOwed(queue'[e], local'[e], owed'[e], removed')
  <2>1. CASE e = d
    BY <2>1
  <2>2. CASE e # d
    <3>1. queue'[e] = queue[e] /\ meta'[e] = meta[e] /\ local'[e] = local[e] /\ owed'[e] = owed[e]
      BY <2>2 DEF Elsewhere
    <3>2. OnlyRemoved(queue[e], meta[e], local[e], values, removed)
          /\ Backed(queue[e], meta[e], local[e], owed[e], values, removed)
          /\ SignaturesOwed(queue[e], local[e], owed[e], removed)
      BY DEF Staying
    <3>3. OnlyRemoved(queue'[e], meta'[e], local'[e], values', removed')
      BY <3>1, <3>2 DEF OnlyRemoved
    <3>4. Backed(queue'[e], meta'[e], local'[e], owed'[e], values', removed')
      BY <3>1, <3>2, KeysAssumption DEF Backed, There
    <3>5. SignaturesOwed(queue'[e], local'[e], owed'[e], removed')
      BY <3>1, <3>2 DEF SignaturesOwed
    <3> QED
      BY <3>3, <3>4, <3>5
  <2> QED
    BY <2>1, <2>2
<1> QED
  BY <1>1 DEF Staying, OnlyRemoved, Backed, There, SignaturesOwed, Saw

LEMMA StayingHere ==
  ASSUME Staying, NEW d \in Devices
  PROVE  /\ OnlyRemoved(queue[d], meta[d], local[d], values, removed)
         /\ Backed(queue[d], meta[d], local[d], owed[d], values, removed)
         /\ SignaturesOwed(queue[d], local[d], owed[d], removed)
  BY DEF Staying

LEMMA StayingQuietly == ASSUME Types, Staying, SignaturesStored, NEW d \in Devices, Quiet(d) PROVE Staying'
<1>1. /\ local'[d] = local[d] /\ meta'[d] = meta[d] /\ owed'[d] = owed[d] /\ values' = values /\ removed' = removed
      /\ queue'[d].snapshot = queue[d].snapshot /\ (queue'[d].answer = "ok" => queue[d].answer = "ok")
      /\ queue'[d].at = "merge" => queue'[d].loaded = IF queue[d].at = "merge" THEN queue[d].loaded ELSE values
      /\ Elsewhere(d)
      /\ queue'[d].seen \in {queue[d].seen, NotYet} \/ (queue'[d].seen = local[d] /\ queue[d].at # "apply")
      /\ queue'[d].at = "apply" => queue'[d].next = queue[d].next /\ queue'[d].apply = queue[d].apply
  BY DEF Quiet
<1>2. \A k \in Keys : Saw(queue'[d], k) = Saw(queue[d], k)
  BY <1>1, QuietApplies DEF Saw
<1>3. OnlyRemoved(queue'[d], meta'[d], local'[d], values', removed')
  <2>1. ASSUME NEW k \in Keys, queue'[d].seen # NotYet, queue'[d].seen[k] # None, local[d][k] = None
        PROVE  k \in removed
    BY <1>1, <2>1, StayingHere DEF OnlyRemoved
  <2>2. ASSUME NEW k \in Keys, queue'[d].seen # NotYet, queue[d].snapshot # NotYet, queue'[d].seen[k] = None,
               queue[d].snapshot[k] # None
        PROVE  k \in removed
    <3>1. CASE queue'[d].seen = queue[d].seen
      BY <2>2, <3>1, StayingHere DEF OnlyRemoved
    <3>2. CASE queue'[d].seen = local[d] /\ queue[d].at # "apply"
      BY <2>2, <3>2, StayingHere DEF OnlyRemoved, Saw
    <3> QED
      BY <1>1, <2>2, <3>1, <3>2
  <2>3. ASSUME NEW k \in Keys
        PROVE  /\ meta[d].pending[k] = None \/ (queue'[d].at = "apply" /\ queue'[d].next[k] = None) => k \in removed
               /\ queue'[d].at = "merge" /\ queue'[d].loaded[k] # None /\ values[k] = None => k \in removed
               /\ queue[d].snapshot # NotYet /\ local[d][k] = None
                     /\ (IF k \in Signatures THEN queue[d].snapshot[k] ELSE Saw(queue[d], k)) # None => k \in removed
    BY <1>1, QuietApplies, StayingHere DEF OnlyRemoved
  <2> QED
    BY <1>1, <1>2, <2>1, <2>2, <2>3 DEF OnlyRemoved
<1>4. Backed(queue'[d], meta'[d], local'[d], owed'[d], values', removed')
  BY <1>1, QuietApplies, StayingHere, KeysAssumption DEF Backed, There
<1>5. SignaturesOwed(queue'[d], local'[d], owed'[d], removed')
  BY <1>1, QuietApplies, StayingHere, KeysAssumption DEF SignaturesOwed
<1> QED
  BY <1>1, <1>3, <1>4, <1>5, StayingElsewhere

LEMMA StayingEdited ==
  ASSUME Types, Staying, NEW d \in Devices, NEW k \in Keys, NEW v \in Values[k] \union {None}, Edit(d, k, v)
  PROVE  Staying'
<1>1. Edited(d, k, v)
  BY EditDoes
<1>2. /\ Elsewhere(d) /\ Alike(queue'[d], queue[d]) /\ queue'[d].at = queue[d].at /\ queue'[d].answer = queue[d].answer
      /\ meta'[d] = meta[d] /\ (\A e \in Keys : local'[d][e] = IF e = k THEN v ELSE local[d][e])
      /\ owed'[d] = owed[d] \union {k} /\ removed' = IF v = None THEN removed \union {k} ELSE removed
      /\ values' = values
  BY <1>1 DEF Edited
<1>3. OnlyRemoved(queue'[d], meta'[d], local'[d], values', removed')
  BY <1>2, StayingHere DEF OnlyRemoved, Alike, Saw
<1>4. Backed(queue'[d], meta'[d], local'[d], owed'[d], values', removed')
  BY <1>2, StayingHere, KeysAssumption DEF Backed, There, Alike
<1>5. SignaturesOwed(queue'[d], local'[d], owed'[d], removed')
  BY <1>2, StayingHere, KeysAssumption DEF SignaturesOwed, Alike
<1> QED
  BY <1>2, <1>3, <1>4, <1>5, StayingElsewhere

\* What a look finds removed someone removed.
LEMMA LookStays ==
  ASSUME Types, Staying, NEW d \in Devices, queue[d].seen # NotYet, queue[d].at # "apply", NEW k \in Keys
  PROVE  /\ Captured(d).pending[k] = None => k \in removed
         /\ Now(d)[k] # None /\ local[d][k] = None => k \in removed
         /\ meta[d].pending[k] # Same => Captured(d).pending[k] # Same
         /\ k \in meta[d].refused => k \in Captured(d).refused \/ Captured(d).pending[k] # Same
         /\ Now(d)[k] # local[d][k] => k \in owed[d]
<1>1. Now(d)[k] = IF k \in Signatures THEN queue[d].seen[k] ELSE local[d][k]
  BY Looked
<1>2. /\ Now(d)[k] # None /\ local[d][k] = None => k \in removed
      /\ Now(d)[k] # local[d][k] => k \in owed[d]
  BY <1>1, StayingHere DEF OnlyRemoved, SignaturesOwed
<1>3. CASE Changes(d)[k] = Same
  BY <1>2, <1>3, StayingHere, CapturedIs DEF OnlyRemoved, In
<1>4. CASE Changes(d)[k] # Same
  <2>1. queue[d].snapshot # NotYet /\ queue[d].snapshot[k] # Now(d)[k] /\ Changes(d)[k] = Now(d)[k]
    BY <1>4, Looked
  <2>2. Now(d)[k] = None => k \in removed
    BY <1>1, <2>1, StayingHere DEF OnlyRemoved, Saw
  <2> QED
    BY <1>2, <1>4, <2>1, <2>2, CapturedIs
<1> QED
  BY <1>3, <1>4

LEMMA StayingNoted ==
  ASSUME Types, Staying, NEW d \in Devices, TakesBaseline(d) \/ NotesChange(d) PROVE Staying'
<1>1. CASE TakesBaseline(d)
  <2>1. \A k \in Keys : Now(d)[k] # None /\ local[d][k] = None => k \in removed
    BY <1>1, BaselineDoes, LookStays
  <2>2. OnlyRemoved(queue'[d], meta'[d], local'[d], values', removed')
    BY <1>1, <2>1, BaselineDoes, StayingHere DEF OnlyRemoved, Saw
  <2>3. Backed(queue'[d], meta'[d], local'[d], owed'[d], values', removed')
    BY <1>1, KeysAssumption, BaselineDoes, StayingHere DEF Backed, There
  <2>4. SignaturesOwed(queue'[d], local'[d], owed'[d], removed')
    BY <1>1, BaselineDoes DEF SignaturesOwed
  <2> QED
    BY <1>1, <2>2, <2>3, <2>4, BaselineDoes, StayingElsewhere
<1>2. CASE NotesChange(d)
  <2>1. \A k \in Keys :
           /\ Captured(d).pending[k] = None => k \in removed
           /\ Now(d)[k] # None /\ local[d][k] = None => k \in removed
           /\ meta[d].pending[k] # Same => Captured(d).pending[k] # Same
           /\ k \in meta[d].refused => k \in Captured(d).refused \/ Captured(d).pending[k] # Same
    BY <1>2, NotesDoes, LookStays
  <2>2. Captured(d).synced = meta[d].synced
    BY <1>2, NotesDoes, CapturedIs
  <2>3. OnlyRemoved(queue'[d], meta'[d], local'[d], values', removed')
    BY <1>2, <2>1, NotesDoes DEF OnlyRemoved, Saw
  <2>4. Backed(queue'[d], meta'[d], local'[d], owed'[d], values', removed')
    BY <1>2, <2>1, <2>2, KeysAssumption, NotesDoes, StayingHere DEF Backed, There
  <2>5. SignaturesOwed(queue'[d], local'[d], owed'[d], removed')
    BY <1>2, NotesDoes DEF SignaturesOwed
  <2> QED
    BY <1>2, <2>3, <2>4, <2>5, NotesDoes, StayingElsewhere
<1> QED
  BY <1>1, <1>2

\* What a merge removes someone removed, or it is owed; and what is left afterwards is there, waits,
\* is refused or owed.
LEMMA MergeStays ==
  ASSUME Types, Staying, NEW d \in Devices, Merges(d), NEW k \in Keys
  PROVE  /\ Taken(d)[k] = None => k \in removed \union owed'[d]
         /\ Left(d)[k] = None => k \in removed
         /\ k \in Lists \ removed /\ (IF k \in Signatures /\ Taken(d)[k] # Same THEN Taken(d)[k] ELSE local'[d][k]) # None
               => values[k] # None \/ k \in owed'[d] \/ k \in Captured(d).refused \/ Left(d)[k] # Same
         /\ k \in Lists \ removed /\ Captured(d).synced /\ local'[d][k] # None
               => values[k] # None \/ k \in owed'[d] \/ k \in Captured(d).refused \/ Captured(d).pending[k] # Same
<1>1. /\ queue[d].at = "merge" /\ queue[d].seen # NotYet /\ Captured(d).synced = meta[d].synced
      /\ meta[d].synced \in BOOLEAN /\ local[d] \in Copies
      /\ local'[d][k] = IF Taken(d)[k] = Same \/ k \in Signatures THEN local[d][k] ELSE Taken(d)[k]
  BY MergesDoes, CapturedIs DEF Types, MetaRecord
<1>2. /\ Captured(d).pending[k] = None => k \in removed
      /\ Now(d)[k] # None /\ local[d][k] = None => k \in removed
      /\ meta[d].pending[k] # Same => Captured(d).pending[k] # Same
      /\ k \in meta[d].refused => k \in Captured(d).refused \/ Captured(d).pending[k] # Same
      /\ Now(d)[k] # local[d][k] => k \in owed[d]
  BY <1>1, LookStays
<1>3. /\ queue[d].loaded[k] # None /\ values[k] = None => k \in removed
      /\ k \in Lists \ removed /\ meta[d].synced /\ local[d][k] # None =>
            There(queue[d], meta[d], owed[d], values, k) /\ There(queue[d], meta[d], owed[d], queue[d].loaded, k)
  BY <1>1, StayingHere DEF OnlyRemoved, Backed
<1>4. k \in owed[d] /\ k \notin owed'[d] =>
         Captured(d).pending[k] # Same /\ Captured(d).pending[k] = queue[d].loaded[k] /\ local[d][k] = Now(d)[k]
  BY MergesDoes DEF Known, In
<1>5. /\ Taken(d)[k] # Same =>
            /\ k \notin Captured(d).refused /\ Captured(d).pending[k] = Same /\ queue[d].loaded[k] # Now(d)[k]
            /\ Taken(d)[k] = queue[d].loaded[k] /\ (Taken(d)[k] = None => Captured(d).synced /\ k \in Lists)
      /\ Left(d)[k] =
            IF k \in Captured(d).refused THEN Same
            ELSE IF Captured(d).pending[k] # Same
                 THEN (IF Captured(d).pending[k] = queue[d].loaded[k] THEN Same ELSE Captured(d).pending[k])
            ELSE IF queue[d].loaded[k] = None /\ Now(d)[k] # None /\ (~Captured(d).synced \/ k \notin Lists)
                 THEN Now(d)[k]
            ELSE Same
  BY <1>1, MergeKnows
<1>6. Now(d)[k] # Same
  BY <1>1, Looked, CopyEntries
<1>7. Taken(d)[k] = None => k \in removed \union owed'[d]
  BY <1>1, <1>2, <1>3, <1>4, <1>5, NoneIsNotSame DEF There
<1>8. Left(d)[k] = None => k \in removed
  BY <1>2, <1>5, NoneIsNotSame
<1>9. ASSUME k \in Lists \ removed, k \notin Captured(d).refused, Captured(d).pending[k] # Same, Left(d)[k] = Same
      PROVE  values[k] # None
  BY <1>2, <1>3, <1>5, <1>9
<1>10. ASSUME k \in Lists \ removed, k \notin Captured(d).refused, Captured(d).pending[k] = Same, local[d][k] # None,
              meta[d].synced
       PROVE  values[k] # None \/ k \in owed'[d]
  BY <1>2, <1>3, <1>4, <1>10 DEF There
<1>11. ASSUME k \in Lists \ removed, k \notin Captured(d).refused, Captured(d).pending[k] = Same, local[d][k] # None,
              ~meta[d].synced
       PROVE  values[k] # None \/ k \in owed'[d] \/ Left(d)[k] # Same
  BY <1>1, <1>2, <1>3, <1>4, <1>5, <1>6, <1>11
<1>12. ASSUME k \in Lists \ removed, Taken(d)[k] # Same, Taken(d)[k] # None
       PROVE  values[k] # None
  BY <1>3, <1>5, <1>12
<1>13. ASSUME k \in Lists \ removed,
              (IF k \in Signatures /\ Taken(d)[k] # Same THEN Taken(d)[k] ELSE local'[d][k]) # None
       PROVE  values[k] # None \/ k \in owed'[d] \/ k \in Captured(d).refused \/ Left(d)[k] # Same
  BY <1>1, <1>9, <1>10, <1>11, <1>12, <1>13
<1>14. ASSUME k \in Lists \ removed, Captured(d).synced, local'[d][k] # None
       PROVE  values[k] # None \/ k \in owed'[d] \/ k \in Captured(d).refused \/ Captured(d).pending[k] # Same
  BY <1>1, <1>10, <1>12, <1>14
<1> QED
  BY <1>7, <1>8, <1>13, <1>14

LEMMA StayingMerged == ASSUME Types, Staying, NEW d \in Devices, Merges(d) PROVE Staying'
<1>1. /\ queue[d].at = "merge" /\ queue[d].seen # NotYet /\ queue'[d].seen = NotYet /\ queue'[d].answer = "none"
      /\ Elsewhere(d) /\ values' = values /\ removed' = removed /\ (TakenNow(d) \/ TakenLater(d))
      /\ Now(d) \in Copies /\ Taken(d) \in Patches
      /\ \A k \in Keys : local'[d][k] = IF Taken(d)[k] = Same \/ k \in Signatures THEN local[d][k] ELSE Taken(d)[k]
  BY MergesDoes, MergeKnows, Looked
<1>2. \A k \in Keys :
         /\ Captured(d).pending[k] = None => k \in removed
         /\ Now(d)[k] # None /\ local[d][k] = None => k \in removed
         /\ k \notin Signatures => Now(d)[k] = local[d][k]
  BY <1>1, LookStays, Looked
<1>3. \A k \in Keys :
         /\ k \notin Signatures => Saw(queue'[d], k) = local'[d][k]
         /\ k \in Signatures => queue'[d].snapshot[k] = Now(d)[k] /\ local'[d][k] = local[d][k]
  <2>1. CASE TakenNow(d)
    <3>1. \A k \in Keys : queue'[d].snapshot[k] = IF Taken(d)[k] = Same THEN Now(d)[k] ELSE Taken(d)[k]
      BY <1>1, <2>1, PatchedIsCopy DEF TakenNow
    <3> QED
      BY <1>1, <1>2, <2>1, <3>1, KeysAssumption DEF TakenNow, Saw
  <2>2. CASE TakenLater(d)
    BY <1>1, <1>2, <2>2, KeysAssumption DEF TakenLater, Saw
  <2> QED
    BY <1>1, <2>1, <2>2
<1>4. OnlyRemoved(queue'[d], meta'[d], local'[d], values', removed')
  <2>1. \A k \in Keys : Left(d)[k] = None => k \in removed
    BY MergeStays
  <2>2. queue'[d].at # "merge" /\ \A k \in Keys :
          meta'[d].pending[k] = None \/ (queue'[d].at = "apply" /\ queue'[d].next[k] = None) => k \in removed
    BY <1>1, <1>2, <2>1 DEF TakenNow, TakenLater
  <2> QED
    BY <1>1, <1>2, <1>3, <2>2 DEF OnlyRemoved
<1>5. Backed(queue'[d], meta'[d], local'[d], owed'[d], values', removed')
  <2>1. \A k \in Lists \ removed :
           /\ (IF k \in Signatures /\ Taken(d)[k] # Same THEN Taken(d)[k] ELSE local'[d][k]) # None
               => values[k] # None \/ k \in owed'[d] \/ k \in Captured(d).refused \/ Left(d)[k] # Same
           /\ Captured(d).synced /\ local'[d][k] # None
               => values[k] # None \/ k \in owed'[d] \/ k \in Captured(d).refused \/ Captured(d).pending[k] # Same
    BY MergeStays, KeysAssumption
  <2>2. CASE TakenNow(d)
    BY <1>1, <2>1, <2>2 DEF Backed, There, TakenNow
  <2>3. CASE TakenLater(d)
    BY <1>1, <2>1, <2>3 DEF Backed, There, TakenLater
  <2> QED
    BY <1>1, <2>2, <2>3
<1>6. SignaturesOwed(queue'[d], local'[d], owed'[d], removed')
  <2>1. \A k \in Signatures : Taken(d)[k] = None => k \in removed \union owed'[d]
    BY MergeStays, KeysAssumption
  <2> QED
    BY <1>1, <2>1 DEF SignaturesOwed, TakenNow, TakenLater
<1> QED
  BY <1>1, <1>4, <1>5, <1>6, StayingElsewhere

LEMMA StayingStored == ASSUME Types, Staying, NEW d \in Devices, StoresSignatures(d) PROVE Staying'
<1>1. /\ Elsewhere(d) /\ values' = values /\ removed' = removed /\ owed'[d] = owed[d]
      /\ queue[d].at = "apply" /\ queue'[d].seen = NotYet /\ queue[d].snapshot # NotYet
      /\ queue'[d].at = "push" /\ queue'[d].answer = "none"
      /\ \A k \in Keys : local'[d][k] = IF queue[d].apply[k] # Same /\ k \in Signatures THEN queue[d].apply[k]
                                        ELSE local[d][k]
      /\ \A k \in Keys : queue'[d].snapshot[k] = IF queue[d].apply[k] = Same THEN queue[d].snapshot[k]
                                                 ELSE queue[d].apply[k]
      /\ meta'[d].pending = queue[d].next /\ meta'[d].refused = meta[d].refused
  BY StoresDoes
<1>2. OnlyRemoved(queue'[d], meta'[d], local'[d], values', removed')
  BY <1>1, StayingHere DEF OnlyRemoved, Saw
<1>3. Backed(queue'[d], meta'[d], local'[d], owed'[d], values', removed')
  BY <1>1, StayingHere, KeysAssumption DEF Backed, There
<1>4. SignaturesOwed(queue'[d], local'[d], owed'[d], removed')
  BY <1>1 DEF SignaturesOwed
<1> QED
  BY <1>1, <1>2, <1>3, <1>4, StayingElsewhere

LEMMA StayingWritten ==
  ASSUME Types, Staying, NEW d \in Devices, queue[d].at = "push", Written(d),
         UNCHANGED <<local, meta, removed, agreed, counters>>
  PROVE  Staying'
<1>1. OnlyRemoved(queue[d], meta[d], local[d], values, removed)
      /\ Backed(queue[d], meta[d], local[d], owed[d], values, removed)
  BY StayingHere
<1>2. /\ Elsewhere(d) /\ local'[d] = local[d] /\ meta'[d] = meta[d] /\ removed' = removed
      /\ queue'[d].snapshot = queue[d].snapshot /\ queue'[d].at = "saved" /\ queue'[d].seen = NotYet
      /\ \A k \in Keys : values'[k] = IF meta[d].pending[k] = Same THEN values[k] ELSE meta[d].pending[k]
      /\ \A k \in Keys : k \in owed[d] /\ k \notin owed'[d] => meta[d].pending[k] # Same
  BY WrittenDoes DEF In
<1>3. OnlyRemoved(queue'[d], meta'[d], local'[d], values', removed')
  BY <1>1, <1>2 DEF OnlyRemoved, Saw
<1>4. ASSUME NEW k \in Lists \ removed, meta[d].synced, local[d][k] # None
      PROVE  values'[k] # None \/ k \in owed'[d] \/ k \in meta[d].refused
  <2>1. k \in Keys /\ k \notin removed
    BY KeysAssumption
  <2>2. meta[d].pending[k] # None
    BY <1>1, <2>1 DEF OnlyRemoved
  <2>3. CASE meta[d].pending[k] # Same
    BY <1>2, <2>1, <2>2, <2>3
  <2>4. CASE meta[d].pending[k] = Same
    BY <1>1, <1>2, <1>4, <2>1, <2>4 DEF Backed, There
  <2> QED
    BY <2>3, <2>4
<1>5. Backed(queue'[d], meta'[d], local'[d], owed'[d], values', removed')
  BY <1>2, <1>4 DEF Backed, There
<1>6. SignaturesOwed(queue'[d], local'[d], owed'[d], removed')
  BY <1>2 DEF SignaturesOwed
<1>7. \A k \in Keys : values[k] # None /\ values'[k] = None => k \in removed'
  BY <1>1, <1>2 DEF OnlyRemoved
<1> QED
  BY <1>2, <1>3, <1>5, <1>6, <1>7, StayingElsewhere

LEMMA StayingAnswered ==
  ASSUME Types, Staying, NEW d \in Devices, Sent(d) \/ Refuses(d) \/ Quit(d) PROVE Staying'
<1>1. OnlyRemoved(queue[d], meta[d], local[d], values, removed)
      /\ Backed(queue[d], meta[d], local[d], owed[d], values, removed)
  BY StayingHere
<1>2. CASE Sent(d)
  <2>1. OnlyRemoved(queue'[d], meta'[d], local'[d], values', removed')
    BY <1>1, <1>2, SentDoes, NoneIsNotSame DEF OnlyRemoved, NoPatch, Saw
  <2>2. Backed(queue'[d], meta'[d], local'[d], owed'[d], values', removed')
    BY <1>1, <1>2, SentDoes DEF Backed, There
  <2>3. SignaturesOwed(queue'[d], local'[d], owed'[d], removed')
    BY <1>2, SentDoes DEF SignaturesOwed
  <2> QED
    BY <1>2, <2>1, <2>2, <2>3, SentDoes, StayingElsewhere
<1>3. CASE Refuses(d)
  <2>1. OnlyRemoved(queue'[d], meta'[d], local'[d], values', removed')
    BY <1>1, <1>3, RefusesDoes, NoneIsNotSame DEF OnlyRemoved, Saw
  <2>2. Backed(queue'[d], meta'[d], local'[d], owed'[d], values', removed')
    BY <1>1, <1>3, RefusesDoes, KeysAssumption DEF Backed, There
  <2>3. SignaturesOwed(queue'[d], local'[d], owed'[d], removed')
    BY <1>3, RefusesDoes DEF SignaturesOwed
  <2> QED
    BY <1>3, <2>1, <2>2, <2>3, RefusesDoes, StayingElsewhere
<1>4. CASE Quit(d)
  <2>1. OnlyRemoved(queue'[d], meta'[d], local'[d], values', removed')
    BY <1>1, <1>4, QuitDoes DEF OnlyRemoved
  <2>2. Backed(queue'[d], meta'[d], local'[d], owed'[d], values', removed')
    BY <1>1, <1>4, QuitDoes DEF Backed, There
  <2>3. SignaturesOwed(queue'[d], local'[d], owed'[d], removed')
    BY <1>4, QuitDoes DEF SignaturesOwed
  <2> QED
    BY <1>4, <2>1, <2>2, <2>3, QuitDoes, StayingElsewhere
<1> QED
  BY <1>2, <1>3, <1>4

LEMMA StayingStays == SignaturesStored => (Types /\ Staying /\ [Next]_vars => Staying')
<1> SUFFICES ASSUME SignaturesStored, Types, Staying, [Next]_vars PROVE Staying'
  OBVIOUS
<1>1. CASE UNCHANGED vars
  BY <1>1, Unchanged DEF Staying, OnlyRemoved, Backed, There, SignaturesOwed, Saw
<1>2. CASE \E d \in Devices, k \in Keys : \E v \in Values[k] \union {None} : Edit(d, k, v)
  BY <1>2, StayingEdited
<1>3. ASSUME NEW d \in Devices, Quiet(d) \/ Acts(d) PROVE Staying'
  <2>1. CASE Quiet(d) \/ TakesBaseline(d) \/ NotesChange(d)
    BY <2>1, StayingQuietly, StayingNoted
  <2>2. CASE Merges(d) \/ StoresSignatures(d)
    BY <2>2, StayingMerged, StayingStored
  <2>3. CASE Sent(d) \/ Refuses(d) \/ Quit(d)
    BY <2>3, StayingAnswered
  <2>4. CASE queue[d].at = "push" /\ Written(d) /\ UNCHANGED <<local, meta, removed, agreed, counters>>
    BY <2>4, StayingWritten
  <2> QED
    BY <1>3, <2>1, <2>2, <2>3, <2>4 DEF Acts
<1> QED
  BY <1>1, <1>2, <1>3, EveryStep

LEMMA StayingBegins == Init => Staying
<1> SUFFICES ASSUME Init PROVE Staying
  OBVIOUS
<1> DEFINE q == [Fresh("idle") EXCEPT !.chain = <<"baseline", "refresh">>]
           m0 == [EmptyMeta EXCEPT !.state = 0, !.synced = TRUE]
<1>1. q.at = "idle" /\ q.snapshot = NotYet /\ q.seen = NotYet
  BY BeginningIs
<1>2. \A d \in Devices : queue[d] = q
  BY DEF Init
<1>3. m0.pending = NoPatch /\ EmptyMeta.pending = NoPatch /\ EmptyMeta.synced = FALSE
  BY DEF EmptyMeta
<1>4. \A d \in Devices : meta[d] = (IF d \in agreed THEN m0 ELSE EmptyMeta) /\ (d \in agreed => local[d] = values)
  BY DEF Init
<1> HIDE DEF q, m0
<1>5. ASSUME NEW d \in Devices
      PROVE  /\ OnlyRemoved(queue[d], meta[d], local[d], values, removed)
             /\ Backed(queue[d], meta[d], local[d], owed[d], values, removed)
             /\ SignaturesOwed(queue[d], local[d], owed[d], removed)
  <2>1. queue[d].at = "idle" /\ queue[d].snapshot = NotYet /\ queue[d].seen = NotYet /\ meta[d].pending = NoPatch
        /\ (meta[d].synced => local[d] = values)
    BY <1>1, <1>2, <1>3, <1>4
  <2> QED
    BY <2>1, NoneIsNotSame DEF OnlyRemoved, Backed, There, SignaturesOwed, NoPatch
<1> QED
  BY <1>5 DEF Staying

LEMMA StayingAlways == SignaturesStored => (Spec => []Staying)
<1> SUFFICES ASSUME SignaturesStored PROVE Spec => []Staying
  OBVIOUS
<1>1. Types /\ Staying /\ [Next]_vars => Staying'
  BY StayingStays
<1> QED
  BY <1>1, StayingBegins, TypesAlways, PTL DEF Spec

\* What disappears from a device someone removed on some device, or its person changed it there and
\* the queue forgot that change when the program quit, or stored a signature over it: lists become
\* the union at first, and later the server's copy misses only what was removed (mergeWithServer,
\* sent, refuse). As before it takes a baseline before the first change, and signatures that are
\* stored in the end.
THEOREM NothingIsLost ==
  ASSUME SignaturesStored, ~EarlyEdits PROVE Spec => NothingVanishes
<1>1. ASSUME Types, Kept, Staying, Next, NEW d \in Devices, NEW k \in Keys, local[d][k] # None, local'[d][k] = None
      PROVE  k \in removed' \union Forgotten(d)
  <2>1. CASE Merges(d) /\ k \notin Signatures /\ Taken(d)[k] # Same /\ local'[d][k] = Taken(d)[k]
    <3>1. removed' = removed /\ owed'[d] \subseteq owed[d]
      BY <1>1, <2>1, MergesDoes
    <3>2. k \in removed \union owed'[d]
      BY <1>1, <2>1, MergeStays
    <3>3. k \notin unsent[d]
      BY <1>1, <2>1, MergeKeeps
    <3> QED
      BY <3>1, <3>2, <3>3 DEF Forgotten
  <2>2. CASE StoresSignatures(d) /\ k \in Signatures
    <3>1. queue[d].at = "apply" /\ queue[d].apply[k] = None /\ removed' = removed
      BY <1>1, <2>2, StoresDoes
    <3>2. k \in removed \union owed[d]
      BY <1>1, <2>2, <3>1, StayingHere DEF SignaturesOwed
    <3> QED
      BY <2>2, <3>1, <3>2 DEF Forgotten
  <2>3. CASE edits' = edits + 1
    <3>1. ASSUME NEW e \in Devices, Quiet(e) \/ Acts(e) PROVE edits' = edits
      BY <1>1, <3>1, BaselineDoes, NotesDoes, MergesDoes, StoresDoes, SentDoes, RefusesDoes, QuitDoes, WrittenDoes
      DEF Quiet, Acts
    <3>2. PICK e \in Devices, i \in Keys : \E v \in Values[i] \union {None} : Edit(e, i, v)
      <4>1. edits' # edits
        BY <1>1, <2>3 DEF Types
      <4> QED
        BY <1>1, <3>1, <4>1, EveryStep
    <3>3. PICK v \in Values[i] \union {None} : Edit(e, i, v)
      BY <3>2
    <3>4. Edited(e, i, v)
      BY <1>1, <3>3, EditDoes
    <3>5. e = d
      BY <1>1, <3>4 DEF Edited, Elsewhere
    <3>6. i = k /\ v = None
      BY <1>1, <3>4, <3>5 DEF Edited
    <3> QED
      BY <3>4, <3>6 DEF Edited
  <2> QED
    BY <1>1, <2>1, <2>2, <2>3, SettingsChange
<1>2. Types /\ Kept /\ Staying /\ [Next]_vars => [\A d \in Devices, k \in Keys :
          local[d][k] # None /\ local'[d][k] = None => k \in removed' \union Forgotten(d)]_vars
  BY <1>1
<1> QED
  BY <1>2, TypesAlways, KeptAlways, StayingAlways, PTL DEF Spec, NothingVanishes

=============================================================================
