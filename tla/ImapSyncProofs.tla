--------------------------- MODULE ImapSyncProofs ---------------------------
(***************************************************************************)
(* Theorems about ImapSync: for any mails, rows, calls and bounds, with      *)
(* other devices, new UIDVALIDITYs and connections that break, a stored uid  *)
(* is the uid of its own mail, a delete destroys what it was asked to, and   *)
(* what the sync passes over is what it is known to.                         *)
(***************************************************************************)
EXTENDS ImapSync, TLAPS, FiniteSetTheorems, WellFoundedInduction

-----------------------------------------------------------------------------
(***************************************************************************)
(* Uids and their largest.                                                 *)
(***************************************************************************)

LEMMA UidsAreNaturals == MaxUid \in Nat /\ Uids \subseteq Nat /\ 1 \in Uids
  BY BoundsAssumption DEF Uids

\* A set of numbers up to n has a largest one.
LEMMA MaxIsLargest ==
  ASSUME NEW n \in Nat, NEW S \in SUBSET (0..n), S # {}
  PROVE  Max(S) \in S /\ \A y \in S : y <= Max(S)
<1> DEFINE above(x) == {y \in S : x <= y}
           T == {above(x) : x \in S}
           smaller == StrictSubsetOrdering(0..n)
<1>1. T \subseteq FiniteSubsetsOf(0..n) /\ T # {}
  <2>1. FiniteSubsetsOf(0..n) = SUBSET (0..n)
    <3>1. IsFiniteSet(0..n)
      BY FS_Interval
    <3> QED
      BY <3>1, FS_FiniteSubsetsOfFinite
  <2>2. T \subseteq SUBSET (0..n)
    OBVIOUS
  <2> QED
    BY <2>1, <2>2
<1>2. IsWellFoundedOn(smaller, FiniteSubsetsOf(0..n))
  BY FS_StrictSubsetOrderingWellFounded
<1>3. PICK A \in T : \A B \in T : <<B, A>> \notin smaller
  <2> HIDE DEF T, smaller
  <2> QED
    BY <1>1, <1>2, WFMin
<1>4. PICK x \in S : A = above(x)
  BY <1>3
<1>5. ASSUME NEW y \in S PROVE x >= y
  <2> SUFFICES ASSUME y > x PROVE FALSE
    OBVIOUS
  <2>0. x \in Nat /\ y \in Nat
    OBVIOUS
  <2>1. above(y) \subseteq A /\ x \in A /\ x \notin above(y) /\ above(y) \in T
    <3>1. S \subseteq Nat
      OBVIOUS
    <3>2. above(y) \subseteq A /\ x \in A /\ x \notin above(y)
      <4>1. \A z \in S : z \in Nat
        BY <3>1
      <4>2. \A z \in S : y <= z => x <= z
        BY <2>0, <4>1
      <4>3. above(y) \subseteq above(x)
        BY <4>2
      <4>4. x \in above(x) /\ ~(y <= x)
        BY <2>0
      <4>5. x \notin above(y)
        BY <4>4
      <4> QED
        BY <1>4, <4>3, <4>4, <4>5
    <3> QED
      BY <3>2
  <2>2. above(y) \in SUBSET (0..n) /\ A \in SUBSET (0..n)
    BY <1>4
  <2>3. <<above(y), A>> \in smaller
    <3>1. PICK B \in SUBSET (0..n) : B = above(y) /\ B \subseteq A /\ B # A
      BY <2>1, <2>2
    <3>2. <<B, A>> \in (SUBSET (0..n)) \X (SUBSET (0..n)) /\ <<B, A>>[1] = B /\ <<B, A>>[2] = A
      BY <2>2
    <3> HIDE DEF above
    <3>3. <<B, A>> \in smaller
      BY <3>1, <3>2 DEF StrictSubsetOrdering
    <3> QED
      BY <3>1, <3>3
  <2> QED
    BY <1>3, <2>1, <2>3
<1>6. Max(S) \in S /\ \A y \in S : Max(S) >= y
  BY <1>5 DEF Max
<1> QED
  BY <1>6

LEMMA TopIsLargest ==
  ASSUME NEW S \in SUBSET Uids
  PROVE  /\ TopUid(S) \in 0..MaxUid /\ \A y \in S : y <= TopUid(S)
         /\ S = {} => TopUid(S) = 0
         /\ S # {} => TopUid(S) \in S
<1>1. S \subseteq 0..MaxUid
  BY UidsAreNaturals DEF Uids
<1>2. CASE S = {}
  BY <1>2, UidsAreNaturals DEF TopUid
<1>3. CASE S # {}
  BY <1>1, <1>3, MaxIsLargest, UidsAreNaturals DEF TopUid
<1> QED
  BY <1>2, <1>3

-----------------------------------------------------------------------------
(***************************************************************************)
(* What a step does to a folder, seen from one uid.                        *)
(***************************************************************************)

CallRecord == [at : CallSteps, row : Rows \union {None}, mail : Mails \union {None}, folder : Folders,
               to : Folders, uids : SUBSET Uids, seen : BOOLEAN, named : BOOLEAN, retried : BOOLEAN]

\* Calls that are about to put a mail into a folder, which has room for them.
Pending(f) == {c \in Calls : call[c].at = "move" /\ call[c].to = f}
HasRoom == \A f \in Folders : next[f] + Cardinality(Pending(f)) <= MaxUid + 1

\* What a call works on at each step.
IsCallFit(k) ==
    /\ k.at \in {"move", "mark", "clean", "found"} => \E u \in Uids : k.uids = {u}
    /\ k.at \in {"lookup", "destroy", "expunge", "drop"} => k.row \in Rows
CallsFit == \A c \in Calls : IsCallFit(call[c])

Base == TypeOK /\ HasRoom /\ CallsFit

LEMMA PendingIsFinite == ASSUME NEW f PROVE IsFiniteSet(Pending(f)) /\ Cardinality(Pending(f)) \in Nat
  BY CallsAssumption, FS_Subset, FS_CardinalityType DEF Pending

LEMMA NoCallIsRecord == NoCall \in CallRecord /\ IsCallFit(NoCall)
  BY FoldersAssumption DEF NoCall, CallRecord, CallSteps, Folders, IsCallFit

LEMMA NoSyncIsSync == ASSUME SyncOK, sync' = NoSync PROVE SyncOK'
  BY UidsAreNaturals DEF SyncOK, NoSync, SyncSteps, Folders

\* Room for one that has a call pending, or one that is asked for.
LEMMA PendingHasRoom == ASSUME Base, NEW f \in Folders, NEW c \in Pending(f) PROVE next[f] \in Uids
<1>1. Cardinality(Pending(f)) # 0
  BY PendingIsFinite, FS_EmptySet
<1> QED
  BY <1>1, PendingIsFinite, UidsAreNaturals DEF Base, HasRoom, TypeOK, ServerOK, Uids

LEMMA RoomIsRoom == ASSUME Base, NEW f \in Folders, Room(f) PROVE next[f] \in Uids
<1>1. next[f] + Cardinality(Pending(f)) <= MaxUid
  BY DEF Room, Pending
<1> QED
  BY <1>1, PendingIsFinite, UidsAreNaturals DEF Base, TypeOK, ServerOK, Uids

-----------------------------------------------------------------------------
(***************************************************************************)
(* Types.                                                                  *)
(***************************************************************************)

Boxes == [Folders -> [Uids -> Copy \union {None}]]
Has(b, f) == {u \in Uids : b[f][u] # None}

LEMMA TrashIsFolder == Inbox \in Folders /\ Trash \in Folders
  BY DEF Folders

LEMMA SameServer == ASSUME ServerOK, UNCHANGED server PROVE ServerOK'
  BY DEF ServerOK, server, On

LEMMA SameStore == ASSUME StoreOK, UNCHANGED store PROVE StoreOK'
  BY DEF StoreOK, store, Stored

\* Mails only leave, or change.
LEMMA BoxShrinks ==
  ASSUME ServerOK, box' \in Boxes, UNCHANGED <<next, validity>>, \A f \in Folders : Has(box', f) \subseteq On(f)
  PROVE  ServerOK'
  BY DEF ServerOK, Boxes, Has, On

\* A mail comes in, perhaps from another folder.
LEMMA AppendKeeps ==
  ASSUME ServerOK, NEW b \in Boxes, \A f \in Folders : Has(b, f) \subseteq On(f),
         NEW g \in Folders, next[g] \in Uids, NEW copy \in Copy, Append(b, g, copy)
  PROVE  ServerOK'
<1>0. Uids \subseteq Nat /\ MaxUid \in Nat /\ next \in [Folders -> 1..MaxUid + 1] /\ None \notin Copy
  BY UidsAreNaturals, NoneAssumption DEF ServerOK
<1>1. box' \in Boxes /\ validity' = validity
  BY DEF Append, Boxes
<1>2. next[g] + 1 \in 1..MaxUid + 1 /\ next' = [next EXCEPT ![g] = next[g] + 1]
  BY <1>0 DEF Append, Uids
<1>3. next' \in [Folders -> 1..MaxUid + 1]
  BY <1>0, <1>2
<1>4. ASSUME NEW f \in Folders, NEW u \in Uids, box'[f][u] # None PROVE u < next'[f]
  <2>1. u \in On(f) \/ (f = g /\ u = next[g])
    BY <1>4 DEF Append, Boxes, Has
  <2>2. next'[f] \in Nat /\ next[f] \in Nat /\ next'[f] >= next[f] /\ (f = g => next'[f] = next[f] + 1)
    BY <1>0, <1>2
  <2>3. u \in On(f) => u < next[f]
    BY DEF ServerOK
  <2> QED
    BY <1>0, <2>1, <2>2, <2>3
<1> QED
  BY <1>1, <1>3, <1>4 DEF ServerOK, Boxes, On

\* New uids, packed.
LEMMA RenumberKeeps == ASSUME ServerOK, NEW f \in Folders, Renumbers(f) PROVE ServerOK' /\ next'[f] <= next[f]
<1> DEFINE rank(u) == Cardinality({v \in On(f) : v <= u})
<1>0. Uids \subseteq Nat /\ MaxUid \in Nat /\ next \in [Folders -> 1..MaxUid + 1] /\ validity \in [Folders -> 1..MaxValidity]
  BY UidsAreNaturals DEF ServerOK
<1>1. IsFiniteSet(On(f)) /\ Cardinality(On(f)) \in Nat /\ Cardinality(On(f)) <= next[f] - 1
  <2>0. next[f] \in 1..MaxUid + 1 /\ \A u \in On(f) : u \in 1..MaxUid /\ u < next[f]
    BY <1>0 DEF ServerOK, On, Uids
  <2>1. On(f) \subseteq 1..next[f] - 1 /\ next[f] - 1 \in Nat
    BY <1>0, <2>0
  <2>2. IsFiniteSet(1..next[f] - 1) /\ Cardinality(1..next[f] - 1) = next[f] - 1
    BY <1>0, <2>1, FS_Interval
  <2> QED
    BY <2>1, <2>2, FS_Subset, FS_CardinalityType
<1>2. next' \in [Folders -> 1..MaxUid + 1] /\ next'[f] = Cardinality(On(f)) + 1 /\ \A g \in Folders \ {f} : next'[g] = next[g]
  <2>1. Cardinality(On(f)) + 1 \in 1..MaxUid + 1
    BY <1>0, <1>1
  <2> QED
    BY <1>0, <2>1 DEF Renumbers
<1>3. validity' \in [Folders -> 1..MaxValidity]
  BY <1>0, BoundsAssumption DEF Renumbers
<1>4. box' \in Boxes
  <2>1. box \in Boxes
    BY DEF ServerOK, Boxes
  <2>2. \A n \in Uids : (IF \E u \in On(f) : rank(u) = n THEN box[f][CHOOSE u \in On(f) : rank(u) = n] ELSE None)
                        \in Copy \union {None}
    <3> SUFFICES ASSUME NEW n \in Uids, \E u \in On(f) : rank(u) = n
                 PROVE  box[f][CHOOSE u \in On(f) : rank(u) = n] \in Copy \union {None}
      OBVIOUS
    <3>1. (CHOOSE u \in On(f) : rank(u) = n) \in On(f)
      OBVIOUS
    <3> QED
      BY <2>1, <3>1 DEF Boxes, On
  <2>3. box' = [box EXCEPT ![f] = [n \in Uids |-> IF \E u \in On(f) : rank(u) = n
                                                THEN box[f][CHOOSE u \in On(f) : rank(u) = n] ELSE None]]
    BY DEF Renumbers
  <2> QED
    BY <2>1, <2>2, <2>3 DEF Boxes
<1>5. ASSUME NEW g \in Folders, NEW n \in Uids, box'[g][n] # None PROVE n < next'[g]
  <2>1. CASE g # f
    <3>1. box'[g] = box[g]
      BY <2>1 DEF Renumbers, ServerOK
    <3> QED
      BY <1>2, <1>5, <2>1, <3>1 DEF ServerOK, On
  <2>2. CASE g = f
    <3>1. PICK u \in On(f) : rank(u) = n
      BY <1>5, <2>2 DEF Renumbers, ServerOK
    <3>2. rank(u) <= Cardinality(On(f))
      BY <1>1, FS_Subset
    <3> QED
      BY <1>0, <1>1, <1>2, <2>2, <3>1, <3>2
  <2> QED
    BY <2>1, <2>2
<1> QED
  BY <1>0, <1>1, <1>2, <1>3, <1>4, <1>5 DEF ServerOK, Boxes, On

\* One call goes on.
LEMMA CallGoesOn ==
  ASSUME CallOK, CallsFit, NEW c \in Calls, NEW k \in CallRecord, IsCallFit(k), call' = [call EXCEPT ![c] = k]
  PROVE  /\ CallOK' /\ CallsFit'
         /\ k.at # "move" => \A f \in Folders : Pending(f)' \subseteq Pending(f)
<1>0. call \in [Calls -> CallRecord]
  BY DEF CallOK, CallRecord
<1>1. call' \in [Calls -> CallRecord] /\ call'[c] = k /\ \A d \in Calls \ {c} : call'[d] = call[d]
  BY <1>0
<1> QED
  BY <1>1 DEF CallOK, CallRecord, CallsFit, Pending

LEMMA CallEnds ==
  ASSUME CallOK, CallsFit, NEW c \in Calls, Ends(c)
  PROVE  CallOK' /\ CallsFit' /\ \A f \in Folders : Pending(f)' \subseteq Pending(f)
<1>1. NoCall.at # "move"
  BY DEF NoCall
<1> QED
  BY <1>1, NoCallIsRecord, CallGoesOn DEF Ends

\* Uids are given out only to what had room for it.
LEMMA RoomStays ==
  ASSUME Base, \A f \in Folders : next'[f] \in Nat /\ next'[f] <= next[f] /\ Pending(f)' \subseteq Pending(f)
  PROVE  HasRoom'
<1> SUFFICES ASSUME NEW f \in Folders PROVE next'[f] + Cardinality(Pending(f)') <= MaxUid + 1
  BY DEF HasRoom
<1>1. Cardinality(Pending(f)') \in Nat /\ Cardinality(Pending(f)') <= Cardinality(Pending(f))
  BY PendingIsFinite, FS_Subset, FS_CardinalityType
<1>2. next[f] + Cardinality(Pending(f)) <= MaxUid + 1 /\ next[f] \in Nat
  BY UidsAreNaturals DEF Base, HasRoom, TypeOK, ServerOK
<1> QED
  BY <1>1, <1>2, PendingIsFinite, UidsAreNaturals

LEMMA SameRoom == ASSUME Base, UNCHANGED <<next, call>> PROVE HasRoom'
  BY DEF Base, HasRoom, Pending

\* A mail comes in for a call that had room.
LEMMA RoomUsed ==
  ASSUME Base, NEW c \in Calls, NEW g \in Folders, c \in Pending(g), next' = [next EXCEPT ![g] = @ + 1],
         \A h \in Folders : Pending(h)' \subseteq Pending(h), c \notin Pending(g)'
  PROVE  HasRoom'
<1> SUFFICES ASSUME NEW h \in Folders PROVE next'[h] + Cardinality(Pending(h)') <= MaxUid + 1
  BY DEF HasRoom
<1>0. next'[h] = IF h = g THEN next[h] + 1 ELSE next[h]
  BY DEF Base, TypeOK, ServerOK
<1>1. next[h] + Cardinality(Pending(h)) <= MaxUid + 1 /\ next[h] \in Nat
  BY UidsAreNaturals DEF Base, HasRoom, TypeOK, ServerOK
<1>2. CASE h = g
  <2>1. Pending(h)' \subseteq Pending(h) \ {c}
    BY <1>2
  <2>2. Cardinality(Pending(h) \ {c}) = Cardinality(Pending(h)) - 1 /\ IsFiniteSet(Pending(h) \ {c})
    BY <1>2, PendingIsFinite, FS_RemoveElement
  <2>3. Cardinality(Pending(h)') \in Nat /\ Cardinality(Pending(h)') <= Cardinality(Pending(h)) - 1
    BY <2>1, <2>2, FS_Subset, FS_CardinalityType
  <2>4. Cardinality(Pending(h)) \in Nat /\ next'[h] = next[h] + 1 /\ MaxUid \in Nat
    BY <1>0, <1>2, PendingIsFinite, UidsAreNaturals
  <2> QED
    BY <1>1, <2>3, <2>4
<1>3. CASE h # g
  <2>1. Cardinality(Pending(h)') \in Nat /\ Cardinality(Pending(h)') <= Cardinality(Pending(h))
    BY PendingIsFinite, FS_Subset, FS_CardinalityType
  <2> QED
    BY <1>0, <1>1, <1>3, <2>1, PendingIsFinite, UidsAreNaturals
<1> QED
  BY <1>2, <1>3

\* A call is about to move a mail into a folder that has room.
LEMMA RoomPromised ==
  ASSUME Base, NEW c \in Calls, NEW g \in Folders, c \notin Pending(g), Room(g), UNCHANGED next,
         Pending(g)' = Pending(g) \union {c}, \A f \in Folders \ {g} : Pending(f)' \subseteq Pending(f)
  PROVE  HasRoom'
<1> SUFFICES ASSUME NEW f \in Folders PROVE next[f] + Cardinality(Pending(f)') <= MaxUid + 1
  BY DEF HasRoom
<1>0. next[f] \in Nat
  BY UidsAreNaturals DEF Base, TypeOK, ServerOK
<1>1. CASE f = g
  <2>1. next[g] + Cardinality(Pending(g)) <= MaxUid
    BY DEF Room, Pending
  <2>2. Cardinality(Pending(g)') = Cardinality(Pending(g)) + 1
    BY PendingIsFinite, FS_AddElement
  <2>3. Cardinality(Pending(g)) \in Nat /\ MaxUid \in Nat
    BY PendingIsFinite, UidsAreNaturals
  <2>4. Cardinality(Pending(f)') = Cardinality(Pending(g)) + 1 /\ next[f] + Cardinality(Pending(g)) <= MaxUid
    BY <1>1, <2>1, <2>2
  <2> QED
    BY <1>0, <2>3, <2>4
<1>2. CASE f # g
  <2>1. Cardinality(Pending(f)') \in Nat /\ Cardinality(Pending(f)') <= Cardinality(Pending(f))
    BY <1>2, PendingIsFinite, FS_Subset, FS_CardinalityType
  <2>2. next[f] + Cardinality(Pending(f)) <= MaxUid + 1
    BY DEF Base, HasRoom
  <2> QED
    BY <1>0, <2>1, <2>2, PendingIsFinite, UidsAreNaturals
<1> QED
  BY <1>1, <1>2

LEMMA AboutIsRecord ==
  ASSUME StoreOK, NEW i \in Rows, Exists(i), NEW at \in {"flag", "move", "lookup", "destroy"}, at = "move" => rows[i].uid # 0
  PROVE  About(i, at) \in CallRecord /\ IsCallFit(About(i, at)) /\ About(i, at).at = at
<1>1. rows[i] \in Row
  BY DEF StoreOK, Exists
<1>2. {rows[i].uid} \ {0} \subseteq Uids /\ rows[i].mail \in Mails /\ rows[i].folder \in Folders
  BY <1>1, UidsAreNaturals DEF Row, Uids
<1>3. About(i, at) \in CallRecord
  BY <1>2, NoCallIsRecord DEF About, CallRecord, CallSteps
<1>4. at = "move" => \E u \in Uids : {rows[i].uid} \ {0} = {u}
  BY <1>1, UidsAreNaturals DEF Row, Uids
<1>5. About(i, at).at = at /\ About(i, at).uids = {rows[i].uid} \ {0} /\ About(i, at).row = i
  BY DEF About, NoCall
<1> QED
  BY <1>3, <1>4, <1>5 DEF IsCallFit

\* What is stored of a uid is one row.
LEMMA InsertedIsStored ==
  ASSUME ServerOK, StoreOK, NEW f \in Folders, NEW u \in On(f), rows' \in Inserted(f, u), known' = known
  PROVE  /\ StoreOK'
         /\ \A i \in Rows : \/ rows'[i] = rows[i]
                            \/ /\ rows'[i] \in Row /\ rows'[i].folder = f /\ rows'[i].uid = u
                               /\ rows'[i].mail = box[f][u].mail
                               /\ rows[i] # None => rows[i].uid = 0 /\ rows[i].folder = f
         /\ \E i \in Rows : rows'[i] \in Row /\ rows'[i].folder = f /\ rows'[i].uid = u
<1>0. rows \in [Rows -> Row \union {None}] /\ u \in Uids /\ box[f][u] \in Copy
  BY DEF StoreOK, ServerOK, On
<1>1. CASE rows' = rows /\ u \in StoredUids(f)
  <2>1. \E i \in Stored(f) : rows[i].uid = u
    BY <1>1 DEF StoredUids
  <2> QED
    BY <1>0, <1>1, <2>1 DEF StoreOK, Stored
<1>2. ASSUME NEW i \in Rows, NEW r \in Row, r.folder = f, r.uid = u, r.mail = box[f][u].mail, u \notin StoredUids(f),
             rows' = [rows EXCEPT ![i] = r], rows[i] = None \/ (rows[i] # None /\ rows[i].uid = 0 /\ rows[i].folder = f)
      PROVE  /\ StoreOK'
             /\ \A j \in Rows : \/ rows'[j] = rows[j]
                                \/ /\ rows'[j] \in Row /\ rows'[j].folder = f /\ rows'[j].uid = u
                                   /\ rows'[j].mail = box[f][u].mail
                                   /\ rows[j] # None => rows[j].uid = 0 /\ rows[j].folder = f
             /\ \E j \in Rows : rows'[j] \in Row /\ rows'[j].folder = f /\ rows'[j].uid = u
  <2>0. r # None /\ rows' \in [Rows -> Row \union {None}] /\ rows'[i] = r /\ \A j \in Rows \ {i} : rows'[j] = rows[j]
    BY <1>0, <1>2, NoneAssumption
  <2>1. \A j \in Rows : rows[j] # None /\ rows[j].folder = f => rows[j].uid # u
    <3>1. u # 0
      BY <1>0, UidsAreNaturals DEF Uids
    <3> QED
      BY <1>2, <3>1 DEF StoredUids, Stored
  <2>2. \A g \in Folders : \A j, k \in Rows :
            rows'[j] # None /\ rows'[j].folder = g /\ rows'[k] # None /\ rows'[k].folder = g
            /\ rows'[j].uid = rows'[k].uid /\ rows'[j].uid # 0 => j = k
    <3> SUFFICES ASSUME NEW g \in Folders, NEW j \in Rows, NEW k \in Rows,
                        rows'[j] # None, rows'[j].folder = g, rows'[k] # None, rows'[k].folder = g,
                        rows'[j].uid = rows'[k].uid, rows'[j].uid # 0, j # k
                 PROVE  FALSE
      OBVIOUS
    <3>1. CASE j = i \/ k = i
      BY <1>2, <2>0, <2>1, <3>1
    <3>2. CASE j # i /\ k # i
      BY <2>0, <3>2 DEF StoreOK, Stored
    <3> QED
      BY <3>1, <3>2
  <2>3. StoreOK'
    BY <2>0, <2>2 DEF StoreOK, Stored
  <2> QED
    BY <1>2, <2>0, <2>3
<1>3. CASE \E i \in Stored(f) : rows[i].uid = 0 /\ rows[i].mail = box[f][u].mail /\ u \notin StoredUids(f)
                                /\ rows' = [rows EXCEPT ![i].uid = u]
  <2>1. PICK i \in Stored(f) : rows[i].uid = 0 /\ rows[i].mail = box[f][u].mail /\ u \notin StoredUids(f)
                               /\ rows' = [rows EXCEPT ![i].uid = u]
    BY <1>3
  <2>2. i \in Rows /\ rows[i] \in Row /\ rows[i].folder = f /\ rows[i] # None
    BY <1>0 DEF Stored
  <2>3. u \in 0..MaxUid
    BY <1>0, UidsAreNaturals DEF Uids
  <2> DEFINE r == [rows[i] EXCEPT !.uid = u]
  <2>4. r \in Row /\ r.folder = f /\ r.uid = u /\ r.mail = box[f][u].mail
    BY <2>1, <2>2, <2>3 DEF Row
  <2>5. rows' = [rows EXCEPT ![i] = r]
    BY <1>0, <2>1, <2>2
  <2> HIDE DEF r
  <2> QED
    BY <1>2, <2>1, <2>2, <2>4, <2>5
<1>4. CASE \E i \in Unused : u \notin StoredUids(f)
              /\ rows' = [rows EXCEPT ![i] = [mail |-> box[f][u].mail, folder |-> f, uid |-> u, seen |-> box[f][u].seen]]
  <2> DEFINE r == [mail |-> box[f][u].mail, folder |-> f, uid |-> u, seen |-> box[f][u].seen]
  <2>1. PICK i \in Unused : u \notin StoredUids(f) /\ rows' = [rows EXCEPT ![i] = r]
    BY <1>4
  <2>2. i \in Rows /\ rows[i] = None
    BY DEF Unused
  <2>3. u \in 0..MaxUid
    BY <1>0, UidsAreNaturals DEF Uids
  <2>4. r \in Row /\ r.folder = f /\ r.uid = u /\ r.mail = box[f][u].mail
    BY <1>0, <2>3 DEF Row, Copy
  <2> HIDE DEF r
  <2> QED
    BY <1>2, <2>1, <2>2, <2>4
<1> QED
  BY <1>1, <1>3, <1>4 DEF Inserted

LEMMA OneMoreHappens == ASSUME CountsOK, Happens PROVE events' \in 0..MaxEvents
  BY BoundsAssumption DEF CountsOK, Happens

LEMMA RoomTaken ==
  ASSUME Base, NEW g \in Folders, next' = [next EXCEPT ![g] = @ + 1], Room(g), UNCHANGED call PROVE HasRoom'
<1> SUFFICES ASSUME NEW f \in Folders PROVE next'[f] + Cardinality(Pending(f)) <= MaxUid + 1
  BY DEF HasRoom, Pending
<1>1. next[g] + Cardinality(Pending(g)) <= MaxUid
  BY DEF Room, Pending
<1>2. next[f] \in Nat /\ next'[f] = IF f = g THEN next[f] + 1 ELSE next[f]
  BY UidsAreNaturals DEF Base, TypeOK, ServerOK
<1> QED
  BY <1>1, <1>2, PendingIsFinite, UidsAreNaturals DEF Base, HasRoom

LEMMA ServerTypes == ASSUME Base, ServerStep PROVE Base'
<1> USE DEF Base, TypeOK
<1>0. box \in Boxes /\ None \notin Copy
  BY NoneAssumption DEF ServerOK, Boxes
<1>a. ASSUME NEW change, Elsewhen(change), skipped' \subseteq skipped, ServerOK', HasRoom' PROVE Base'
  <2>1. StoreOK' /\ SyncOK' /\ CallOK' /\ CallsFit'
    BY <1>a, SameStore DEF Elsewhen, SyncOK, CallOK, CallsFit
  <2>2. CountsOK'
    BY <1>a, OneMoreHappens DEF Elsewhen, CountsOK
  <2> QED
    BY <1>a, <2>1, <2>2
<1>1. ASSUME NEW f \in Folders, NEW m \in Mails, Arrives(m, f) PROVE Base'
  <2>1. [mail |-> m, seen |-> FALSE, deleted |-> FALSE] \in Copy
    BY DEF Copy
  <2>2. ServerOK'
    BY <1>0, <1>1, <2>1, RoomIsRoom, AppendKeeps DEF Arrives, Has, On
  <2>3. HasRoom'
    BY <1>1, RoomTaken DEF Arrives, Append, Elsewhen
  <2> QED
    BY <1>1, <1>a, <2>2, <2>3 DEF Arrives
<1>2. ASSUME NEW f \in Folders, NEW u \in Uids, FlaggedElsewhere(f, u) PROVE Base'
  <2>1. box[f][u] \in Copy
    BY <1>0, <1>2 DEF FlaggedElsewhere, Boxes, On
  <2>2. [box[f][u] EXCEPT !.seen = ~@] \in Copy
    BY <2>1 DEF Copy
  <2>3. box' = [box EXCEPT ![f] = [box[f] EXCEPT ![u] = [box[f][u] EXCEPT !.seen = ~@]]]
    BY <1>2 DEF FlaggedElsewhere
  <2>4. box' \in Boxes /\ \A g \in Folders : Has(box', g) \subseteq On(g)
    BY <1>0, <1>2, <2>2, <2>3 DEF FlaggedElsewhere, Boxes, Has, On
  <2> QED
    BY <1>2, <1>a, <2>4, BoxShrinks, SameRoom DEF FlaggedElsewhere, Elsewhen
<1>3. ASSUME NEW f \in Folders, NEW u \in Uids, DestroyedElsewhere(f, u) PROVE Base'
  <2>1. box' \in Boxes /\ \A g \in Folders : Has(box', g) \subseteq On(g)
    BY <1>0, <1>3 DEF DestroyedElsewhere, Boxes, Has, On
  <2> QED
    BY <1>3, <1>a, <2>1, BoxShrinks, SameRoom DEF DestroyedElsewhere, Elsewhen
<1>4. ASSUME NEW f \in Folders, NEW u \in Uids, NEW g \in Folders, MovedElsewhere(f, u, g) PROVE Base'
  <2> DEFINE b == [box EXCEPT ![f][u] = None]
  <2>1. b \in Boxes /\ \A h \in Folders : Has(b, h) \subseteq On(h)
    BY <1>0 DEF Boxes, Has, On
  <2>2. box[f][u] \in Copy /\ Append(b, g, box[f][u]) /\ Room(g)
    BY <1>0, <1>4 DEF MovedElsewhere, Boxes, On
  <2> HIDE DEF b
  <2>3. ServerOK'
    BY <2>1, <2>2, RoomIsRoom, AppendKeeps
  <2>4. HasRoom'
    BY <1>4, <2>2, RoomTaken DEF MovedElsewhere, Append, Elsewhen
  <2> QED
    BY <1>4, <1>a, <2>3, <2>4 DEF MovedElsewhere
<1>5. ASSUME NEW f \in Folders, Renumbers(f) PROVE Base'
  <2>1. ServerOK' /\ next'[f] <= next[f] /\ \A g \in Folders \ {f} : next'[g] = next[g]
    BY <1>5, RenumberKeeps DEF Renumbers, ServerOK
  <2>2. \A g \in Folders : next'[g] \in Nat /\ next'[g] <= next[g]
    BY <2>1, UidsAreNaturals DEF ServerOK
  <2>3. \A g \in Folders : Pending(g)' = Pending(g)
    BY <1>5 DEF Renumbers, Elsewhen, Pending
  <2>4. HasRoom'
    BY <2>2, <2>3, RoomStays
  <2>5. skipped' \subseteq skipped
    BY <1>5 DEF Renumbers
  <2> QED
    BY <1>5, <1>a, <2>1, <2>4, <2>5 DEF Renumbers
<1>6. ASSUME NEW f \in Folders, NEW u \in Uids, MarkedElsewhere(f, u) PROVE Base'
  <2>1. box[f][u] \in Copy
    BY <1>0, <1>6 DEF MarkedElsewhere, Boxes, On
  <2>2. [box[f][u] EXCEPT !.deleted = ~@] \in Copy
    BY <2>1 DEF Copy
  <2>3. box' = [box EXCEPT ![f] = [box[f] EXCEPT ![u] = [box[f][u] EXCEPT !.deleted = ~@]]]
    BY <1>6 DEF MarkedElsewhere
  <2>4. box' \in Boxes /\ \A g \in Folders : Has(box', g) \subseteq On(g)
    BY <1>0, <1>6, <2>2, <2>3 DEF MarkedElsewhere, Boxes, Has, On
  <2> QED
    BY <1>6, <1>a, <2>4, BoxShrinks, SameRoom DEF MarkedElsewhere, Elsewhen
<1> QED
  BY <1>1, <1>2, <1>3, <1>4, <1>5, <1>6 DEF ServerStep

LEMMA OffIsPairs == ASSUME NEW f \in Folders, NEW S \in SUBSET Uids PROVE Each(f, S) \subseteq Folders \X Uids
  BY DEF Each

LEMMA FlagsTakenOver ==
  ASSUME NEW r \in Row, NEW S, NEW x
  PROVE  /\ [r EXCEPT !.seen = x \in S] \in Row /\ [r EXCEPT !.seen = x \in S].mail = r.mail
         /\ [r EXCEPT !.seen = x \in S].folder = r.folder /\ [r EXCEPT !.seen = x \in S].uid = r.uid
<1>1. CASE x \in S
  <2>1. (x \in S) = TRUE
    BY <1>1
  <2> QED
    BY <2>1 DEF Row
<1>2. CASE x \notin S
  <2>1. (x \in S) = FALSE
    BY <1>2
  <2> QED
    BY <2>1 DEF Row
<1> QED
  BY <1>1, <1>2

LEMMA SyncTypes == ASSUME Base, SyncStep PROVE Base'
<1> USE DEF Base, TypeOK
<1>0. rows \in [Rows -> Row \union {None}] /\ sync.folder \in Folders
  BY DEF StoreOK, SyncOK
<1>a. ASSUME UNCHANGED <<server, call, events>>, SyncOK', StoreOK', skipped' \subseteq Folders \X Uids PROVE Base'
  BY <1>a, SameServer, SameRoom DEF server, CallOK, CallsFit, CountsOK
<1>1. ASSUME NEW f \in Folders, SyncStarts(f) PROVE Base'
  <2> DEFINE kept == [i \in Rows |-> IF i \in Stored(f) /\ known[f] \notin {0, validity[f]} THEN None ELSE rows[i]]
             left == {kept[i].uid : i \in {i \in Stored(f) : kept[i] # None}}
             max == TopUid(left)
  <2>1. kept \in [Rows -> Row \union {None}] /\ \A i \in Rows : kept[i] # None => kept[i] = rows[i]
    BY <1>0
  <2>2. left \subseteq 0..MaxUid
    BY <1>0, <2>1 DEF Stored, Row
  <2>3. max \in 0..MaxUid
    <3> HIDE DEF left
    <3>1. CASE left = {}
      BY <3>1, UidsAreNaturals DEF TopUid
    <3>2. CASE left # {}
      BY <2>2, <3>2, MaxIsLargest, UidsAreNaturals DEF TopUid
    <3> QED
      BY <3>1, <3>2
  <2>4. rows' = kept /\ sync' = [NoSync EXCEPT !.at = IF On(f) # {} THEN "list" ELSE IF max > 0 THEN "compare" ELSE "download",
                                               !.folder = f, !.max = max, !.view = IF max = 0 THEN On(f) ELSE {}]
    BY <1>1 DEF SyncStarts
  <2> HIDE DEF max, kept
  <2>5. SyncOK'
    BY <2>3, <2>4 DEF SyncOK, NoSync, SyncSteps, On
  <2>6. StoreOK'
    BY <1>1, <2>1, <2>4 DEF SyncStarts, StoreOK, Stored
  <2> QED
    BY <1>1, <1>a, <2>5, <2>6 DEF SyncStarts, CountsOK
<1>2. CASE ListAnswer
  <2>1. SyncOK'
    BY <1>2 DEF ListAnswer, SyncOK, SyncSteps, On
  <2>2. skipped' \subseteq Folders \X Uids
    BY <1>0, <1>2 DEF ListAnswer, Each, CountsOK, On
  <2> QED
    BY <1>2, <1>a, <2>1, <2>2, SameStore DEF ListAnswer
<1>3. CASE Download
  <2>1. SyncOK' /\ skipped' \subseteq skipped
    BY <1>3 DEF Download, SyncOK
  <2>2. PICK u : rows' \in IF u \in On(sync.folder) THEN Inserted(sync.folder, u) ELSE {rows}
    BY <1>3 DEF Download
  <2>3. StoreOK'
    <3>1. known' = known
      BY <1>3 DEF Download
    <3>2. CASE u \in On(sync.folder)
      BY <1>0, <2>2, <3>1, <3>2, InsertedIsStored
    <3>3. CASE rows' = rows
      BY <3>1, <3>3, SameStore DEF store
    <3> QED
      BY <2>2, <3>2, <3>3
  <2> QED
    BY <1>3, <1>a, <2>1, <2>3 DEF Download, CountsOK
<1>4. CASE FlagsAnswer
  <2>1. SyncOK'
    BY <1>4 DEF FlagsAnswer, SyncOK, SyncSteps, On
  <2> QED
    BY <1>4, <1>a, <2>1, SameStore DEF FlagsAnswer, CountsOK
<1>5. CASE Compare \/ Finish
  <2>1. SyncOK'
    BY <1>5, NoSyncIsSync DEF Compare, Finish, Synced
  <2>2. known' \in [Folders -> 0..MaxValidity]
    BY <1>0, <1>5 DEF Compare, Finish, Synced, StoreOK, ServerOK
  <2>3. CASE Compare
    <3>1. \A i \in Rows : \/ rows'[i] = rows[i] \/ rows'[i] = None
                          \/ /\ i \in Stored(sync.folder)
                             /\ rows'[i] = [rows[i] EXCEPT !.seen = rows[i].uid \in sync.current]
      BY <2>3 DEF Compare
    <3>2. \A i \in Rows : \/ rows'[i] = rows[i] \/ rows'[i] = None
                          \/ /\ rows[i] # None /\ rows'[i] \in Row
                             /\ rows'[i].folder = rows[i].folder /\ rows'[i].uid = rows[i].uid
      <4> SUFFICES ASSUME NEW i \in Rows, rows'[i] # rows[i], rows'[i] # None
                   PROVE  /\ rows[i] # None /\ rows'[i] \in Row
                          /\ rows'[i].folder = rows[i].folder /\ rows'[i].uid = rows[i].uid
        OBVIOUS
      <4>1. i \in Stored(sync.folder) /\ rows'[i] = [rows[i] EXCEPT !.seen = rows[i].uid \in sync.current]
        BY <3>1
      <4>2. rows[i] # None /\ rows[i] \in Row
        BY <1>0, <4>1 DEF Stored
      <4> QED
        BY <4>1, <4>2, FlagsTakenOver
    <3>3. rows' = [i \in Rows |-> rows'[i]]
      BY <2>3 DEF Compare
    <3>4. StoreOK'
      BY <1>0, <2>2, <3>2, <3>3 DEF StoreOK, Stored
    <3> QED
      BY <1>a, <2>1, <2>3, <3>4 DEF Compare, CountsOK
  <2>4. CASE Finish
    <3>1. StoreOK'
      BY <2>2, <2>4 DEF Finish, StoreOK, Stored
    <3> QED
      BY <1>a, <2>1, <2>4, <3>1 DEF Finish, CountsOK
  <2> QED
    BY <2>3, <2>4, <1>5
<1>6. CASE SyncFails
  <2>1. SyncOK'
    BY <1>6, NoSyncIsSync DEF SyncFails
  <2>2. skipped' \subseteq Folders \X Uids
    BY <1>0, <1>6 DEF SyncFails, NotComing, Each, Behind, CountsOK, On
  <2> QED
    BY <1>6, <1>a, <2>1, <2>2, SameStore DEF SyncFails
<1> QED
  BY <1>1, <1>2, <1>3, <1>4, <1>5, <1>6 DEF SyncStep

\* Rows go, lose their uid, or keep it where it is.
LEMMA StoreKeeps ==
  ASSUME StoreOK, known' = known, rows' \in [Rows -> Row \union {None}],
         \A i \in Rows : rows'[i] # None => /\ rows[i] # None
                                            /\ rows'[i].uid # 0 => rows'[i].uid = rows[i].uid /\ rows'[i].folder = rows[i].folder
  PROVE  StoreOK'
  BY DEF StoreOK, Stored

LEMMA OrphansArePairs == ASSUME StoreOK, NEW gone \in SUBSET Rows PROVE Orphaned(gone) \subseteq Folders \X Uids
  BY DEF Orphaned, StoreOK, Exists, Row, On

LEMMA CallTypes == ASSUME Base, NEW c \in Calls, CallStep(c) PROVE Base'
<1> USE DEF Base, TypeOK
<1>0. /\ rows \in [Rows -> Row \union {None}] /\ box \in Boxes /\ None \notin Copy /\ None \notin Row
      /\ call \in [Calls -> CallRecord] /\ 0 \in 0..MaxUid /\ \A f \in Folders : next[f] \in Nat
  BY NoneAssumption, UidsAreNaturals DEF StoreOK, ServerOK, CallOK, CallRecord, Boxes
<1>1. call[c] \in CallRecord /\ call[c].folder \in Folders /\ call[c].to \in Folders /\ call[c].uids \in SUBSET Uids
      /\ call[c].seen \in BOOLEAN /\ Targets(c) \subseteq On(call[c].folder) /\ Targets(c) \subseteq Uids
  BY <1>0 DEF CallRecord, Targets, On
<1>a. ASSUME ServerOK', StoreOK', CallOK', CallsFit', HasRoom', UNCHANGED sync, skipped' \subseteq Folders \X Uids,
             Happens \/ UNCHANGED events
      PROVE  Base'
  BY <1>a, OneMoreHappens DEF SyncOK, CountsOK
\* Nothing to come besides what was to come.
<1>b. ASSUME UNCHANGED next, \A f \in Folders : Pending(f)' \subseteq Pending(f) PROVE HasRoom'
  BY <1>0, <1>b, RoomStays
<1>c. ASSUME UNCHANGED skipped PROVE skipped' \subseteq Folders \X Uids
  BY <1>c DEF CountsOK
<1>2. ASSUME NEW i \in Rows, SetSeen(c, i) PROVE Base'
  <2>1. rows[i] \in Row /\ rows[i].seen \in BOOLEAN
    BY <1>0, <1>2 DEF SetSeen, Exists, Row
  <2>2. [rows[i] EXCEPT !.seen = ~@] \in Row
    BY <2>1 DEF Row
  <2>3. rows' = [rows EXCEPT ![i] = [rows[i] EXCEPT !.seen = ~@]]
    BY <1>2 DEF SetSeen
  <2>4. rows' \in [Rows -> Row \union {None}]
    BY <1>0, <2>2, <2>3
  <2>5. StoreOK'
    <3>1. rows'[i].uid = rows[i].uid /\ rows'[i].folder = rows[i].folder /\ \A j \in Rows \ {i} : rows'[j] = rows[j]
      BY <1>0, <2>1, <2>3 DEF Row
    <3>2. known' = known /\ rows[i] # None
      BY <1>2 DEF SetSeen, Exists
    <3> QED
      BY <2>4, <3>1, <3>2, StoreKeeps
  <2> DEFINE k == [About(i, "flag") EXCEPT !.seen = ~rows[i].seen]
  <2>6. k \in CallRecord /\ IsCallFit(k) /\ k.at = "flag"
    <3>1. About(i, "flag") \in CallRecord /\ IsCallFit(About(i, "flag")) /\ About(i, "flag").at = "flag"
      BY <1>2, AboutIsRecord DEF SetSeen, CallSteps
    <3>2. (~rows[i].seen) \in BOOLEAN
      BY <2>1, Zenon
    <3> QED
      BY <3>1, <3>2 DEF CallRecord, IsCallFit
  <2>7. call' = [call EXCEPT ![c] = k] \/ call' = [call EXCEPT ![c] = NoCall]
    BY <1>2 DEF SetSeen, Begins
  <2> HIDE DEF k
  <2>8. CallOK' /\ CallsFit' /\ \A f \in Folders : Pending(f)' \subseteq Pending(f)
    BY <2>6, <2>7, CallGoesOn, CallEnds DEF Ends
  <2>9. ServerOK' /\ HasRoom'
    BY <1>2, <1>b, <2>8, SameServer DEF SetSeen, server
  <2> QED
    BY <1>2, <1>a, <1>c, <2>5, <2>8, <2>9 DEF SetSeen, Begins
<1>3. CASE FlagCarried(c)
  <2> DEFINE f == call[c].folder
             now == [u \in Uids |-> IF u \in call[c].uids \intersect On(f)
                                    THEN [box[f][u] EXCEPT !.seen = call[c].seen] ELSE box[f][u]]
  <2>1. \A u \in On(f) : box[f][u] \in Copy /\ [box[f][u] EXCEPT !.seen = call[c].seen] \in Copy
    BY <1>0, <1>1 DEF Boxes, On, Copy
  <2>2. now \in [Uids -> Copy \union {None}] /\ \A u \in Uids : now[u] # None => u \in On(f)
    <3>1. \A u \in Uids : box[f][u] \in Copy \union {None} /\ (box[f][u] # None => u \in On(f))
      BY <1>0, <1>1 DEF Boxes, On
    <3> QED
      BY <2>1, <3>1
  <2>3. box' = [box EXCEPT ![f] = now]
    BY <1>3 DEF FlagCarried
  <2> HIDE DEF now
  <2>4. box' \in Boxes /\ \A g \in Folders : Has(box', g) \subseteq On(g)
    BY <1>0, <1>1, <2>2, <2>3 DEF Boxes, Has, On
  <2>5. CallOK' /\ CallsFit' /\ \A g \in Folders : Pending(g)' \subseteq Pending(g)
    BY <1>3, CallEnds DEF FlagCarried
  <2>6. ServerOK' /\ StoreOK' /\ HasRoom'
    BY <1>3, <1>b, <2>4, <2>5, BoxShrinks, SameStore DEF FlagCarried
  <2> QED
    BY <1>3, <1>a, <1>c, <2>5, <2>6 DEF FlagCarried
<1>4. ASSUME NEW i \in Rows, NEW g \in Folders, Move(c, i, g) PROVE Base'
  <2>1. rows[i] \in Row /\ rows[i] # None
    BY <1>0, <1>4 DEF Move, Exists
  <2>2. [rows[i] EXCEPT !.folder = g, !.uid = 0] \in Row
    BY <1>0, <2>1 DEF Row
  <2>3. rows' = [rows EXCEPT ![i] = [rows[i] EXCEPT !.folder = g, !.uid = 0]]
    BY <1>0, <1>4 DEF Move
  <2>4. StoreOK'
    <3>1. rows' \in [Rows -> Row \union {None}] /\ rows'[i].uid = 0 /\ \A j \in Rows \ {i} : rows'[j] = rows[j]
      BY <1>0, <2>1, <2>2, <2>3 DEF Row
    <3>2. known' = known
      BY <1>4 DEF Move
    <3> QED
      BY <2>1, <3>1, <3>2, StoreKeeps
  <2>5. CASE call' = [call EXCEPT ![c] = NoCall]
    <3>1. CallOK' /\ CallsFit' /\ \A f \in Folders : Pending(f)' \subseteq Pending(f)
      BY <2>5, CallEnds DEF Ends
    <3>2. ServerOK' /\ HasRoom'
      BY <1>4, <1>b, <3>1, SameServer DEF Move, server
    <3> QED
      BY <1>4, <1>a, <1>c, <2>4, <3>1, <3>2 DEF Move, Begins
  <2> DEFINE k == [About(i, "move") EXCEPT !.to = g]
  <2>6. CASE call' = [call EXCEPT ![c] = k] /\ rows[i].uid # 0
    <3>1. About(i, "move") \in CallRecord /\ IsCallFit(About(i, "move")) /\ About(i, "move").at = "move"
      BY <1>4, <2>6, AboutIsRecord DEF Move, CallSteps
    <3>2. k \in CallRecord /\ IsCallFit(k) /\ k.at = "move" /\ k.to = g
      BY <3>1 DEF CallRecord, IsCallFit
    <3> HIDE DEF k
    <3>3. CallOK' /\ CallsFit'
      BY <2>6, <3>2, CallGoesOn
    <3>4. call'[c] = k /\ \A d \in Calls \ {c} : call'[d] = call[d]
      BY <1>0, <2>6
    <3>5. c \notin Pending(g)
      BY <1>4 DEF Move, Begins, Is, Pending
    <3>6. Pending(g)' = Pending(g) \union {c} /\ \A f \in Folders \ {g} : Pending(f)' \subseteq Pending(f)
      BY <3>2, <3>4 DEF Pending
    <3>7. HasRoom'
      BY <1>4, <3>5, <3>6, RoomPromised DEF Move, server
    <3>8. ServerOK'
      BY <1>4, SameServer DEF Move
    <3> QED
      BY <1>4, <1>a, <1>c, <2>4, <3>3, <3>7, <3>8 DEF Move, Begins
  <2> QED
    BY <1>4, <2>5, <2>6 DEF Move, Begins
<1>5. CASE MoveCarried(c)
  <2> DEFINE f == call[c].folder
  <2>0. PICK g \in Folders : g = call[c].to
    BY <1>1
  <2>1. CallOK' /\ CallsFit' /\ (\A h \in Folders : Pending(h)' \subseteq Pending(h))
    BY <1>5, CallEnds DEF MoveCarried
  <2>2. CASE UNCHANGED server
    <3>1. ServerOK' /\ StoreOK' /\ HasRoom'
      BY <1>5, <1>b, <2>1, <2>2, SameServer, SameStore DEF MoveCarried, server
    <3> QED
      BY <1>5, <1>a, <1>c, <2>1, <3>1 DEF MoveCarried
  <2>3. ASSUME NEW u \in On(f), Append([box EXCEPT ![f][u] = None], g, box[f][u]) PROVE Base'
    <3> DEFINE b == [box EXCEPT ![f][u] = None]
    <3>1. b \in Boxes /\ \A h \in Folders : Has(b, h) \subseteq On(h)
      BY <1>0, <1>1 DEF Boxes, Has, On
    <3>2. box[f][u] \in Copy /\ Append(b, g, box[f][u])
      BY <1>0, <1>1, <2>3 DEF Boxes, On
    <3> HIDE DEF b
    <3>3. c \in Pending(g) /\ next[g] \in Uids
      BY <1>5, <2>0, PendingHasRoom DEF MoveCarried, Is, Pending
    <3>4. ServerOK'
      BY <1>1, <3>1, <3>2, <3>3, AppendKeeps
    <3>5. HasRoom'
      <4>1. call'[c].at = "idle"
        BY <1>0, <1>5 DEF MoveCarried, Ends, NoCall
      <4>2. c \notin Pending(g)'
        BY <4>1 DEF Pending
      <4>3. next' = [next EXCEPT ![g] = @ + 1] /\ g \in Folders
        BY <3>2 DEF Append
      <4> QED
        BY <2>1, <3>3, <4>2, <4>3, RoomUsed
    <3>6. StoreOK'
      BY <1>5, SameStore DEF MoveCarried
    <3> QED
      BY <1>5, <1>a, <1>c, <2>1, <3>4, <3>5, <3>6 DEF MoveCarried
  <2> QED
    BY <1>1, <1>5, <2>0, <2>2, <2>3 DEF MoveCarried
<1>6. ASSUME NEW i \in Rows, DeleteForever(c, i) PROVE Base'
  <2>1. PICK at \in {"lookup", "destroy"} : call' = [call EXCEPT ![c] = About(i, at)]
    BY <1>6 DEF DeleteForever, Begins
  <2>2. About(i, at) \in CallRecord /\ IsCallFit(About(i, at)) /\ About(i, at).at = at
    BY <1>6, AboutIsRecord DEF DeleteForever, CallSteps
  <2>3. CallOK' /\ CallsFit' /\ \A f \in Folders : Pending(f)' \subseteq Pending(f)
    BY <2>1, <2>2, CallGoesOn
  <2>4. ServerOK' /\ StoreOK' /\ HasRoom'
    BY <1>6, <1>b, <2>3, SameServer, SameStore DEF DeleteForever, server
  <2> QED
    BY <1>6, <1>a, <1>c, <2>3, <2>4 DEF DeleteForever, Begins
<1>d. ASSUME NEW k \in CallRecord, IsCallFit(k), k.at # "move", call' = [call EXCEPT ![c] = k], UNCHANGED <<server, store, sync, skipped>>,
             Happens \/ UNCHANGED events
      PROVE  Base'
  <2>1. CallOK' /\ CallsFit' /\ \A f \in Folders : Pending(f)' \subseteq Pending(f)
    BY <1>d, CallGoesOn
  <2>2. ServerOK' /\ StoreOK' /\ HasRoom'
    BY <1>b, <1>d, <2>1, SameServer, SameStore DEF server
  <2> QED
    BY <1>a, <1>c, <1>d, <2>1, <2>2
\* The server is done with it.
<1>e. ASSUME NEW at \in {"drop", "clear"}, at = "drop" => call[c].row \in Rows, Answered(c, at)
      PROVE  CallOK' /\ CallsFit' /\ \A f \in Folders : Pending(f)' \subseteq Pending(f)
  <2> DEFINE k == [NoCall EXCEPT !.at = at, !.row = call[c].row]
  <2>1. k \in CallRecord /\ k.at = at /\ k.row = call[c].row
    BY <1>0, NoCallIsRecord DEF CallRecord, CallSteps, NoCall
  <2>2. call' = [call EXCEPT ![c] = k]
    BY <1>e DEF Answered
  <2> HIDE DEF k
  <2>3. IsCallFit(k)
    BY <1>e, <2>1 DEF IsCallFit
  <2> QED
    BY <1>e, <2>1, <2>2, <2>3, CallGoesOn
\* Another request follows.
<1>f. ASSUME NEW at \in {"mark", "clean", "expunge", "wipe"}, GoesOn(c, at),
             at \in {"mark", "clean"} => MovesAway(c), at = "expunge" => Is(c, "destroy")
      PROVE  CallOK' /\ CallsFit' /\ \A f \in Folders : Pending(f)' \subseteq Pending(f)
  <2> DEFINE k == [call[c] EXCEPT !.at = at]
  <2>1. k \in CallRecord /\ k.at = at /\ k.row = call[c].row /\ k.uids = call[c].uids
    BY <1>1 DEF CallRecord, CallSteps
  <2>2. call' = [call EXCEPT ![c] = k]
    BY <1>f DEF GoesOn
  <2> HIDE DEF k
  <2>3. IsCallFit(k)
    BY <1>f, <2>1 DEF IsCallFit, CallsFit, MovesAway, Is
  <2> QED
    BY <1>f, <2>1, <2>2, <2>3, CallGoesOn
<1>7. CASE LookupAnswer(c)
  <2> DEFINE S == {u \in On(Trash) : box[Trash][u].mail = call[c].mail}
             k == [call[c] EXCEPT !.at = "destroy", !.uids = S]
  <2>1. S \in SUBSET Uids
    BY DEF On
  <2>2. k \in CallRecord /\ k.at = "destroy" /\ k.row = call[c].row
    BY <1>1, <2>1 DEF CallRecord, CallSteps
  <2>3. call' = [call EXCEPT ![c] = k] \/ Answered(c, "drop")
    BY <1>0, <1>1, <1>7 DEF LookupAnswer
  <2>4. call[c].row \in Rows
    BY <1>7 DEF LookupAnswer, Is, CallsFit, IsCallFit
  <2> HIDE DEF k
  <2>5. IsCallFit(k)
    BY <2>2, <2>4 DEF IsCallFit
  <2>6. CASE Answered(c, "drop")
    <3>1. CallOK' /\ CallsFit' /\ \A f \in Folders : Pending(f)' \subseteq Pending(f)
      BY <1>e, <2>4, <2>6
    <3>2. ServerOK' /\ StoreOK' /\ HasRoom'
      BY <1>7, <1>b, <3>1, SameServer, SameStore DEF LookupAnswer, server
    <3> QED
      BY <1>7, <1>a, <1>c, <3>1, <3>2 DEF LookupAnswer
  <2> QED
    BY <1>7, <1>d, <2>2, <2>3, <2>5, <2>6 DEF LookupAnswer
<1>8. CASE MarkCarried(c)
  <2> DEFINE f == call[c].folder
             now == [u \in Uids |-> IF u \in Targets(c) THEN [box[f][u] EXCEPT !.deleted = TRUE] ELSE box[f][u]]
  <2>1. ASSUME NEW u \in Targets(c) PROVE [box[f][u] EXCEPT !.deleted = TRUE] \in Copy
    <3>1. box[f][u] \in Copy
      BY <1>0, <1>1 DEF Boxes, On
    <3> QED
      BY <3>1 DEF Copy
  <2>2. now \in [Uids -> Copy \union {None}] /\ \A u \in Uids : now[u] # None => u \in On(f)
    <3>1. \A u \in Uids : box[f][u] \in Copy \union {None} /\ (box[f][u] # None => u \in On(f))
      BY <1>0, <1>1 DEF Boxes, On
    <3> QED
      BY <1>1, <2>1, <3>1
  <2>3. box' = [box EXCEPT ![f] = now]
    BY <1>8 DEF MarkCarried
  <2> HIDE DEF now
  <2>4. box' \in Boxes /\ \A g \in Folders : Has(box', g) \subseteq On(g)
    BY <1>0, <1>1, <2>2, <2>3 DEF Boxes, Has, On
  <2>5. CallOK' /\ CallsFit' /\ \A g \in Folders : Pending(g)' \subseteq Pending(g)
    <3>1. \/ call[c].at = "mark" /\ GoesOn(c, "clean")
          \/ call[c].at = "destroy" /\ GoesOn(c, "expunge")
          \/ call[c].at = "empty" /\ GoesOn(c, "wipe")
      BY <1>8 DEF MarkCarried, After
    <3> QED
      BY <1>f, <3>1 DEF MovesAway, Is
  <2>6. ServerOK' /\ StoreOK' /\ HasRoom'
    BY <1>8, <1>b, <2>4, <2>5, BoxShrinks, SameStore DEF MarkCarried
  <2> QED
    BY <1>8, <1>a, <1>c, <2>5, <2>6 DEF MarkCarried
<1>9. CASE DestroyDrops(c)
  <2>1. call[c].row \in Rows /\ {call[c].row} \in SUBSET Rows
    BY <1>9 DEF DestroyDrops, Is, CallsFit, IsCallFit
  <2>2. rows' \in [Rows -> Row \union {None}] /\ \A i \in Rows : rows'[i] # None => rows'[i] = rows[i]
    BY <1>0, <1>9 DEF DestroyDrops
  <2>3. StoreOK'
    BY <1>9, <2>2, StoreKeeps DEF DestroyDrops
  <2>4. skipped' \subseteq Folders \X Uids
    BY <1>9, <2>1, OrphansArePairs DEF DestroyDrops, CountsOK
  <2>5. CallOK' /\ CallsFit' /\ \A g \in Folders : Pending(g)' \subseteq Pending(g)
    BY <1>9, CallEnds DEF DestroyDrops
  <2>6. ServerOK' /\ HasRoom'
    BY <1>9, <1>b, <2>5, SameServer DEF DestroyDrops, server
  <2> QED
    BY <1>9, <1>a, <2>3, <2>4, <2>5, <2>6 DEF DestroyDrops
<1>10. CASE EmptyTrash(c)
  <2> DEFINE k == [NoCall EXCEPT !.at = "empty", !.folder = Trash]
  <2>1. k \in CallRecord /\ k.at = "empty"
    BY NoCallIsRecord, TrashIsFolder DEF CallRecord, CallSteps, NoCall
  <2>2. call' = [call EXCEPT ![c] = k]
    BY <1>10 DEF EmptyTrash, Begins
  <2> HIDE DEF k
  <2>3. IsCallFit(k)
    BY <2>1 DEF IsCallFit
  <2> QED
    BY <1>10, <1>d, <2>1, <2>2, <2>3 DEF EmptyTrash, Begins
<1>11. CASE NothingToEmpty(c)
  <2>1. CallOK' /\ CallsFit' /\ \A f \in Folders : Pending(f)' \subseteq Pending(f)
    BY <1>11, <1>e DEF NothingToEmpty
  <2>2. ServerOK' /\ StoreOK' /\ HasRoom'
    BY <1>11, <1>b, <2>1, SameServer, SameStore DEF NothingToEmpty, server
  <2> QED
    BY <1>11, <1>a, <1>c, <2>1, <2>2 DEF NothingToEmpty
<1>12. CASE EmptyClears(c)
  <2>1. Stored(Trash) \in SUBSET Rows
    BY DEF Stored
  <2>2. rows' \in [Rows -> Row \union {None}] /\ \A i \in Rows : rows'[i] # None => rows'[i] = rows[i]
    BY <1>0, <1>12 DEF EmptyClears
  <2>3. StoreOK'
    BY <1>12, <2>2, StoreKeeps DEF EmptyClears
  <2>4. skipped' \subseteq Folders \X Uids
    BY <1>12, <2>1, OrphansArePairs DEF EmptyClears, CountsOK
  <2>5. CallOK' /\ CallsFit' /\ \A g \in Folders : Pending(g)' \subseteq Pending(g)
    BY <1>12, CallEnds DEF EmptyClears
  <2>6. ServerOK' /\ HasRoom'
    BY <1>12, <1>b, <2>5, SameServer DEF EmptyClears, server
  <2> QED
    BY <1>12, <1>a, <2>3, <2>4, <2>5, <2>6 DEF EmptyClears
<1>13. CASE HeadersStored(c)
  <2> DEFINE f == call[c].folder
  <2>1. PICK u \in Uids : call[c].uids = {u}
    BY <1>13 DEF HeadersStored, Is, CallsFit, IsCallFit
  <2>2. (CHOOSE v \in call[c].uids : TRUE) = u
    BY <2>1
  <2>3. /\ rows' \in IF u \in On(f) THEN Inserted(f, u) ELSE {rows}
        /\ skipped' = IF u \in On(f) THEN (skipped \union (Behind(f, u) \ Each(f, Coming(f)))) \ {<<f, u>>} ELSE skipped
        /\ known' = known
    BY <1>13, <2>2 DEF HeadersStored
  <2>4. StoreOK'
    <3>1. CASE u \in On(f)
      BY <1>1, <2>3, <3>1, InsertedIsStored
    <3>2. CASE u \notin On(f)
      BY <2>3, <3>2, SameStore DEF store
    <3> QED
      BY <3>1, <3>2
  <2>5. skipped' \subseteq Folders \X Uids
    <3>1. Behind(f, u) \subseteq Folders \X Uids
      BY <1>1 DEF Behind, On
    <3> QED
      BY <2>3, <3>1 DEF CountsOK
  <2>6. CallOK' /\ CallsFit' /\ \A g \in Folders : Pending(g)' \subseteq Pending(g)
    BY <1>13, CallEnds DEF HeadersStored
  <2>7. ServerOK' /\ HasRoom'
    BY <1>13, <1>b, <2>6, SameServer DEF HeadersStored, server
  <2> QED
    BY <1>13, <1>a, <2>4, <2>5, <2>6, <2>7 DEF HeadersStored
<1>14. CASE CallFails(c)
  <2>1. NotMoved(c) \subseteq Folders \X Uids
    BY <1>1 DEF NotMoved, Each
  <2>2. CallOK' /\ CallsFit' /\ \A g \in Folders : Pending(g)' \subseteq Pending(g)
    BY <1>14, CallEnds DEF CallFails
  <2>3. ServerOK' /\ StoreOK' /\ HasRoom'
    BY <1>14, <1>b, <2>2, SameServer, SameStore DEF CallFails, server
  <2>4. skipped' \subseteq Folders \X Uids
    BY <1>14, <2>1 DEF CallFails, CountsOK
  <2> QED
    BY <1>14, <1>a, <2>2, <2>3, <2>4 DEF CallFails
<1>15. ASSUME NEW f \in Folders, NEW u \in Uids, SearchAnswer(c, f, u) PROVE Base'
  <2> DEFINE k == [NoCall EXCEPT !.at = "found", !.folder = f, !.uids = {u}]
  <2>1. {u} \in SUBSET Uids
    OBVIOUS
  <2>2. k \in CallRecord /\ k.at = "found" /\ k.uids = {u}
    BY <2>1, NoCallIsRecord DEF CallRecord, CallSteps, NoCall
  <2>3. call' = [call EXCEPT ![c] = k]
    BY <1>15 DEF SearchAnswer, Begins
  <2> HIDE DEF k
  <2>4. IsCallFit(k)
    BY <2>2 DEF IsCallFit
  <2> QED
    BY <1>15, <1>d, <2>2, <2>3, <2>4 DEF SearchAnswer, Begins
<1>16. CASE CopyCarried(c)
  <2> DEFINE f == call[c].folder
  <2>0. PICK g \in Folders : g = call[c].to
    BY <1>1
  <2>1. CallOK' /\ CallsFit' /\ (\A h \in Folders : Pending(h)' \subseteq Pending(h))
    BY <1>16, <1>f DEF CopyCarried, MovesAway, Is
  <2>2. CASE UNCHANGED server
    <3>1. ServerOK' /\ StoreOK' /\ HasRoom'
      BY <1>16, <1>b, <2>1, <2>2, SameServer, SameStore DEF CopyCarried, server
    <3> QED
      BY <1>16, <1>a, <1>c, <2>1, <3>1 DEF CopyCarried
  <2>3. ASSUME NEW u \in On(f), Append(box, g, box[f][u]) PROVE Base'
    <3>1. (\A h \in Folders : Has(box, h) \subseteq On(h)) /\ box[f][u] \in Copy
      BY <1>0, <1>1 DEF Boxes, Has, On
    <3>2. c \in Pending(g) /\ next[g] \in Uids
      BY <1>16, <2>0, PendingHasRoom DEF CopyCarried, Is, Pending
    <3>3. ServerOK'
      BY <1>0, <1>1, <2>3, <3>1, <3>2, AppendKeeps
    <3>4. call'[c].at = "mark"
      BY <1>0, <1>1, <1>16 DEF CopyCarried, GoesOn, CallRecord
    <3>5. c \notin Pending(g)'
      BY <3>4 DEF Pending
    <3>6. HasRoom'
      <4>1. next' = [next EXCEPT ![g] = @ + 1] /\ g \in Folders
        BY <2>3 DEF Append
      <4> QED
        BY <2>1, <3>2, <3>5, <4>1, RoomUsed
    <3>7. StoreOK'
      BY <1>16, SameStore DEF CopyCarried
    <3> QED
      BY <1>16, <1>a, <1>c, <2>1, <3>3, <3>6, <3>7 DEF CopyCarried
  <2> QED
    BY <1>1, <1>16, <2>0, <2>2, <2>3 DEF CopyCarried
<1>17. ASSUME NEW gone, gone \subseteq Uids, Expunges(c, gone) PROVE Base'
  <2> DEFINE f == call[c].folder
  <2>1. box' \in Boxes /\ \A g \in Folders : Has(box', g) \subseteq On(g)
    BY <1>0, <1>1, <1>17 DEF Expunges, Boxes, Has, On
  <2>2. CallOK' /\ CallsFit' /\ (\A g \in Folders : Pending(g)' \subseteq Pending(g))
    <3>1. CASE Is(c, "clean") /\ Ends(c)
      BY <3>1, CallEnds
    <3>2. CASE Is(c, "expunge") /\ Answered(c, "drop")
      BY <3>2, <1>e DEF Is, CallsFit, IsCallFit
    <3>3. CASE Is(c, "wipe") /\ Answered(c, "clear")
      BY <3>3, <1>e
    <3> QED
      BY <1>17, <3>1, <3>2, <3>3 DEF Expunges
  <2>3. ServerOK' /\ StoreOK' /\ HasRoom'
    BY <1>17, <1>b, <2>1, <2>2, BoxShrinks, SameStore DEF Expunges
  <2>4. skipped' \subseteq Folders \X Uids
    <3>1. Each(f, Targets(c) \ gone) \subseteq Folders \X Uids
      BY <1>1 DEF Each
    <3> QED
      BY <1>17, <3>1 DEF Expunges, CountsOK
  <2> QED
    BY <1>17, <1>a, <2>2, <2>3, <2>4 DEF Expunges
<1>18. CASE UidExpungeCarried(c) \/ ExpungeCarried(c)
  <2>1. Marked(call[c].folder) \subseteq Uids /\ Targets(c) \intersect Marked(call[c].folder) \subseteq Uids
    BY <1>1 DEF Marked, On
  <2> QED
    BY <1>17, <1>18, <2>1 DEF UidExpungeCarried, ExpungeCarried
<1>19. CASE Retries(c)
  <2>0. call[c].at \in DOMAIN First /\ call' = [call EXCEPT ![c].at = First[@], ![c].retried = TRUE]
    BY <1>19 DEF Retries, Midway
  <2>1. PICK at \in {"move", "destroy", "empty"} : at = First[call[c].at]
    BY <2>0 DEF First
  <2> DEFINE k == [call[c] EXCEPT !.at = at, !.retried = TRUE]
  <2>2. k \in CallRecord /\ k.at = at /\ k.row = call[c].row /\ k.uids = call[c].uids /\ k.to = call[c].to
    BY <1>1 DEF CallRecord, CallSteps
  <2>3. call' = [call EXCEPT ![c] = k]
    BY <1>0, <1>1, <2>0, <2>1 DEF CallRecord
  <2> HIDE DEF k
  <2>4. (at = "move" => MovesAway(c) /\ ~Is(c, "move")) /\ (at = "destroy" => Is(c, "expunge"))
    BY <2>0, <2>1 DEF First, MovesAway, Is
  <2>5. IsCallFit(k)
    BY <2>2, <2>4 DEF IsCallFit, CallsFit, MovesAway, Is
  <2>6. CallOK' /\ CallsFit' /\ (at # "move" => \A f \in Folders : Pending(f)' \subseteq Pending(f))
    BY <2>2, <2>3, <2>5, CallGoesOn
  <2>7. HasRoom'
    <3>1. CASE at # "move"
      BY <1>19, <1>b, <2>6, <3>1 DEF Retries, server
    <3>2. CASE at = "move"
      <4>1. Room(call[c].to) /\ c \notin Pending(call[c].to)
        BY <1>19, <2>4, <3>2 DEF Retries, Pending, Is
      <4>2. call'[c] = k /\ \A d \in Calls \ {c} : call'[d] = call[d]
        BY <1>0, <2>3
      <4>0. PICK g \in Folders : g = call[c].to
        BY <1>1
      <4>3. Pending(g)' = Pending(g) \union {c} /\ \A f \in Folders \ {g} : Pending(f)' \subseteq Pending(f)
        <5>1. k.at = "move" /\ k.to = g /\ g \in Folders
          BY <2>2, <3>2, <4>0
        <5>2. \A d \in Calls : d # c => (call'[d].at = call[d].at /\ call'[d].to = call[d].to)
          BY <4>2
        <5>3. call'[c].at = "move" /\ call'[c].to = g
          BY <4>2, <5>1
        <5>4. \A f \in Folders, d \in Calls : d \in Pending(f)' <=> (d = c /\ f = g) \/ (d # c /\ d \in Pending(f))
          BY <5>2, <5>3 DEF Pending
        <5>5. Pending(g) \subseteq Calls /\ \A f \in Folders : Pending(f)' \subseteq Calls
          BY DEF Pending
        <5>6. c \notin Pending(g)
          BY <4>0, <4>1
        <5> QED
          BY <5>4, <5>5, <5>6
      <4>4. g \in Folders /\ c \notin Pending(g) /\ Room(g) /\ UNCHANGED next
        BY <1>19, <4>0, <4>1 DEF Retries, server
      <4> QED
        BY <4>3, <4>4, RoomPromised
    <3> QED
      BY <3>1, <3>2
  <2>8. ServerOK' /\ StoreOK'
    BY <1>19, SameServer, SameStore DEF Retries
  <2> QED
    BY <1>19, <1>a, <1>c, <2>6, <2>7, <2>8 DEF Retries
<1> QED
  BY <1>2, <1>3, <1>4, <1>5, <1>6, <1>7, <1>8, <1>9, <1>10, <1>11, <1>12, <1>13, <1>14, <1>15, <1>16, <1>18, <1>19 DEF CallStep

LEMMA QuitTypes == ASSUME Base, Quit PROVE Base'
<1> USE DEF Base, TypeOK
<1>1. SyncOK' /\ ServerOK' /\ StoreOK'
  BY NoSyncIsSync, SameServer, SameStore DEF Quit
<1>2. CallOK' /\ CallsFit' /\ \A f \in Folders : Pending(f)' = {}
  <2>1. call' \in [Calls -> CallRecord] /\ \A c \in Calls : call'[c] = NoCall
    BY NoCallIsRecord DEF Quit
  <2>2. NoCall.at = "idle"
    BY DEF NoCall
  <2> QED
    BY <2>1, <2>2, NoCallIsRecord DEF CallOK, CallRecord, CallsFit, Pending
<1>3. HasRoom'
  <2>1. \A f \in Folders : next'[f] = next[f] /\ next[f] \in Nat /\ Pending(f)' \subseteq Pending(f)
    BY <1>2, UidsAreNaturals DEF Quit, server, ServerOK
  <2> QED
    BY <2>1, RoomStays
<1>4. skipped' \subseteq Folders \X Uids
  <2>1. \A c \in Calls : NotMoved(c) \subseteq Folders \X Uids
    <3> SUFFICES ASSUME NEW c \in Calls PROVE NotMoved(c) \subseteq Folders \X Uids
      OBVIOUS
    <3>1. call[c].folder \in Folders /\ Targets(c) \subseteq Uids
      BY DEF CallOK, Targets, On
    <3> QED
      BY <3>1 DEF NotMoved, Each
  <2>2. NotComing \subseteq Folders \X Uids
    BY DEF NotComing, Behind, Each, SyncOK, On
  <2>3. \A s \in skipped' : s \in skipped \/ s \in NotComing \/ \E c \in Calls : s \in NotMoved(c)
    <3> DEFINE U == UNION {NotMoved(c) : c \in Calls}
    <3>1. skipped' = (skipped \union NotComing) \union U
      BY DEF Quit
    <3>2. \A s : s \in U => \E c \in Calls : s \in NotMoved(c)
      BY Zenon
    <3> HIDE DEF U
    <3> QED
      BY <3>1, <3>2
  <2> QED
    BY <2>1, <2>2, <2>3 DEF CountsOK
<1> QED
  BY <1>1, <1>2, <1>3, <1>4 DEF Quit, CountsOK

LEMMA TypesStart == Init => Base
<1> SUFFICES ASSUME Init PROVE Base
  OBVIOUS
<1>0. PICK first \in Folders, early \in Early : \E order \in [1..Cardinality(early) -> early] :
         /\ box = [f \in Folders |-> [u \in Uids |->
                      IF f = first /\ u \in DOMAIN order THEN [mail |-> order[u], seen |-> FALSE, deleted |-> FALSE]
                      ELSE None]]
         /\ next = [f \in Folders |-> IF f = first THEN Cardinality(early) + 1 ELSE 1]
  BY DEF Init
<1> DEFINE n == Cardinality(early)
<1>1. n \in 0..MaxUid /\ early \subseteq Mails
  <2>1. early \subseteq Mails /\ n <= MaxUid
    BY EarlyAssumption
  <2>2. n \in Nat
    BY <2>1, MailsAssumption, FS_Subset, FS_CardinalityType
  <2> QED
    BY <2>1, <2>2, UidsAreNaturals
<1>2. PICK order \in [1..n -> early] :
         /\ box = [f \in Folders |-> [u \in Uids |->
                      IF f = first /\ u \in DOMAIN order THEN [mail |-> order[u], seen |-> FALSE, deleted |-> FALSE]
                      ELSE None]]
         /\ next = [f \in Folders |-> IF f = first THEN n + 1 ELSE 1]
  BY <1>0
<1> HIDE DEF n
<1>3. \A u \in 1..n : [mail |-> order[u], seen |-> FALSE, deleted |-> FALSE] \in Copy
  BY <1>1 DEF Copy
<1>4. box \in Boxes /\ next \in [Folders -> 1..MaxUid + 1] /\ (\A f \in Folders : \A u \in On(f) : u < next[f])
  <2>1. box \in Boxes
    BY <1>2, <1>3 DEF Boxes
  <2>2. \A f \in Folders : \A u \in On(f) : f = first /\ u <= n /\ u \in Nat
    BY <1>1, <1>2, UidsAreNaturals DEF On
  <2>3. next \in [Folders -> 1..MaxUid + 1]
    BY <1>1, <1>2, UidsAreNaturals
  <2> QED
    BY <1>1, <1>2, <2>1, <2>2, <2>3
<1>5. ServerOK
  BY <1>4, BoundsAssumption DEF Init, ServerOK, Boxes
<1>6. StoreOK /\ SyncOK /\ CountsOK
  <2>1. StoreOK
    BY BoundsAssumption DEF Init, StoreOK, Stored
  <2>2. SyncOK
    BY UidsAreNaturals DEF Init, SyncOK, NoSync, SyncSteps, Folders
  <2> QED
    BY <2>1, <2>2, BoundsAssumption DEF Init, CountsOK
<1>7. CallOK /\ CallsFit /\ \A f \in Folders : Pending(f) = {}
  <2>1. call \in [Calls -> CallRecord] /\ \A c \in Calls : call[c] = NoCall
    BY NoCallIsRecord DEF Init
  <2>2. NoCall.at = "idle"
    BY DEF NoCall
  <2> QED
    BY <2>1, <2>2, NoCallIsRecord DEF CallOK, CallRecord, CallsFit, Pending
<1>8. HasRoom
  <2> SUFFICES ASSUME NEW f \in Folders PROVE next[f] + Cardinality(Pending(f)) <= MaxUid + 1
    BY DEF HasRoom
  <2>1. Cardinality(Pending(f)) = 0
    BY <1>7, FS_EmptySet
  <2>2. next[f] \in Nat /\ next[f] <= MaxUid + 1
    BY <1>4, UidsAreNaturals
  <2> QED
    BY <2>1, <2>2
<1> QED
  BY <1>5, <1>6, <1>7, <1>8 DEF Base, TypeOK

LEMMA TypesStep == ASSUME Base, [Next]_vars PROVE Base'
<1>1. CASE UNCHANGED vars
  BY <1>1 DEF vars, server, store, Base, TypeOK, ServerOK, StoreOK, SyncOK, CallOK, CountsOK, HasRoom, CallsFit, Pending, On, Stored
<1> QED
  BY <1>1, ServerTypes, SyncTypes, CallTypes, QuitTypes DEF Next

\* The types, one row for a uid, and room for every mail a call is about to move.
THEOREM TypesHold == Spec => []TypeOK
<1>1. Spec => []Base
  BY TypesStart, TypesStep, PTL DEF Spec
<1>2. Base => TypeOK
  BY DEF Base
<1> QED
  BY <1>1, <1>2, PTL

-----------------------------------------------------------------------------
(***************************************************************************)
(* What a step does to a folder's uids and to a row.                       *)
(***************************************************************************)

\* A uid stays its mail's or is given up, or is the next one, given to a mail that comes in.
CellsMove(f) ==
    /\ validity'[f] = validity[f] /\ next'[f] \in {next[f], next[f] + 1}
    /\ \A u \in Uids : box'[f][u] # None => \/ box[f][u] # None /\ box'[f][u].mail = box[f][u].mail
                                            \/ u = next[f] /\ next'[f] = next[f] + 1

\* A row keeps its mail, and its uid unless it loses it; or it gets the uid of what is there.
RowMoves(i) ==
    rows'[i] # None =>
       \/ /\ rows[i] # None /\ rows'[i].mail = rows[i].mail
          /\ rows'[i].uid = 0 \/ (rows'[i].folder = rows[i].folder /\ rows'[i].uid = rows[i].uid)
       \/ /\ UNCHANGED server /\ rows'[i].folder \in Folders /\ rows'[i].uid \in On(rows'[i].folder)
          /\ rows'[i].mail = box[rows'[i].folder][rows'[i].uid].mail

LEMMA AppendMoves ==
  ASSUME Base, NEW b \in Boxes, \A f \in Folders : \A u \in Uids : b[f][u] # None => b[f][u] = box[f][u],
         NEW g \in Folders, NEW copy, Append(b, g, copy), NEW f \in Folders
  PROVE  CellsMove(f)
<1>1. next[g] \in Nat /\ next'[f] = (IF f = g THEN next[f] + 1 ELSE next[f]) /\ validity' = validity
  BY UidsAreNaturals DEF Append, Base, TypeOK, ServerOK
<1>2. \A u \in Uids : box'[f][u] # None => box'[f][u] = b[f][u] \/ (f = g /\ u = next[g])
  BY DEF Append, Boxes
<1> QED
  BY <1>1, <1>2 DEF CellsMove

LEMMA ShrinkMoves ==
  ASSUME UNCHANGED <<next, validity>>, NEW f \in Folders,
         \A u \in Uids : box'[f][u] # None => box[f][u] # None /\ box'[f][u].mail = box[f][u].mail
  PROVE  CellsMove(f)
  BY DEF CellsMove

LEMMA BoxMoves == ASSUME Base, [Next]_vars, NEW f \in Folders PROVE Renumbers(f) \/ CellsMove(f)
<1>0. box \in Boxes /\ box[f] \in [Uids -> Copy \union {None}]
  BY DEF Base, TypeOK, ServerOK, Boxes
<1>a. CASE UNCHANGED server
  BY <1>a DEF server, CellsMove
<1>1. ASSUME NEW g \in Folders, NEW m \in Mails, Arrives(m, g) PROVE CellsMove(f)
  BY <1>0, <1>1, AppendMoves DEF Arrives
<1>2. ASSUME NEW g \in Folders, NEW u \in Uids, FlaggedElsewhere(g, u) PROVE CellsMove(f)
  <2>1. box[g][u] \in Copy
    BY <1>0, <1>2 DEF FlaggedElsewhere, Boxes, On
  <2>2. [box[g][u] EXCEPT !.seen = ~@].mail = box[g][u].mail
    BY <2>1 DEF Copy
  <2>3. box' = [box EXCEPT ![g] = [box[g] EXCEPT ![u] = [box[g][u] EXCEPT !.seen = ~@]]]
    BY <1>2 DEF FlaggedElsewhere
  <2>4. \A v \in Uids : box'[f][v] # None => box[f][v] # None /\ box'[f][v].mail = box[f][v].mail
    BY <1>0, <1>2, <2>2, <2>3 DEF FlaggedElsewhere, Boxes, On
  <2> QED
    BY <1>2, <2>4, ShrinkMoves DEF FlaggedElsewhere
<1>3. ASSUME NEW g \in Folders, NEW u \in Uids, DestroyedElsewhere(g, u) PROVE CellsMove(f)
  <2>1. \A v \in Uids : box'[f][v] # None => box[f][v] # None /\ box'[f][v].mail = box[f][v].mail
    BY <1>0, <1>3 DEF DestroyedElsewhere, Boxes
  <2> QED
    BY <1>3, <2>1, ShrinkMoves DEF DestroyedElsewhere
<1>4. ASSUME NEW g \in Folders, NEW u \in Uids, NEW h \in Folders, MovedElsewhere(g, u, h) PROVE CellsMove(f)
  <2> DEFINE b == [box EXCEPT ![g][u] = None]
  <2>1. b \in Boxes /\ \A k \in Folders : \A v \in Uids : b[k][v] # None => b[k][v] = box[k][v]
    BY <1>0 DEF Boxes
  <2>2. Append(b, h, box[g][u])
    BY <1>4 DEF MovedElsewhere
  <2> HIDE DEF b
  <2> QED
    BY <2>1, <2>2, AppendMoves
<1>5. ASSUME NEW g \in Folders \ {f}, Renumbers(g) PROVE CellsMove(f)
  BY <1>5 DEF Renumbers, CellsMove, Base, TypeOK, ServerOK
<1>6. ASSUME NEW c \in Calls, FlagCarried(c) PROVE CellsMove(f)
  <2>0. call[c].folder \in Folders /\ call[c].seen \in BOOLEAN
    BY DEF Base, TypeOK, CallOK
  <2>1. \A u \in On(f) : [box[f][u] EXCEPT !.seen = call[c].seen].mail = box[f][u].mail
    BY <1>0, <2>0 DEF On, Boxes, Copy
  <2>2. \A u \in Uids : box'[f][u] = box[f][u] \/ (u \in On(f) /\ box'[f][u] = [box[f][u] EXCEPT !.seen = call[c].seen])
    BY <1>0, <1>6, <2>0 DEF FlagCarried, Boxes
  <2>3. \A u \in Uids : box'[f][u] # None => box[f][u] # None /\ box'[f][u].mail = box[f][u].mail
    BY <2>1, <2>2 DEF On
  <2> QED
    BY <1>6, <2>3, ShrinkMoves DEF FlagCarried
<1>7. ASSUME NEW c \in Calls, MoveCarried(c), ~UNCHANGED server PROVE CellsMove(f)
  <2>1. call[c].folder \in Folders /\ call[c].to \in Folders
    BY DEF Base, TypeOK, CallOK
  <2>2. PICK u \in On(call[c].folder) : Append([box EXCEPT ![call[c].folder][u] = None], call[c].to, box[call[c].folder][u])
    BY <1>7 DEF MoveCarried, Targets
  <2> DEFINE b == [box EXCEPT ![call[c].folder][u] = None]
  <2>3. b \in Boxes /\ \A k \in Folders : \A v \in Uids : b[k][v] # None => b[k][v] = box[k][v]
    BY <1>0 DEF Boxes
  <2>4. Append(b, call[c].to, box[call[c].folder][u])
    BY <2>2
  <2> HIDE DEF b
  <2> QED
    BY <2>1, <2>3, <2>4, AppendMoves
<1>8. ASSUME NEW c \in Calls, NEW gone, Expunges(c, gone) PROVE CellsMove(f)
  <2>1. \A u \in Uids : box'[f][u] # None => box[f][u] # None /\ box'[f][u].mail = box[f][u].mail
    BY <1>0, <1>8 DEF Expunges, Boxes
  <2> QED
    BY <1>8, <2>1, ShrinkMoves DEF Expunges
<1>12. ASSUME NEW c \in Calls, MarkCarried(c) PROVE CellsMove(f)
  <2>0. call[c].folder \in Folders /\ Targets(c) \subseteq On(call[c].folder)
    BY DEF Base, TypeOK, CallOK, Targets
  <2>1. \A u \in On(f) : [box[f][u] EXCEPT !.deleted = TRUE].mail = box[f][u].mail
    BY <1>0 DEF On, Boxes, Copy
  <2>2. \A u \in Uids : box'[f][u] = box[f][u] \/ (u \in On(f) /\ box'[f][u] = [box[f][u] EXCEPT !.deleted = TRUE])
    BY <1>0, <1>12, <2>0 DEF MarkCarried, Boxes
  <2>3. \A u \in Uids : box'[f][u] # None => box[f][u] # None /\ box'[f][u].mail = box[f][u].mail
    BY <2>1, <2>2 DEF On
  <2> QED
    BY <1>12, <2>3, ShrinkMoves DEF MarkCarried
<1>13. ASSUME NEW c \in Calls, CopyCarried(c), ~UNCHANGED server PROVE CellsMove(f)
  <2>1. PICK g \in Folders : g = call[c].to
    BY DEF Base, TypeOK, CallOK
  <2>2. PICK u : Append(box, g, box[call[c].folder][u])
    BY <1>13, <2>1 DEF CopyCarried
  <2> QED
    BY <1>0, <2>2, AppendMoves
<1>14. ASSUME NEW g \in Folders, NEW u \in Uids, MarkedElsewhere(g, u) PROVE CellsMove(f)
  <2>1. box[g][u] \in Copy
    BY <1>0, <1>14 DEF MarkedElsewhere, Boxes, On
  <2>2. [box[g][u] EXCEPT !.deleted = ~@].mail = box[g][u].mail
    BY <2>1 DEF Copy
  <2>3. box' = [box EXCEPT ![g] = [box[g] EXCEPT ![u] = [box[g][u] EXCEPT !.deleted = ~@]]]
    BY <1>14 DEF MarkedElsewhere
  <2>4. \A v \in Uids : box'[f][v] # None => box[f][v] # None /\ box'[f][v].mail = box[f][v].mail
    BY <1>0, <1>14, <2>2, <2>3 DEF MarkedElsewhere, Boxes, On
  <2> QED
    BY <1>14, <2>4, ShrinkMoves DEF MarkedElsewhere
<1>9. CASE ServerStep
  BY <1>1, <1>2, <1>3, <1>4, <1>5, <1>9, <1>14 DEF ServerStep
<1>10. CASE SyncStep \/ Quit \/ UNCHANGED vars
  <2>1. UNCHANGED server
    BY <1>10 DEF SyncStep, Quit, SyncStarts, ListAnswer, Download, FlagsAnswer, Compare, Finish, SyncFails, vars, server
  <2> QED
    BY <1>a, <2>1
<1>11. ASSUME NEW c \in Calls, CallStep(c) PROVE CellsMove(f)
  <2>1. CASE FlagCarried(c) \/ MoveCarried(c) \/ CopyCarried(c) \/ MarkCarried(c) \/ \E gone : Expunges(c, gone)
    BY <1>a, <1>6, <1>7, <1>8, <1>12, <1>13, <2>1 DEF CellsMove, server
  <2>2. \/ UNCHANGED server \/ FlagCarried(c) \/ MoveCarried(c) \/ CopyCarried(c) \/ MarkCarried(c)
        \/ UidExpungeCarried(c) \/ ExpungeCarried(c)
    BY <1>11 DEF CallStep, SetSeen, DeleteForever, Move, Retries, LookupAnswer, DestroyDrops, EmptyTrash, NothingToEmpty,
                 EmptyClears, HeadersStored, CallFails, SearchAnswer
  <2>3. UidExpungeCarried(c) \/ ExpungeCarried(c) => \E gone : Expunges(c, gone)
    BY DEF UidExpungeCarried, ExpungeCarried
  <2> QED
    BY <2>1, <2>2, <2>3 DEF CellsMove, server
<1> QED
  BY <1>9, <1>10, <1>11 DEF Next

LEMMA RowsMove == ASSUME Base, [Next]_vars, NEW i \in Rows PROVE RowMoves(i)
<1>0. rows \in [Rows -> Row \union {None}] /\ sync.folder \in Folders /\ ServerOK /\ StoreOK
  BY DEF Base, TypeOK, StoreOK, SyncOK
<1>a. CASE rows'[i] = rows[i] \/ rows'[i] = None
  BY <1>a DEF RowMoves
<1>b. ASSUME NEW f \in Folders, NEW u \in On(f), rows' \in Inserted(f, u), UNCHANGED <<server, known>> PROVE RowMoves(i)
  <2>1. \/ rows'[i] = rows[i]
        \/ /\ rows'[i] \in Row /\ rows'[i].folder = f /\ rows'[i].uid = u /\ rows'[i].mail = box[f][u].mail
    BY <1>0, <1>b, InsertedIsStored
  <2> QED
    BY <1>a, <1>b, <2>1 DEF RowMoves
<1>1. ASSUME NEW f \in Folders, SyncStarts(f) PROVE RowMoves(i)
  BY <1>a, <1>1 DEF SyncStarts
<1>2. CASE Download
  <2>1. PICK u : rows' \in IF u \in On(sync.folder) THEN Inserted(sync.folder, u) ELSE {rows}
    BY <1>2 DEF Download
  <2> QED
    BY <1>0, <1>2, <1>a, <1>b, <2>1 DEF Download
<1>3. CASE Compare
  <2>1. \/ rows'[i] = rows[i] \/ rows'[i] = None
        \/ /\ i \in Stored(sync.folder)
           /\ rows'[i] = [rows[i] EXCEPT !.seen = rows[i].uid \in sync.current]
    BY <1>3 DEF Compare
  <2>2. CASE i \in Stored(sync.folder) /\ rows'[i] = [rows[i] EXCEPT !.seen = rows[i].uid \in sync.current]
    <3>1. rows[i] \in Row /\ rows[i] # None
      BY <1>0, <2>2 DEF Stored
    <3>2. rows'[i].mail = rows[i].mail /\ rows'[i].uid = rows[i].uid /\ rows'[i].folder = rows[i].folder
      BY <2>2, <3>1 DEF Row
    <3> QED
      BY <3>1, <3>2 DEF RowMoves
  <2> QED
    BY <1>a, <2>1, <2>2
<1>4. ASSUME NEW c \in Calls, NEW j \in Rows, SetSeen(c, j) PROVE RowMoves(i)
  <2>1. rows[j] \in Row /\ rows[j] # None /\ rows' = [rows EXCEPT ![j] = [rows[j] EXCEPT !.seen = ~@]]
    BY <1>0, <1>4 DEF SetSeen, Exists
  <2>2. rows'[j].mail = rows[j].mail /\ rows'[j].uid = rows[j].uid /\ rows'[j].folder = rows[j].folder
    BY <1>0, <2>1 DEF Row
  <2> QED
    BY <1>0, <2>1, <2>2 DEF RowMoves
<1>5. ASSUME NEW c \in Calls, NEW j \in Rows, NEW g \in Folders, Move(c, j, g) PROVE RowMoves(i)
  <2>1. rows[j] \in Row /\ rows[j] # None /\ rows' = [rows EXCEPT ![j] = [rows[j] EXCEPT !.folder = g, !.uid = 0]]
    BY <1>0, <1>5 DEF Move, Exists
  <2>2. rows'[j].mail = rows[j].mail /\ rows'[j].uid = 0
    BY <1>0, <2>1 DEF Row
  <2> QED
    BY <1>0, <2>1, <2>2 DEF RowMoves
<1>6. ASSUME NEW c \in Calls, DestroyDrops(c) \/ EmptyClears(c) PROVE RowMoves(i)
  BY <1>0, <1>6, <1>a DEF DestroyDrops, EmptyClears
<1>7. ASSUME NEW c \in Calls, HeadersStored(c) PROVE RowMoves(i)
  <2>1. PICK u : rows' \in IF u \in On(call[c].folder) THEN Inserted(call[c].folder, u) ELSE {rows}
    BY <1>7 DEF HeadersStored
  <2>2. call[c].folder \in Folders
    BY DEF Base, TypeOK, CallOK
  <2> QED
    BY <1>7, <1>a, <1>b, <2>1, <2>2 DEF HeadersStored
<1>8. CASE ServerStep
  BY <1>8, <1>a DEF ServerStep, Arrives, FlaggedElsewhere, MarkedElsewhere, DestroyedElsewhere, MovedElsewhere, Renumbers, Elsewhen, store
<1>9. CASE SyncStep \/ Quit \/ UNCHANGED vars
  BY <1>1, <1>2, <1>3, <1>9, <1>a DEF SyncStep, Quit, ListAnswer, FlagsAnswer, Finish, SyncFails, vars, store
<1>10. ASSUME NEW c \in Calls, CallStep(c) PROVE RowMoves(i)
  <2>1. \/ UNCHANGED rows \/ (\E j \in Rows : SetSeen(c, j) \/ \E g \in Folders : Move(c, j, g))
        \/ DestroyDrops(c) \/ EmptyClears(c) \/ HeadersStored(c)
    BY <1>10 DEF CallStep, DeleteForever, FlagCarried, MoveCarried, CopyCarried, MarkCarried, UidExpungeCarried, ExpungeCarried, Expunges, Retries,
              LookupAnswer, Answered, GoesOn, EmptyTrash, NothingToEmpty,
                 CallFails, SearchAnswer, store
  <2> QED
    BY <1>4, <1>5, <1>6, <1>7, <1>a, <2>1
<1> QED
  BY <1>8, <1>9, <1>10 DEF Next

-----------------------------------------------------------------------------
(***************************************************************************)
(* Uids name their mails.                                                  *)
(***************************************************************************)

\* The folder's stored uids are meant under the UIDVALIDITY the server has.
Current(f) == known[f] \in {0, validity[f]} \/ (sync.at # "idle" /\ sync.folder = f)
NamesIn(f) ==
    \A i \in Stored(f) : rows[i].uid # 0 =>
        rows[i].uid < next[f] /\ (rows[i].uid \in On(f) => box[f][rows[i].uid].mail = rows[i].mail)
Names == \A f \in Folders : known[f] <= validity[f] /\ (Current(f) => NamesIn(f))

LEMMA KnownMoves == ASSUME Base, [Next]_vars, NEW f \in Folders
                    PROVE  known'[f] = known[f] \/ (sync.at # "idle" /\ sync.folder = f /\ known'[f] = validity[f] /\ UNCHANGED server)
<1>1. CASE ServerStep
  BY <1>1 DEF ServerStep, Arrives, FlaggedElsewhere, MarkedElsewhere, DestroyedElsewhere, MovedElsewhere, Renumbers, Elsewhen, store
<1>2. CASE SyncStep
  BY <1>2 DEF SyncStep, SyncStarts, ListAnswer, Download, FlagsAnswer, Compare, Finish, Synced, SyncFails, store, Base, TypeOK, StoreOK
<1>3. ASSUME NEW c \in Calls, CallStep(c) PROVE known' = known
  BY <1>3 DEF CallStep, SetSeen, DeleteForever, Move, FlagCarried, MoveCarried, CopyCarried, MarkCarried, UidExpungeCarried, ExpungeCarried, Expunges, Retries,
              LookupAnswer, Answered, GoesOn, DestroyDrops,
              EmptyTrash, NothingToEmpty, EmptyClears, HeadersStored, CallFails, SearchAnswer, store
<1>4. CASE Quit \/ UNCHANGED vars
  BY <1>4 DEF Quit, vars, store
<1> QED
  BY <1>1, <1>2, <1>3, <1>4 DEF Next

\* A sync that begins on a folder drops what it has under another UIDVALIDITY.
LEMMA SyncMoves == ASSUME Base, [Next]_vars, sync'.at # "idle"
                   PROVE  \/ sync.at # "idle" /\ sync'.folder = sync.folder
                          \/ sync.at = "idle" /\ \E f \in Folders : SyncStarts(f) /\ sync'.folder = f
<1>0. NoSync.at = "idle" /\ NoSync.folder = Inbox
  BY DEF NoSync
<1>1. CASE UNCHANGED sync
  BY <1>1
<1>2. CASE SyncStep
  <2>1. ASSUME NEW f \in Folders, SyncStarts(f) PROVE sync.at = "idle" /\ sync'.folder = f
    BY <2>1 DEF SyncStarts, NoSync
  <2>2. CASE ListAnswer \/ Download \/ FlagsAnswer
    BY <2>2 DEF ListAnswer, Download, FlagsAnswer, Base, TypeOK, SyncOK
  <2>3. CASE Compare \/ Finish \/ SyncFails
    BY <1>0, <2>3 DEF Compare, Finish, SyncFails, Synced
  <2> QED
    BY <1>2, <2>1, <2>2, <2>3 DEF SyncStep
<1>3. CASE ServerStep
  BY <1>1, <1>3 DEF ServerStep, Arrives, FlaggedElsewhere, MarkedElsewhere, DestroyedElsewhere, MovedElsewhere, Renumbers, Elsewhen
<1>4. ASSUME NEW c \in Calls, CallStep(c) PROVE UNCHANGED sync
  BY <1>4 DEF CallStep, SetSeen, DeleteForever, Move, FlagCarried, MoveCarried, CopyCarried, MarkCarried, UidExpungeCarried, ExpungeCarried, Expunges, Retries,
              LookupAnswer, Answered, GoesOn, DestroyDrops,
              EmptyTrash, NothingToEmpty, EmptyClears, HeadersStored, CallFails, SearchAnswer
<1>5. CASE Quit \/ UNCHANGED vars
  BY <1>0, <1>1, <1>5 DEF Quit, vars
<1> QED
  BY <1>1, <1>2, <1>3, <1>4, <1>5 DEF Next

LEMMA NamesStep == ASSUME Base, Names, [Next]_vars PROVE Names'
<1>0. Base'
  BY TypesStep
<1> SUFFICES ASSUME NEW f \in Folders PROVE known'[f] <= validity'[f] /\ (Current(f)' => NamesIn(f)')
  BY DEF Names
<1>1. known[f] \in Nat /\ validity[f] \in Nat /\ known[f] <= validity[f] /\ (Current(f) => NamesIn(f))
  BY BoundsAssumption DEF Names, Base, TypeOK, StoreOK, ServerOK
<1>2. CASE Renumbers(f)
  <2>1. known' = known /\ validity'[f] = validity[f] + 1 /\ rows' = rows /\ sync' = sync
    BY <1>2 DEF Renumbers, Elsewhen, store, Base, TypeOK, ServerOK
  <2>2. Current(f)' => \A i \in Rows : rows[i] # None /\ rows[i].folder = f => rows[i].uid = 0
    <3> SUFFICES ASSUME Current(f)' PROVE StoredUids(f) = {}
      BY DEF StoredUids, Stored
    <3>1. known[f] = 0
      BY <1>1, <1>2, <2>1 DEF Current, Renumbers
    <3> QED
      BY <1>2, <3>1 DEF Renumbers
  <2>3. Current(f)' => NamesIn(f)'
    BY <2>1, <2>2 DEF NamesIn, Stored
  <2> QED
    BY <1>1, <2>1, <2>3
<1>3. CASE CellsMove(f)
  <2>1. known'[f] <= validity'[f]
    BY <1>1, <1>3, KnownMoves DEF CellsMove
  <2>2. ASSUME Current(f)' PROVE Current(f) \/ \A i \in Rows : rows'[i] # None => rows'[i].folder # f
    <3>1. CASE known'[f] \in {0, validity'[f]}
      <4>1. known'[f] = known[f] => Current(f)
        BY <1>3, <3>1 DEF Current, CellsMove
      <4>2. known'[f] # known[f] => Current(f)
        BY KnownMoves DEF Current
      <4> QED
        BY <4>1, <4>2
    <3>2. CASE sync'.at # "idle" /\ sync'.folder = f
      <4>1. CASE sync.at # "idle" /\ sync.folder = f
        BY <4>1 DEF Current
      <4>2. CASE SyncStarts(f)
        <5>1. CASE known[f] \in {0, validity[f]}
          BY <5>1 DEF Current
        <5>2. CASE known[f] \notin {0, validity[f]}
          BY <4>2, <5>2 DEF SyncStarts, Stored
        <5> QED
          BY <5>1, <5>2
      <4> QED
        BY <3>2, <4>1, <4>2, SyncMoves
    <3> QED
      BY <2>2, <3>1, <3>2 DEF Current
  <2>3. ASSUME Current(f), NEW i \in Rows, rows'[i] # None, rows'[i].folder = f, rows'[i].uid # 0
        PROVE  rows'[i].uid < next'[f] /\ (box'[f][rows'[i].uid] # None => box'[f][rows'[i].uid].mail = rows'[i].mail)
    <3>0. rows'[i] \in Row /\ rows'[i].uid \in Uids /\ next[f] \in Nat /\ next'[f] \in Nat /\ next'[f] >= next[f]
      <4>1. rows'[i] \in Row
        BY <1>0, <2>3 DEF Base, TypeOK, StoreOK
      <4>2. next[f] \in Nat
        BY UidsAreNaturals DEF Base, TypeOK, ServerOK
      <4>3. rows'[i].uid \in Uids
        BY <2>3, <4>1, UidsAreNaturals DEF Row, Uids
      <4> QED
        BY <1>3, <4>1, <4>2, <4>3 DEF CellsMove
    <3> DEFINE u == rows'[i].uid
    <3>a. u \in Nat
      BY <3>0, UidsAreNaturals
    <3>1. CASE rows[i] # None /\ rows'[i].mail = rows[i].mail /\ rows'[i].folder = rows[i].folder /\ rows'[i].uid = rows[i].uid
      <4>1. u < next[f] /\ (u \in On(f) => box[f][u].mail = rows'[i].mail)
        BY <1>1, <2>3, <3>1 DEF NamesIn, Stored
      <4>2. box'[f][u] # None => box[f][u] # None /\ box'[f][u].mail = box[f][u].mail
        BY <1>3, <3>0, <3>a, <4>1 DEF CellsMove
      <4> QED
        BY <3>0, <3>a, <4>1, <4>2 DEF On
    <3>2. CASE UNCHANGED server /\ u \in On(f) /\ rows'[i].mail = box[f][u].mail
      <4>1. u < next[f]
        BY <3>2 DEF Base, TypeOK, ServerOK
      <4> QED
        BY <3>2, <4>1 DEF server
    <3> QED
      BY <2>3, <3>1, <3>2, RowsMove DEF RowMoves
  <2> QED
    BY <2>1, <2>2, <2>3 DEF NamesIn, Stored, On
<1> QED
  BY <1>2, <1>3, BoxMoves

LEMMA NamesStart == Init => Names
<1> SUFFICES ASSUME Init PROVE Names
  OBVIOUS
<1>1. \A f \in Folders : known[f] = 0 /\ validity[f] = 1
  BY DEF Init
<1>2. \A f \in Folders : Stored(f) = {}
  BY DEF Init, Stored
<1> QED
  BY <1>1, <1>2 DEF Names, NamesIn

LEMMA NamesHold == Spec => [](Base /\ Names)
<1>1. Init => Base /\ Names
  BY TypesStart, NamesStart
<1>2. Base /\ Names /\ [Next]_vars => (Base /\ Names)'
  BY TypesStep, NamesStep
<1> QED
  BY <1>1, <1>2, PTL DEF Spec

\* Under the UIDVALIDITY the store has of a folder, the mail the server has at a row's uid is the
\* row's mail: whatever moves, is renumbered or breaks off, no row shows or flags another's mail.
THEOREM UidsNameTheirMails == Spec => []UidNames
<1>1. Base /\ Names => UidNames
  <2> SUFFICES ASSUME Base, Names, NEW i \in Rows, rows[i] # None, rows[i].uid # 0,
                      known[rows[i].folder] = validity[rows[i].folder], box[rows[i].folder][rows[i].uid] # None
               PROVE  box[rows[i].folder][rows[i].uid].mail = rows[i].mail
    BY DEF UidNames
  <2>1. rows[i] \in Row /\ rows[i].folder \in Folders /\ rows[i].uid \in Uids
    BY UidsAreNaturals DEF Base, TypeOK, StoreOK, Row, Uids
  <2>2. Current(rows[i].folder) /\ rows[i].uid \in On(rows[i].folder) /\ i \in Stored(rows[i].folder)
    BY <2>1 DEF Current, On, Stored
  <2> QED
    BY <2>1, <2>2 DEF Names, NamesIn
<1> QED
  BY <1>1, NamesHold, PTL

-----------------------------------------------------------------------------
(***************************************************************************)
(* What a delete destroys.                                                 *)
(***************************************************************************)

\* The uids of a delete that began under the server's UIDVALIDITY were given out, to its mail.
Destroying == {"destroy", "expunge"}
IsAsked(k) ==
    k.at \in Destroying /\ k.named =>
        \A u \in k.uids : u < next[Trash] /\ (box[Trash][u] # None => box[Trash][u].mail = k.mail)
Asked == \A c \in Calls : IsAsked(call[c])

LEMMA AskedStep == ASSUME Base, Names, Asked, [Next]_vars PROVE Asked'
<1>0. Base' /\ Trash \in Folders /\ next[Trash] \in Nat
  BY TypesStep, TrashIsFolder, UidsAreNaturals DEF Base, TypeOK, ServerOK
<1> SUFFICES ASSUME NEW c \in Calls, call'[c].at \in Destroying, call'[c].named, NEW u \in call'[c].uids
             PROVE  u < next'[Trash] /\ (box'[Trash][u] # None => box'[Trash][u].mail = call'[c].mail)
  BY DEF Asked, IsAsked
<1>1. u \in Uids /\ u \in Nat
  BY <1>0, UidsAreNaturals DEF Base, TypeOK, CallOK
<1>a. ASSUME u < next[Trash], box[Trash][u] # None => box[Trash][u].mail = call'[c].mail, CellsMove(Trash)
      PROVE  u < next'[Trash] /\ (box'[Trash][u] # None => box'[Trash][u].mail = call'[c].mail)
  <2>1. next'[Trash] >= next[Trash] /\ next'[Trash] \in Nat
    BY <1>0, <1>a DEF CellsMove
  <2>2. box'[Trash][u] # None => box[Trash][u] # None /\ box'[Trash][u].mail = box[Trash][u].mail
    BY <1>0, <1>1, <1>a DEF CellsMove
  <2> QED
    BY <1>0, <1>1, <1>a, <2>1, <2>2
<1>b. call \in [Calls -> CallRecord] /\ call' \in [Calls -> CallRecord]
  BY <1>0 DEF Base, TypeOK, CallOK, CallRecord
<1>c. ASSUME call[c].at \in Destroying, call'[c].uids = call[c].uids, call'[c].mail = call[c].mail, call'[c].named = call[c].named
      PROVE  u < next'[Trash] /\ (box'[Trash][u] # None => box'[Trash][u].mail = call'[c].mail)
  <2>1. ~Renumbers(Trash)
    BY <1>c DEF Renumbers, Destroying
  <2>2. u < next[Trash] /\ (box[Trash][u] # None => box[Trash][u].mail = call'[c].mail)
    BY <1>c DEF Asked, IsAsked
  <2> QED
    BY <1>0, <1>a, <2>1, <2>2, BoxMoves
<1>2. CASE call'[c] = call[c]
  <2>1. call[c].at \in Destroying
    BY <1>2
  <2> QED
    BY <1>2, <1>c, <2>1
<1>3. CASE call'[c] # call[c]
  <2>1. ASSUME NEW d \in Calls, CallStep(d) PROVE d = c
    <3>1. \E k : call' = [call EXCEPT ![d] = k]
      <4>1. call' = [call EXCEPT ![d] = call'[d]]
        BY <2>1 DEF CallStep, SetSeen, DeleteForever, Move, FlagCarried, MoveCarried, CopyCarried, MarkCarried, UidExpungeCarried, ExpungeCarried, Expunges, Retries,
              LookupAnswer, Answered, GoesOn, DestroyDrops,
              EmptyTrash, NothingToEmpty, EmptyClears, HeadersStored, CallFails, SearchAnswer, Begins, Ends, Base, TypeOK, CallOK
      <4> QED
        BY <4>1
    <3> QED
      BY <1>3, <3>1 DEF Base, TypeOK, CallOK
  <2>2. CallStep(c)
    <3>1. ServerStep \/ SyncStep => call' = call
      BY DEF ServerStep, Arrives, FlaggedElsewhere, MarkedElsewhere, DestroyedElsewhere, MovedElsewhere, Renumbers, Elsewhen,
             SyncStep, SyncStarts, ListAnswer, Download, FlagsAnswer, Compare, Finish, SyncFails
    <3>2. Quit => call'[c].at = "idle"
      BY DEF Quit, NoCall
    <3> QED
      BY <1>3, <2>1, <3>1, <3>2 DEF Next, vars, Destroying
  <2>3. (\E i \in Rows : DeleteForever(c, i)) \/ LookupAnswer(c) \/ MarkCarried(c) \/ Retries(c)
    <3>0. call \in [Calls -> CallRecord]
      BY DEF Base, TypeOK, CallOK, CallRecord
    <3>1. Ends(c) => call'[c].at = "idle"
      BY <3>0 DEF Ends, NoCall
    <3>2. \A step \in {"mark", "drop", "clear"} : GoesOn(c, step) \/ Answered(c, step) => call'[c].at = step
      BY <3>0 DEF GoesOn, Answered, CallRecord, NoCall
    <3>6. CopyCarried(c) => GoesOn(c, "mark")
      BY DEF CopyCarried
    <3>7. UidExpungeCarried(c) \/ ExpungeCarried(c) => Ends(c) \/ Answered(c, "drop") \/ Answered(c, "clear")
      BY DEF UidExpungeCarried, ExpungeCarried, Expunges
    <3>8. NothingToEmpty(c) => Answered(c, "clear")
      BY DEF NothingToEmpty
    <3>9. "idle" \notin Destroying /\ "mark" \notin Destroying /\ "drop" \notin Destroying /\ "clear" \notin Destroying
          /\ "empty" \notin Destroying /\ "found" \notin Destroying /\ "flag" \notin Destroying /\ "move" \notin Destroying
      BY DEF Destroying
    <3>3. EmptyTrash(c) => call'[c].at \notin Destroying
      BY <3>0, <3>9 DEF EmptyTrash, Begins, NoCall
    <3>4. ASSUME NEW f \in Folders, NEW v \in Uids, SearchAnswer(c, f, v) PROVE call'[c].at \notin Destroying
      BY <3>0, <3>4, <3>9 DEF SearchAnswer, Begins, NoCall
    <3>5. ASSUME NEW i \in Rows, SetSeen(c, i) \/ \E g \in Folders : Move(c, i, g) PROVE call'[c].at \notin Destroying
      <4>1. call'[c] = NoCall \/ call'[c] = [About(i, "flag") EXCEPT !.seen = ~rows[i].seen]
            \/ \E g \in Folders : call'[c] = [About(i, "move") EXCEPT !.to = g] /\ rows[i].uid # 0
        BY <3>0, <3>5 DEF SetSeen, Move, Begins
      <4>2. Exists(i) /\ StoreOK
        BY <3>5 DEF SetSeen, Move, Base, TypeOK
      <4>3. About(i, "flag") \in CallRecord /\ About(i, "flag").at = "flag"
        BY <4>2, AboutIsRecord DEF CallSteps
      <4>4. rows[i].uid # 0 => About(i, "move") \in CallRecord /\ About(i, "move").at = "move"
        BY <4>2, AboutIsRecord DEF CallSteps
      <4>5. ASSUME NEW k \in CallRecord, NEW x PROVE [k EXCEPT !.seen = x].at = k.at /\ [k EXCEPT !.to = x].at = k.at
        BY DEF CallRecord
      <4>6. CASE call'[c] = NoCall
        BY <3>9, <4>6 DEF NoCall
      <4>7. CASE call'[c] = [About(i, "flag") EXCEPT !.seen = ~rows[i].seen]
        BY <3>9, <4>3, <4>5, <4>7
      <4>8. CASE \E g \in Folders : call'[c] = [About(i, "move") EXCEPT !.to = g] /\ rows[i].uid # 0
        BY <3>9, <4>4, <4>5, <4>8
      <4> QED
        BY <4>1, <4>6, <4>7, <4>8
    <3>10. \/ Ends(c) \/ CopyCarried(c) \/ UidExpungeCarried(c) \/ ExpungeCarried(c) \/ NothingToEmpty(c) \/ EmptyTrash(c)
           \/ (\E f \in Folders, v \in Uids : SearchAnswer(c, f, v))
           \/ (\E i \in Rows : SetSeen(c, i) \/ \E g \in Folders : Move(c, i, g))
           \/ (\E i \in Rows : DeleteForever(c, i)) \/ LookupAnswer(c) \/ MarkCarried(c) \/ Retries(c)
      BY <2>2 DEF CallStep, FlagCarried, MoveCarried, DestroyDrops, EmptyClears, HeadersStored, CallFails
    <3> QED
      BY <3>1, <3>2, <3>3, <3>4, <3>5, <3>6, <3>7, <3>8, <3>9, <3>10
  <2>4. ASSUME NEW i \in Rows, DeleteForever(c, i)
        PROVE  u < next[Trash] /\ (box[Trash][u] # None => box[Trash][u].mail = call'[c].mail)
    <3>1. rows[i] \in Row /\ rows[i] # None /\ rows[i].folder = Trash
      BY <2>4 DEF DeleteForever, Exists, Base, TypeOK, StoreOK
    <3>2. PICK at \in {"lookup", "destroy"} : call'[c] = About(i, at)
      BY <2>4 DEF DeleteForever, Begins, Base, TypeOK, CallOK
    <3>3. call'[c].uids = {rows[i].uid} \ {0} /\ call'[c].mail = rows[i].mail
          /\ (call'[c].named <=> known[rows[i].folder] = validity[rows[i].folder])
      <4>1. call'[c].uids = {rows[i].uid} \ {0} /\ call'[c].mail = rows[i].mail
        BY <3>2 DEF About, NoCall
      <4>2. call'[c].named = (known[rows[i].folder] = validity[rows[i].folder])
        BY <3>2, Zenon DEF About, NoCall
      <4> QED
        BY <4>1, <4>2
    <3>4. Current(Trash) /\ i \in Stored(Trash) /\ rows[i].uid = u /\ u # 0
      BY <3>1, <3>3 DEF Current, Stored
    <3>5. NamesIn(Trash)
      BY <1>0, <3>4 DEF Names
    <3> QED
      BY <1>1, <3>3, <3>4, <3>5 DEF NamesIn, On
  <2>5. ASSUME LookupAnswer(c)
        PROVE  u < next[Trash] /\ (box[Trash][u] # None => box[Trash][u].mail = call'[c].mail)
    <3>0. ~Answered(c, "drop")
      BY <1>b DEF Answered, NoCall, Destroying
    <3>1. call'[c].uids = {v \in On(Trash) : box[Trash][v].mail = call[c].mail} /\ call'[c].mail = call[c].mail
      BY <1>b, <2>5, <3>0 DEF LookupAnswer, CallRecord
    <3>2. u \in On(Trash) /\ box[Trash][u].mail = call'[c].mail
      BY <3>1
    <3> QED
      BY <1>0, <3>2 DEF Base, TypeOK, ServerOK
  <2>6. (\E i \in Rows : DeleteForever(c, i)) \/ LookupAnswer(c) => UNCHANGED server
    BY DEF DeleteForever, LookupAnswer
  <2>7. CASE MarkCarried(c) \/ Retries(c)
    <3>1. call'[c].uids = call[c].uids /\ call'[c].mail = call[c].mail /\ call'[c].named = call[c].named
      <4>1. (\E at : call' = [call EXCEPT ![c].at = at]) \/ (\E at : call' = [call EXCEPT ![c].at = at, ![c].retried = TRUE])
        BY <1>b, <2>7 DEF MarkCarried, GoesOn, Retries
      <4> QED
        BY <1>b, <4>1 DEF CallRecord
    <3>2. call[c].at \in Destroying
      <4>1. CASE MarkCarried(c)
        <5>1. call[c].at \in DOMAIN After /\ call'[c].at = After[call[c].at]
          BY <1>b, <4>1 DEF MarkCarried, GoesOn, CallRecord
        <5> QED
          BY <5>1 DEF After, Destroying
      <4>2. CASE Retries(c)
        <5>1. call[c].at \in DOMAIN First /\ call'[c].at = First[call[c].at]
          BY <1>b, <4>2 DEF Retries, Midway, CallRecord
        <5> QED
          BY <5>1 DEF First, Destroying
      <4> QED
        BY <2>7, <4>1, <4>2
    <3> QED
      BY <1>c, <3>1, <3>2
  <2> QED
    BY <2>3, <2>4, <2>5, <2>6, <2>7 DEF server
<1> QED
  BY <1>2, <1>3

\* A delete that began under the server's UIDVALIDITY marks and expunges the mail it was asked to:
\* uids are not given out twice, nobody renumbers a folder in use, and a broken connection begins
\* again with the same uids.  Without UIDPLUS it expunges what else was marked, and nothing more.
THEOREM DestroysItsMail == Spec => DestroysWhatWasAsked
<1>1. Init => Base /\ Names /\ Asked
  <2>1. Init => Asked
    BY DEF Init, Asked, IsAsked, NoCall, Destroying
  <2> QED
    BY <2>1, TypesStart, NamesStart
<1>2. Base /\ Names /\ Asked /\ [Next]_vars => (Base /\ Names /\ Asked)'
  BY TypesStep, NamesStep, AskedStep
<1>3. ASSUME Base, Asked, NEW c \in Calls, call[c].named, call[c].at \in {"destroy", "expunge"}, NEW u \in On(Trash),
             box[Trash][u].mail # call[c].mail
      PROVE  /\ MarkCarried(c) \/ UidExpungeCarried(c) => box'[Trash][u] = box[Trash][u]
             /\ ExpungeCarried(c) => box[Trash][u].deleted \/ box'[Trash][u] = box[Trash][u]
  <2>1. u \in Uids /\ box \in Boxes /\ Trash \in Folders /\ call[c].folder \in Folders
    <3>1. u \in Uids /\ box \in Boxes /\ Trash \in Folders
      BY <1>3, TrashIsFolder DEF Base, TypeOK, ServerOK, Boxes, On
    <3>2. call[c].folder \in Folders
      BY <1>3 DEF Base, TypeOK, CallOK
    <3> QED
      BY <3>1, <3>2
  <2>2. u \notin call[c].uids
    BY <1>3 DEF Asked, IsAsked, Destroying, On
  <2>3. u \notin Targets(c)
    BY <1>3, <2>2 DEF Targets
  <2>4. ASSUME MarkCarried(c) PROVE box'[Trash][u] = box[Trash][u]
    BY <1>3, <2>1, <2>3, <2>4 DEF MarkCarried, Boxes
  <2>5. ASSUME UidExpungeCarried(c) PROVE box'[Trash][u] = box[Trash][u]
    <3>1. PICK gone : Expunges(c, gone) /\ u \notin gone
      BY <2>3, <2>5 DEF UidExpungeCarried
    <3>2. box' = [box EXCEPT ![call[c].folder] = [v \in Uids |-> IF v \in gone THEN None ELSE box[call[c].folder][v]]]
      BY <3>1 DEF Expunges
    <3> QED
      BY <2>1, <3>1, <3>2 DEF Boxes
  <2>6. ASSUME ExpungeCarried(c) PROVE box[Trash][u].deleted \/ box'[Trash][u] = box[Trash][u]
    BY <2>1, <2>6 DEF ExpungeCarried, Expunges, Marked, Boxes
  <2> QED
    BY <2>4, <2>5, <2>6
<1>4. Base /\ Asked =>
      [\A c \in Calls : call[c].named /\ call[c].at \in {"destroy", "expunge"} =>
          \A u \in On(Trash) : box[Trash][u].mail # call[c].mail =>
              /\ MarkCarried(c) \/ UidExpungeCarried(c) => box'[Trash][u] = box[Trash][u]
              /\ ExpungeCarried(c) => box[Trash][u].deleted \/ box'[Trash][u] = box[Trash][u]]_vars
  BY <1>3
<1> QED
  BY <1>1, <1>2, <1>4, PTL DEF Spec, DestroysWhatWasAsked

-----------------------------------------------------------------------------
(***************************************************************************)
(* What the sync passes over.                                              *)
(***************************************************************************)

\* Uids no mail that comes in can be below: stored ones, and what the running sync asks for.
Marks(f) == StoredUids(f) \union (IF sync.folder = f /\ sync.at # "idle" THEN sync.todo \union {sync.max} ELSE {})
Left(f, u) == u \in On(f) /\ u \notin StoredUids(f) /\ u \notin Coming(f) /\ u \notin Leaving(f)
Passed(f, u) == <<f, u>> \in skipped \/ \A v \in Marks(f) : v < u
Fresh == \A f \in Folders : Current(f) => \A u \in Uids : Left(f, u) => Passed(f, u)

\* A running sync asks for uids that were given out, and what it had is all there is below.
SyncFits ==
    /\ sync.at # "idle" => sync.max < next[sync.folder] /\ \A u \in sync.todo : u < next[sync.folder]
    /\ sync.at # "download" => sync.todo = {}
    /\ sync.at = "compare" => \A u \in On(sync.folder) : u <= sync.max => u \in sync.old

LEMMA StoredUid ==
  ASSUME NEW f, NEW u
  PROVE  /\ u \in StoredUids(f) <=> u # 0 /\ \E i \in Rows : rows[i] # None /\ rows[i].folder = f /\ rows[i].uid = u
         /\ u \in StoredUids(f)' <=> u # 0 /\ \E i \in Rows : rows'[i] # None /\ rows'[i].folder = f /\ rows'[i].uid = u
  BY DEF StoredUids, Stored

Away == {"move", "mark", "clean"}

LEMMA LeavingUid ==
  ASSUME NEW f, NEW u
  PROVE  /\ u \in Leaving(f) <=> \E c \in Calls : call[c].at \in Away /\ call[c].folder = f /\ u \in call[c].uids
         /\ u \in Leaving(f)' <=> \E c \in Calls : call'[c].at \in Away /\ call'[c].folder = f /\ u \in call'[c].uids
  BY DEF Leaving, MovesAway, Away

LEMMA StoredAreUids == ASSUME Base, NEW f PROVE StoredUids(f) \subseteq Uids
  BY UidsAreNaturals DEF Base, TypeOK, StoreOK, StoredUids, Stored, Row, Uids

LEMMA MarksAreBelow == ASSUME Base, Names, SyncFits, NEW f \in Folders, Current(f) PROVE \A v \in Marks(f) : v < next[f]
<1>1. \A v \in StoredUids(f) : v < next[f]
  BY DEF Names, NamesIn, StoredUids, Stored
<1> QED
  BY <1>1 DEF Marks, SyncFits

LEMMA MarksAreNumbers == ASSUME Base, NEW f \in Folders PROVE Marks(f) \subseteq Nat
<1>1. StoredUids(f) \subseteq Nat
  BY StoredAreUids, UidsAreNaturals
<1>2. sync.todo \subseteq Nat /\ sync.max \in Nat
  <2>1. SyncOK
    BY DEF Base, TypeOK
  <2>2. sync.todo \subseteq Uids /\ sync.max \in 0..MaxUid
    BY <2>1 DEF SyncOK
  <2>3. 0..MaxUid \subseteq Nat /\ Uids \subseteq Nat
    BY UidsAreNaturals
  <2> HIDE DEF Uids
  <2> QED
    BY <2>2, <2>3
<1> QED
  BY <1>1, <1>2 DEF Marks

\* A sync that begins asks above the largest uid it kept.
LEMMA SyncBegins ==
  ASSUME Base, Names, NEW f \in Folders, SyncStarts(f)
  PROVE  /\ sync.at = "idle" /\ sync'.folder = f /\ sync'.todo = {} /\ UNCHANGED <<server, known, call, skipped>>
         /\ sync'.at \in {"list", "download", "compare"} /\ (sync'.at = "compare" => On(f) = {})
         /\ sync'.max = 0 \/ sync'.max \in StoredUids(f)'
         /\ sync'.max < next[f]
         /\ \A i \in Rows : rows'[i] = IF i \in Stored(f) /\ known[f] \notin {0, validity[f]} THEN None ELSE rows[i]
<1> DEFINE kept == [i \in Rows |-> IF i \in Stored(f) /\ known[f] \notin {0, validity[f]} THEN None ELSE rows[i]]
           left == {kept[i].uid : i \in {i \in Stored(f) : kept[i] # None}}
           max == TopUid(left)
<1>0. rows \in [Rows -> Row \union {None}] /\ next[f] \in Nat /\ next[f] >= 1
  BY UidsAreNaturals DEF Base, TypeOK, StoreOK, ServerOK
<1>1. rows' = kept /\ sync' = [NoSync EXCEPT !.at = IF On(f) # {} THEN "list" ELSE IF max > 0 THEN "compare" ELSE "download",
                                             !.folder = f, !.max = max, !.view = IF max = 0 THEN On(f) ELSE {}]
  BY DEF SyncStarts
<1>2. max = 0 \/ max \in left
  <2>1. left \subseteq 0..MaxUid
    BY <1>0 DEF Stored, Row
  <2> HIDE DEF left
  <2>2. CASE left = {}
    BY <2>2 DEF TopUid
  <2>3. CASE left # {}
    BY <2>1, <2>3, MaxIsLargest, UidsAreNaturals DEF TopUid
  <2> QED
    BY <2>2, <2>3
<1>3. max # 0 => \E i \in Rows : rows'[i] # None /\ rows'[i] = rows[i] /\ rows[i].folder = f /\ rows[i].uid = max
                                 /\ known[f] \in {0, validity[f]}
  <2>1. \A i \in Stored(f) : kept[i] # None => i \in Rows /\ kept[i] = rows[i] /\ rows[i].folder = f /\ known[f] \in {0, validity[f]}
    BY DEF Stored
  <2>2. max # 0 => \E i \in Stored(f) : kept[i] # None /\ kept[i].uid = max
    <3> HIDE DEF max, kept
    <3> QED
      BY <1>2
  <2> HIDE DEF max, kept
  <2> QED
    BY <1>1, <2>1, <2>2
<1>4. /\ sync'.at = (IF On(f) # {} THEN "list" ELSE IF max > 0 THEN "compare" ELSE "download")
      /\ sync'.folder = f /\ sync'.max = max /\ sync'.todo = {}
  <2> HIDE DEF max
  <2> QED
    BY <1>1 DEF NoSync
<1>5. max = 0 \/ max \in StoredUids(f)'
  <2> HIDE DEF max
  <2> QED
    BY <1>3, StoredUid
<1>6. max < next[f]
  <2> HIDE DEF max
  <2>1. CASE max = 0
    BY <1>0, <2>1
  <2>2. CASE max # 0
    <3>1. PICK i \in Rows : rows[i] # None /\ rows[i].folder = f /\ rows[i].uid = max /\ known[f] \in {0, validity[f]}
      BY <1>3, <2>2
    <3>2. NamesIn(f) /\ i \in Stored(f)
      BY <3>1 DEF Names, Current, Stored
    <3> QED
      BY <2>2, <3>1, <3>2 DEF NamesIn
  <2> QED
    BY <2>1, <2>2
<1> HIDE DEF max
<1>7. \A i \in Rows : rows'[i] = IF i \in Stored(f) /\ known[f] \notin {0, validity[f]} THEN None ELSE rows[i]
  BY <1>1
<1>8. sync.at = "idle" /\ UNCHANGED <<server, known, call, skipped>>
  BY DEF SyncStarts
<1> QED
  BY <1>4, <1>5, <1>6, <1>7, <1>8

LEMMA SyncFitsStep == ASSUME Base, Names, SyncFits, [Next]_vars PROVE SyncFits'
<1>0. /\ Base' /\ sync.folder \in Folders /\ sync.max \in Nat /\ sync.todo \subseteq Uids /\ Uids \subseteq Nat
      /\ \A f \in Folders : next[f] \in Nat /\ next'[f] \in Nat
  BY TypesStep, UidsAreNaturals DEF Base, TypeOK, SyncOK, ServerOK
<1>a. CASE sync'.at = "idle" /\ sync'.todo = {}
  BY <1>a DEF SyncFits
<1>b. CASE UNCHANGED sync /\ sync.at # "idle"
  <2> DEFINE f == sync.folder
  <2>1. CellsMove(f)
    BY <1>0, <1>b, BoxMoves DEF Renumbers
  <2>2. next'[f] >= next[f] /\ \A u \in Uids : box'[f][u] # None => u \in On(f) \/ u = next[f]
    BY <1>0, <2>1 DEF CellsMove, On
  <2>a. sync.max < next[f] /\ (\A u \in sync.todo : u < next[f]) /\ next[f] \in Nat /\ next'[f] \in Nat
    BY <1>0, <1>b DEF SyncFits
  <2>3. sync.max < next'[f] /\ \A u \in sync.todo : u < next'[f]
    <3>1. \A u \in sync.todo : u \in Nat
      BY <1>0
    <3> HIDE DEF f
    <3> QED
      BY <1>0, <2>2, <2>a, <3>1
  <2>4. sync.at = "compare" => \A u \in Uids : box'[f][u] # None => (u <= sync.max => u \in sync.old)
    BY <1>0, <1>b, <2>2 DEF SyncFits, On
  <2> QED
    BY <1>b, <2>3, <2>4 DEF SyncFits, On
<1>c. CASE UNCHANGED sync
  BY <1>a, <1>b, <1>c DEF SyncFits
<1>1. ASSUME NEW f \in Folders, SyncStarts(f) PROVE SyncFits'
  BY <1>1, SyncBegins DEF SyncFits, server, On
<1>2. CASE ListAnswer
  <2>1. /\ sync'.at = "download" /\ sync'.folder = sync.folder /\ sync'.max = sync.max /\ sync'.todo \subseteq On(sync.folder)
        /\ sync.at = "list" /\ UNCHANGED server
    BY <1>2 DEF ListAnswer, Base, TypeOK, SyncOK
  <2> QED
    BY <1>0, <2>1 DEF SyncFits, server, Base, TypeOK, ServerOK
<1>3. CASE Download
  <2>1. /\ sync'.at = "download" /\ sync'.folder = sync.folder /\ sync'.max = sync.max /\ sync'.todo \subseteq sync.todo
        /\ sync.at = "download" /\ UNCHANGED server
    BY <1>3 DEF Download, Base, TypeOK, SyncOK
  <2> QED
    BY <2>1 DEF SyncFits, server
<1>4. CASE FlagsAnswer
  <2>1. /\ sync'.at = "compare" /\ sync'.folder = sync.folder /\ sync'.max = sync.max /\ sync'.todo = {}
        /\ sync'.old = {u \in On(sync.folder) : u <= sync.max} /\ sync.at = "download" /\ UNCHANGED server
    BY <1>4 DEF FlagsAnswer, Base, TypeOK, SyncOK
  <2> QED
    BY <2>1 DEF SyncFits, server, On
<1>5. CASE Compare \/ Finish \/ SyncFails
  BY <1>5, <1>a DEF Compare, Finish, SyncFails, Synced, NoSync
<1>6. CASE SyncStep
  BY <1>1, <1>2, <1>3, <1>4, <1>5, <1>6 DEF SyncStep
<1>7. CASE ServerStep
  BY <1>c, <1>7 DEF ServerStep, Arrives, FlaggedElsewhere, MarkedElsewhere, DestroyedElsewhere, MovedElsewhere, Renumbers, Elsewhen
<1>8. ASSUME NEW c \in Calls, CallStep(c) PROVE UNCHANGED sync
  BY <1>8 DEF CallStep, SetSeen, DeleteForever, Move, FlagCarried, MoveCarried, CopyCarried, MarkCarried, UidExpungeCarried, ExpungeCarried, Expunges, Retries,
              LookupAnswer, Answered, GoesOn, DestroyDrops,
              EmptyTrash, NothingToEmpty, EmptyClears, HeadersStored, CallFails, SearchAnswer
<1>9. CASE Quit
  BY <1>9, <1>a DEF Quit, NoSync
<1>10. CASE UNCHANGED vars
  BY <1>10, <1>c DEF vars
<1> QED
  BY <1>6, <1>7, <1>8, <1>9, <1>10, <1>c DEF Next

\* A uid nothing new was stored of, and nothing came in below, stays as it was.
LEMMA StaysPassed ==
  ASSUME Fresh, NEW f \in Folders, Current(f), NEW u \in Uids, Left(f, u), Marks(f)' \subseteq Marks(f),
         <<f, u>> \in skipped => <<f, u>> \in skipped'
  PROVE  Passed(f, u)'
  BY DEF Fresh, Passed

LEMMA FreshServer ==
  ASSUME Base, Names, SyncFits, Fresh, ServerStep, NEW f \in Folders, Current(f)', NEW u \in Uids, Left(f, u)'
  PROVE  Passed(f, u)'
<1>1. /\ UNCHANGED <<rows, known, sync, call>>
      /\ skipped' = skipped \/ \E g \in Folders : Renumbers(g) /\ skipped' = {s \in skipped : s[1] # g}
  BY DEF ServerStep, Arrives, FlaggedElsewhere, MarkedElsewhere, DestroyedElsewhere, MovedElsewhere, Renumbers, Elsewhen, store
<1>2. Marks(f)' = Marks(f) /\ Leaving(f)' = Leaving(f) /\ StoredUids(f)' = StoredUids(f)
  BY <1>1 DEF Marks, Leaving, MovesAway, StoredUids, Stored
<1>3. CASE Renumbers(f)
  <2>1. known[f] = 0 /\ (sync.at = "idle" \/ sync.folder # f)
    <3>1. validity'[f] = validity[f] + 1 /\ known[f] <= validity[f] /\ known[f] \in Nat /\ validity[f] \in Nat
          /\ (sync.at = "idle" \/ sync.folder # f)
      BY <1>3, BoundsAssumption DEF Renumbers, Names, Base, TypeOK, ServerOK, StoreOK
    <3> QED
      BY <1>1, <3>1 DEF Current
  <2>2. StoredUids(f) = {}
    BY <1>3, <2>1 DEF Renumbers
  <2>3. Marks(f)' = {}
    BY <1>2, <2>1, <2>2 DEF Marks
  <2> QED
    BY <2>3 DEF Passed
<1>4. CASE ~Renumbers(f)
  <2>1. CellsMove(f)
    BY <1>4, BoxMoves DEF Next
  <2>2. Current(f)
    BY <1>1, <2>1 DEF Current, CellsMove
  <2>3. CASE u \in On(f)
    <3>1. u \notin Coming(f)
      BY <1>1, <2>3 DEF Left, Coming, On
    <3>2. Left(f, u)
      BY <1>2, <2>3, <3>1 DEF Left
    <3>3. <<f, u>> \in skipped => <<f, u>> \in skipped'
      BY <1>1, <1>4
    <3> QED
      BY <1>2, <2>2, <3>2, <3>3, StaysPassed
  <2>4. CASE u \notin On(f)
    <3>1. u = next[f]
      BY <2>1, <2>4 DEF CellsMove, Left, On
    <3> QED
      BY <1>2, <2>2, <3>1, MarksAreBelow DEF Passed
  <2> QED
    BY <2>3, <2>4
<1> QED
  BY <1>3, <1>4

\* A sync that breaks off: what it was going to store is above all that is stored, or noted.
LEMMA BreaksOff ==
  ASSUME Base, Fresh, NEW f \in Folders, Current(f), NEW u \in On(f), u \notin StoredUids(f), u \notin Leaving(f),
         sync'.at = "idle", UNCHANGED rows, skipped \union NotComing \subseteq skipped'
  PROVE  Passed(f, u)'
<1>1. u \in Uids /\ u \in Nat /\ StoredUids(f) \subseteq Uids /\ Uids \subseteq Nat
  BY StoredAreUids, UidsAreNaturals DEF On
<1>2. Marks(f)' = StoredUids(f)
  BY DEF Marks, StoredUids, Stored
<1>3. CASE u \in Coming(f)
  <2> DEFINE top == TopUid(StoredUids(f))
  <2>1. top \in Nat /\ \A v \in StoredUids(f) : v <= top
    <3>1. top \in 0..MaxUid /\ \A v \in StoredUids(f) : v <= top
      BY <1>1, TopIsLargest
    <3> HIDE DEF top
    <3> QED
      BY <3>1, UidsAreNaturals
  <2>2. top \in StoredUids(f) \/ StoredUids(f) = {}
    BY <1>1, TopIsLargest
  <2> HIDE DEF top
  <2>3. CASE u < top
    <3>1. sync.folder = f
      BY <1>3 DEF Coming
    <3>2. <<f, u>> \in Behind(f, top) /\ <<f, u>> \in Each(f, Coming(f))
      BY <1>3, <2>3 DEF Behind, Each
    <3>3. <<f, u>> \in NotComing
      BY <3>1, <3>2 DEF NotComing, top
    <3> QED
      BY <3>3 DEF Passed
  <2>4. CASE ~(u < top)
    <3>1. \A v \in StoredUids(f) : v < u
      <4> SUFFICES ASSUME NEW v \in StoredUids(f) PROVE v < u
        OBVIOUS
      <4>1. v \in Nat /\ v <= top /\ top # u
        BY <1>1, <2>1, <2>2
      <4> QED
        BY <1>1, <2>1, <2>4, <4>1
    <3> QED
      BY <1>2, <3>1 DEF Passed
  <2> QED
    BY <2>3, <2>4
<1>4. CASE u \notin Coming(f)
  <2>1. Left(f, u) /\ Marks(f)' \subseteq Marks(f)
    BY <1>2, <1>4 DEF Left, Marks
  <2> QED
    BY <1>1, <2>1, StaysPassed
<1> QED
  BY <1>3, <1>4

LEMMA FreshSync ==
  ASSUME Base, Names, SyncFits, Fresh, SyncStep, NEW f \in Folders, Current(f)', NEW u \in Uids, Left(f, u)'
  PROVE  Passed(f, u)'
<1>0. /\ UNCHANGED <<server, call>> /\ ServerOK /\ StoreOK /\ sync.folder \in Folders /\ sync.todo \subseteq Uids /\ u \in Nat
      /\ rows \in [Rows -> Row \union {None}]
  BY UidsAreNaturals DEF SyncStep, SyncStarts, ListAnswer, Download, FlagsAnswer, Compare, Finish, SyncFails,
     Base, TypeOK, SyncOK, StoreOK
<1>1. u \in On(f) /\ u \notin Leaving(f)
  BY <1>0 DEF Left, On, Leaving, MovesAway, server
<1>2. u \notin StoredUids(f)' /\ u \notin Coming(f)'
  BY DEF Left
<1>3. ASSUME NEW g \in Folders, SyncStarts(g) PROVE Passed(f, u)'
  <2>1. /\ sync.at = "idle" /\ sync'.folder = g /\ sync'.todo = {} /\ UNCHANGED <<known, skipped>>
        /\ sync'.max = 0 \/ sync'.max \in StoredUids(g)'
        /\ \A i \in Rows : rows'[i] = IF i \in Stored(g) /\ known[g] \notin {0, validity[g]} THEN None ELSE rows[i]
    BY <1>3, SyncBegins
  <2>2. Marks(f)' \subseteq StoredUids(f)' \union {0}
    BY <2>1 DEF Marks
  <2>3. CASE g = f /\ known[f] \notin {0, validity[f]}
    <3>1. StoredUids(f)' = {}
      <4>1. \A i \in Rows : rows'[i] # None => rows'[i].folder # f
        BY <2>1, <2>3 DEF Stored
      <4> QED
        BY <4>1 DEF StoredUids, Stored
    <3>2. \A v \in Marks(f)' : v = 0
      BY <2>2, <3>1
    <3>3. u > 0
      BY DEF Uids
    <3> QED
      BY <3>2, <3>3 DEF Passed
  <2>4. CASE ~(g = f /\ known[f] \notin {0, validity[f]})
    <3>1. Current(f)
      BY <1>0, <2>1, <2>4 DEF Current, server
    <3>2. StoredUids(f)' = StoredUids(f)
      <4>1. \A i \in Rows : rows[i] # None /\ rows[i].folder = f => rows'[i] = rows[i]
        BY <2>1, <2>4 DEF Stored
      <4>2. \A i \in Rows : rows'[i] # None /\ rows'[i].folder = f => rows'[i] = rows[i]
        BY <2>1
      <4> QED
        BY <4>1, <4>2 DEF StoredUids, Stored
    <3>3. Left(f, u)
      BY <1>1, <1>2, <2>1, <3>2 DEF Left, Coming
    <3>4. <<f, u>> \in skipped' \/ \A v \in StoredUids(f) : v < u
      BY <2>1, <3>1, <3>3 DEF Fresh, Passed, Marks
    <3>5. 0 < u
      BY DEF Uids
    <3> QED
      BY <2>2, <3>2, <3>4, <3>5 DEF Passed
  <2> QED
    BY <2>3, <2>4
<1>4. CASE ListAnswer
  <2> DEFINE new == {v \in On(sync.folder) : v > sync.max /\ InReach(v)}
             out == {v \in On(sync.folder) : v > sync.max /\ ~InReach(v)}
  <2>1. /\ sync.at = "list" /\ sync'.folder = sync.folder /\ sync'.at = "download" /\ sync'.todo = new /\ sync'.max = sync.max
        /\ skipped' = skipped \union Each(sync.folder, out) /\ UNCHANGED store
    BY <1>4 DEF ListAnswer, Base, TypeOK, SyncOK
  <2>2. Current(f) /\ StoredUids(f)' = StoredUids(f)
    BY <1>0, <2>1 DEF Current, server, store, StoredUids, Stored
  <2> HIDE DEF new, out
  <2>3. CASE f # sync.folder
    <3>1. Left(f, u) /\ Marks(f)' = Marks(f)
      BY <1>1, <1>2, <2>1, <2>2, <2>3 DEF Left, Marks, Coming
    <3> QED
      BY <2>1, <2>2, <3>1, StaysPassed
  <2>4. CASE f = sync.folder
    <3>1. u \notin new
      <4>1. u \in new => u \in Coming(f)'
        BY <1>0, <1>1, <2>1, <2>4 DEF Coming, server, On
      <4> QED
        BY <1>2, <4>1
    <3>2. CASE u > sync.max
      <4>1. u \in out
        BY <1>1, <2>4, <3>1, <3>2 DEF new, out
      <4>2. <<f, u>> \in Each(sync.folder, out)
        BY <2>4, <4>1 DEF Each
      <4> QED
        BY <2>1, <4>2 DEF Passed
    <3>3. CASE ~(u > sync.max)
      <4>1. Left(f, u) /\ sync.max \in Marks(f) /\ ~(sync.max < u)
        BY <1>1, <1>2, <2>1, <2>2, <2>4, <3>3 DEF Left, Marks, Coming, Base, TypeOK, SyncOK
      <4>2. <<f, u>> \in skipped
        BY <2>2, <4>1 DEF Fresh, Passed
      <4> QED
        BY <2>1, <4>2 DEF Passed
    <3> QED
      BY <3>2, <3>3
  <2> QED
    BY <2>3, <2>4
<1>5. CASE Download
  <2> DEFINE g == sync.folder
             small == {v \in sync.todo : v \notin On(g) \/ box[g][v].mail \notin Large}
             w == Max(IF small # {} THEN small ELSE sync.todo)
  <2>0. w \in sync.todo
    <3>1. sync.todo \in SUBSET (0..MaxUid) /\ small \in SUBSET (0..MaxUid) /\ sync.todo # {}
      BY <1>0, <1>5, UidsAreNaturals DEF Download, Uids
    <3>2. CASE small # {}
      <4>1. w \in small
        BY <3>1, <3>2, MaxIsLargest, UidsAreNaturals
      <4> QED
        BY <4>1
    <3>3. CASE small = {}
      BY <3>1, <3>3, MaxIsLargest, UidsAreNaturals
    <3> QED
      BY <3>2, <3>3
  <2>1. /\ sync.at = "download" /\ sync'.at = "download" /\ sync'.folder = g /\ sync'.max = sync.max /\ sync'.todo = sync.todo \ {w}
        /\ rows' \in (IF w \in On(g) THEN Inserted(g, w) ELSE {rows}) /\ skipped' = skipped \ {<<g, w>>} /\ known' = known
    BY <1>5 DEF Download, Base, TypeOK, SyncOK
  <2> HIDE DEF w, small
  <2>2. Current(f)
    BY <1>0, <2>1 DEF Current, server
  <2>3. \A h, v : v \in StoredUids(h)' <=> v \in StoredUids(h) \/ (h = g /\ v = w /\ w \in On(g))
    <3>1. CASE w \in On(g)
      <4>1. rows' \in Inserted(g, w) /\ g \in Folders
        BY <1>0, <2>1, <3>1
      <4>2. /\ \A i \in Rows : \/ rows'[i] = rows[i]
                               \/ /\ rows'[i] \in Row /\ rows'[i].folder = g /\ rows'[i].uid = w
                                  /\ rows[i] # None => rows[i].uid = 0 /\ rows[i].folder = g
            /\ \E i \in Rows : rows'[i] \in Row /\ rows'[i].folder = g /\ rows'[i].uid = w
        BY <1>0, <2>1, <3>1, <4>1, InsertedIsStored
      <4>3. w # 0
        BY <3>1, UidsAreNaturals DEF On, Uids
      <4> QED
        BY <3>1, <4>2, <4>3, StoredUid, NoneAssumption
    <3>2. CASE w \notin On(g)
      BY <2>1, <3>2, StoredUid
    <3> QED
      BY <3>1, <3>2
  <2>4. CASE f # g
    <3>1. StoredUids(f)' = StoredUids(f)
      BY <2>3, <2>4
    <3>2. Left(f, u) /\ Marks(f)' = Marks(f)
      BY <1>1, <1>2, <2>1, <2>4, <3>1 DEF Left, Marks, Coming
    <3> QED
      BY <2>1, <2>2, <2>4, <3>2, StaysPassed
  <2>5. CASE f = g
    <3>1. u # w
      BY <1>1, <1>2, <2>3, <2>5
    <3>2. Left(f, u)
      <4>1. u \notin StoredUids(f)
        BY <1>2, <2>3
      <4>2. u \notin Coming(f)
        <5>1. u \in sync.todo => u \in Coming(f)'
          BY <1>0, <1>1, <2>1, <2>5, <3>1 DEF Coming, server, On
        <5> QED
          BY <1>2, <2>1, <5>1 DEF Coming
      <4> QED
        BY <1>1, <4>1, <4>2 DEF Left
    <3>3. Marks(f)' \subseteq Marks(f)
      <4>1. Marks(f) = StoredUids(f) \union sync.todo \union {sync.max}
        BY <2>1, <2>5 DEF Marks
      <4>2. Marks(f)' = StoredUids(f)' \union sync'.todo \union {sync'.max}
        BY <2>1, <2>5 DEF Marks
      <4> QED
        BY <2>0, <2>1, <2>3, <4>1, <4>2
    <3> QED
      BY <2>1, <2>2, <2>5, <3>1, <3>2, <3>3, StaysPassed
  <2> QED
    BY <2>4, <2>5
<1>6. CASE FlagsAnswer \/ Finish
  <2>1. /\ sync.at = "download" /\ sync.todo = {} /\ UNCHANGED <<rows, skipped>>
        /\ \/ sync'.at = "compare" /\ sync'.folder = sync.folder /\ sync'.max = sync.max /\ sync'.todo = {}
           \/ sync'.at = "idle"
    <3>1. CASE FlagsAnswer
      BY <3>1 DEF FlagsAnswer, store, Base, TypeOK, SyncOK
    <3>2. CASE Finish
      BY <3>2 DEF Finish, Synced, NoSync
    <3> QED
      BY <1>6, <3>1, <3>2
  <2>2. Current(f)
    <3>1. known'[f] = known[f] \/ (sync.at # "idle" /\ sync.folder = f)
      BY <1>6, KnownMoves DEF Next, SyncStep
    <3> QED
      BY <1>0, <2>1, <3>1 DEF Current, server
  <2>3. StoredUids(f)' = StoredUids(f)
    BY <2>1 DEF StoredUids, Stored
  <2>4. Left(f, u) /\ Marks(f)' \subseteq Marks(f)
    BY <1>1, <1>2, <2>1, <2>3 DEF Left, Marks, Coming
  <2> QED
    BY <2>1, <2>2, <2>4, StaysPassed
<1>7. CASE Compare
  <2>1. /\ sync.at = "compare" /\ sync.todo = {} /\ sync'.at = "idle" /\ skipped' = skipped
        /\ \A v \in On(sync.folder) : v <= sync.max => v \in sync.old
        /\ \A i \in Rows : \/ rows'[i] = rows[i]
                           \/ rows'[i] = None /\ rows[i].folder = sync.folder /\ rows[i].uid \in 1..sync.max /\ rows[i].uid \notin sync.old
                           \/ /\ i \in Stored(sync.folder)
                              /\ rows'[i] = [rows[i] EXCEPT !.seen = rows[i].uid \in sync.current]
    BY <1>7 DEF Compare, Synced, NoSync, SyncFits, Stored
  <2>2. Current(f)
    <3>1. known'[f] = known[f] \/ (sync.at # "idle" /\ sync.folder = f)
      BY <1>7, KnownMoves DEF Next, SyncStep
    <3> QED
      BY <1>0, <2>1, <3>1 DEF Current, server
  <2>3. \A i \in Rows : \/ rows'[i] = None \/ (rows[i] # None /\ rows'[i].folder = rows[i].folder /\ rows'[i].uid = rows[i].uid)
    <3> SUFFICES ASSUME NEW i \in Rows, rows'[i] # None, rows'[i] # rows[i]
                 PROVE  rows[i] # None /\ rows'[i].folder = rows[i].folder /\ rows'[i].uid = rows[i].uid
      OBVIOUS
    <3>1. i \in Stored(sync.folder) /\ rows'[i] = [rows[i] EXCEPT !.seen = rows[i].uid \in sync.current]
      BY <2>1
    <3>2. rows[i] \in Row /\ rows[i] # None
      BY <1>0, <3>1 DEF Stored
    <3> QED
      BY <3>1, <3>2 DEF Row
  <2>4. StoredUids(f)' \subseteq StoredUids(f)
    BY <2>3, StoredUid
  <2>5. u \notin StoredUids(f)
    <3> SUFFICES ASSUME NEW i \in Rows, rows[i] # None, rows[i].folder = f, rows[i].uid = u, u # 0 PROVE FALSE
      BY StoredUid, UidsAreNaturals DEF Uids
    <3>1. rows'[i] = None
      BY <1>2, <2>3, StoredUid
    <3>2. f = sync.folder /\ u \in 1..sync.max /\ u \notin sync.old
      <4>1. ~(i \in Stored(sync.folder) /\ rows'[i] = [rows[i] EXCEPT !.seen = rows[i].uid \in sync.current])
        <5> SUFFICES ASSUME i \in Stored(sync.folder), rows'[i] = [rows[i] EXCEPT !.seen = rows[i].uid \in sync.current] PROVE FALSE
          OBVIOUS
        <5>1. rows[i] \in Row
          BY <1>0 DEF Stored
        <5>2. rows'[i] \in Row
          BY <5>1, FlagsTakenOver
        <5> QED
          BY <3>1, <5>2, NoneAssumption
      <4> QED
        BY <2>1, <3>1, <4>1
    <3> QED
      BY <1>1, <2>1, <3>2
  <2>6. Left(f, u) /\ Marks(f)' \subseteq Marks(f)
    BY <1>1, <2>1, <2>4, <2>5 DEF Left, Marks, Coming
  <2> QED
    BY <2>1, <2>2, <2>6, StaysPassed
<1>8. CASE SyncFails
  <2>1. UNCHANGED store /\ sync'.at = "idle" /\ skipped' = skipped \union NotComing
    BY <1>8 DEF SyncFails, NoSync
  <2>2. Current(f) /\ u \notin StoredUids(f)
    BY <1>0, <1>2, <2>1 DEF Current, server, store, StoredUids, Stored
  <2> QED
    BY <1>1, <2>1, <2>2, BreaksOff DEF store
<1> QED
  BY <1>3, <1>4, <1>5, <1>6, <1>7, <1>8 DEF SyncStep

\* What a call does to the rows, but for one that stores what a search found.
LEMMA CallKeepsRows ==
  ASSUME Base, NEW c \in Calls, CallStep(c), ~HeadersStored(c), NEW i \in Rows, rows'[i] # None
  PROVE  /\ rows[i] # None
         /\ rows'[i].uid = 0 \/ (rows'[i].folder = rows[i].folder /\ rows'[i].uid = rows[i].uid)
<1>0. rows \in [Rows -> Row \union {None}]
  BY DEF Base, TypeOK, StoreOK
<1>1. CASE rows'[i] = rows[i]
  BY <1>1
<1>2. ASSUME NEW j \in Rows, SetSeen(c, j) PROVE rows[i] # None /\ rows'[i].folder = rows[i].folder /\ rows'[i].uid = rows[i].uid
  <2>1. rows[j] \in Row /\ rows[j] # None /\ rows' = [rows EXCEPT ![j] = [rows[j] EXCEPT !.seen = ~@]]
    BY <1>0, <1>2 DEF SetSeen, Exists
  <2>2. rows'[j].uid = rows[j].uid /\ rows'[j].folder = rows[j].folder
    BY <1>0, <2>1 DEF Row
  <2> QED
    BY <1>0, <2>1, <2>2
<1>3. ASSUME NEW j \in Rows, NEW g \in Folders, Move(c, j, g)
      PROVE  rows[i] # None /\ (rows'[i] = rows[i] \/ rows'[i].uid = 0)
  <2>1. rows[j] \in Row /\ rows[j] # None /\ rows' = [rows EXCEPT ![j] = [rows[j] EXCEPT !.folder = g, !.uid = 0]]
    BY <1>0, <1>3 DEF Move, Exists
  <2>2. rows'[j].uid = 0
    BY <1>0, <2>1 DEF Row
  <2> QED
    BY <1>0, <2>1, <2>2
<1>4. CASE DestroyDrops(c) \/ EmptyClears(c)
  BY <1>0, <1>4 DEF DestroyDrops, EmptyClears
<1>5. \/ UNCHANGED rows \/ (\E j \in Rows : SetSeen(c, j) \/ \E g \in Folders : Move(c, j, g)) \/ DestroyDrops(c) \/ EmptyClears(c)
  BY DEF CallStep, DeleteForever, FlagCarried, MoveCarried, CopyCarried, MarkCarried, UidExpungeCarried, ExpungeCarried, Expunges, Retries,
              LookupAnswer, Answered, GoesOn, EmptyTrash, NothingToEmpty,
         CallFails, SearchAnswer, store
<1> QED
  BY <1>1, <1>2, <1>3, <1>4, <1>5

\* A uid whose row goes: its mail is about to leave too, or it was left out for good.
LEMMA RowGoes ==
  ASSUME Base, NEW c \in Calls, CallStep(c), ~HeadersStored(c), NEW f \in Folders, NEW u \in On(f),
         u \in StoredUids(f), u \notin StoredUids(f)'
  PROVE  <<f, u>> \in skipped' \/ u \in Leaving(f)'
<1>0. rows \in [Rows -> Row \union {None}] /\ call \in [Calls -> CallRecord] /\ u # 0
  BY UidsAreNaturals DEF Base, TypeOK, StoreOK, CallOK, CallRecord, On, Uids
<1>1. PICK i \in Rows : rows[i] # None /\ rows[i].folder = f /\ rows[i].uid = u
  BY StoredUid
<1>2. ~(rows'[i] # None /\ rows'[i].folder = f /\ rows'[i].uid = u)
  BY <1>0, StoredUid
<1>3. rows[i] \in Row /\ rows'[i] # rows[i]
  BY <1>0, <1>1, <1>2
<1>4. ASSUME NEW gone \in SUBSET Rows, i \in gone PROVE <<f, u>> \in Orphaned(gone)
  BY <1>1, <1>4 DEF Orphaned, Exists
<1>5. ASSUME NEW j \in Rows, SetSeen(c, j) PROVE FALSE
  <2>1. rows[j] \in Row /\ rows' = [rows EXCEPT ![j] = [rows[j] EXCEPT !.seen = ~@]]
    BY <1>0, <1>5 DEF SetSeen, Exists
  <2>2. i = j
    BY <1>0, <1>3, <2>1
  <2>3. rows'[i].uid = u /\ rows'[i].folder = f
    BY <1>0, <1>1, <1>3, <2>1, <2>2 DEF Row
  <2>4. rows'[i] # None
    <3>1. (~rows[i].seen) \in BOOLEAN
      BY <1>3, Zenon
    <3>2. [rows[i] EXCEPT !.seen = ~rows[i].seen] \in Row
      BY <1>3, <3>1 DEF Row
    <3> QED
      BY <1>0, <2>1, <2>2, <3>2, NoneAssumption
  <2> QED
    BY <1>2, <2>3, <2>4
<1>6. ASSUME NEW j \in Rows, NEW g \in Folders, Move(c, j, g) PROVE u \in Leaving(f)'
  <2>1. i = j
    BY <1>0, <1>3, <1>6 DEF Move
  <2>2. call'[c] = [About(i, "move") EXCEPT !.to = g]
    BY <1>0, <1>1, <1>6, <2>1 DEF Move, Begins
  <2>3. call'[c].at = "move" /\ call'[c].folder = rows[i].folder /\ call'[c].uids = {rows[i].uid} \ {0}
    BY <2>2 DEF About, NoCall
  <2> QED
    BY <1>0, <1>1, <2>3, LeavingUid DEF Away
<1>7. CASE DestroyDrops(c)
  <2>1. i = call[c].row /\ {call[c].row} \in SUBSET Rows /\ skipped' = skipped \union Orphaned({call[c].row})
    BY <1>0, <1>3, <1>7 DEF DestroyDrops
  <2> QED
    BY <1>4, <2>1
<1>8. CASE EmptyClears(c)
  <2>1. i \in Stored(Trash) /\ Stored(Trash) \in SUBSET Rows /\ skipped' = skipped \union Orphaned(Stored(Trash))
    BY <1>0, <1>3, <1>8 DEF EmptyClears, Stored
  <2> QED
    BY <1>4, <2>1
<1>9. ~UNCHANGED rows
  BY <1>3
<1>10. (\E j \in Rows : SetSeen(c, j) \/ \E g \in Folders : Move(c, j, g)) \/ DestroyDrops(c) \/ EmptyClears(c)
  BY <1>9 DEF CallStep, DeleteForever, FlagCarried, MoveCarried, CopyCarried, MarkCarried, UidExpungeCarried, ExpungeCarried, Expunges, Retries,
              LookupAnswer, Answered, GoesOn, EmptyTrash, NothingToEmpty,
         CallFails, SearchAnswer, store
<1> QED
  BY <1>5, <1>6, <1>7, <1>8, <1>10

\* A uid that a call was moving away and no longer is: it is gone, or was left out for good.
LEMMA MoveIsOver ==
  ASSUME Base, NEW c \in Calls, CallStep(c), NEW f \in Folders, NEW u \in On(f), u \in Leaving(f), u \notin Leaving(f)'
  PROVE  <<f, u>> \in skipped' \/ box'[f][u] = None
<1>0. call \in [Calls -> CallRecord] /\ box \in Boxes /\ \A d \in Calls : IsCallFit(call[d])
  BY DEF Base, TypeOK, CallOK, CallRecord, ServerOK, Boxes, CallsFit
<1>1. PICK d \in Calls : call[d].at \in Away /\ call[d].folder = f /\ u \in call[d].uids
  BY LeavingUid
<1>2. d = c
  <2>1. call' = [call EXCEPT ![c] = call'[c]]
    BY <1>0 DEF CallStep, SetSeen, DeleteForever, Move, FlagCarried, MoveCarried, CopyCarried, MarkCarried, UidExpungeCarried, ExpungeCarried, Expunges, Retries,
              LookupAnswer, Answered, GoesOn, DestroyDrops,
                EmptyTrash, NothingToEmpty, EmptyClears, HeadersStored, CallFails, SearchAnswer, Begins, Ends
  <2>2. call'[d] # call[d]
    BY <1>1, LeavingUid
  <2> QED
    BY <1>0, <2>1, <2>2
<1>a. call[c].at \in Away /\ call[c].folder = f /\ call[c].uids = {u} /\ Targets(c) = {u}
  <2>1. PICK v \in Uids : call[c].uids = {v}
    BY <1>0, <1>1, <1>2 DEF IsCallFit, Away
  <2> QED
    BY <1>1, <1>2, <2>1 DEF Targets, Away
<1>b. ASSUME call'[c].at \in Away, call'[c].folder = f, call'[c].uids = call[c].uids PROVE FALSE
  BY <1>a, <1>b, LeavingUid
<1>3. \/ MoveCarried(c) \/ CopyCarried(c) \/ MarkCarried(c) \/ (\E gone : Expunges(c, gone)) \/ Retries(c) \/ CallFails(c)
  BY <1>a DEF CallStep, SetSeen, DeleteForever, Move, FlagCarried, UidExpungeCarried, ExpungeCarried, LookupAnswer, DestroyDrops,
              EmptyTrash, NothingToEmpty, EmptyClears, HeadersStored, SearchAnswer, Begins, Is, Away
<1>4. CASE CallFails(c)
  BY <1>a, <1>4 DEF CallFails, NotMoved, MovesAway, Away, Each
<1>5. CASE MoveCarried(c)
  <2>2. Append([box EXCEPT ![f][u] = None], call[c].to, box[f][u])
    BY <1>5, <1>a DEF MoveCarried
  <2>3. u < next[f]
    BY DEF Base, TypeOK, ServerOK
  <2>4. next[f] # u
    BY <2>3, UidsAreNaturals DEF Base, TypeOK, ServerOK
  <2>5. box'[f][u] = None
    BY <1>0, <2>2, <2>4 DEF Append, Boxes, On
  <2> QED
    BY <2>5
<1>6. CASE CopyCarried(c)
  BY <1>0, <1>6, <1>a, <1>b DEF CopyCarried, GoesOn, CallRecord, Away
<1>7. CASE MarkCarried(c)
  <2>1. call[c].at = "mark"
    BY <1>7, <1>a DEF MarkCarried, After, Away
  <2> QED
    BY <1>0, <1>7, <1>a, <1>b, <2>1 DEF MarkCarried, After, GoesOn, CallRecord, Away
<1>8. CASE Retries(c)
  <2>1. call[c].at \in DOMAIN First /\ call'[c].at = First[call[c].at] /\ call'[c].folder = f /\ call'[c].uids = call[c].uids
    BY <1>0, <1>8, <1>a DEF Retries, Midway, CallRecord
  <2> QED
    BY <1>a, <1>b, <2>1 DEF First, Away
<1>9. ASSUME NEW gone, Expunges(c, gone) PROVE <<f, u>> \in skipped' \/ box'[f][u] = None
  <2>1. Is(c, "clean")
    BY <1>9, <1>a DEF Expunges, Is, Away
  <2>2. skipped' = skipped \union Each(f, Targets(c) \ gone)
    BY <1>9, <1>a, <2>1 DEF Expunges, Is
  <2>3. CASE u \in gone
    BY <1>0, <1>9, <1>a, <2>3 DEF Expunges, Boxes, On
  <2>4. CASE u \notin gone
    BY <1>a, <2>2, <2>4 DEF Each
  <2> QED
    BY <2>3, <2>4
<1> QED
  BY <1>3, <1>4, <1>5, <1>6, <1>7, <1>8, <1>9

LEMMA FreshCall ==
  ASSUME Base, Names, SyncFits, Fresh, NEW c \in Calls, CallStep(c), NEW f \in Folders, Current(f)',
         NEW u \in Uids, Left(f, u)'
  PROVE  Passed(f, u)'
<1>0. UNCHANGED <<sync, known, validity>>
  BY DEF CallStep, SetSeen, DeleteForever, Move, FlagCarried, MoveCarried, CopyCarried, MarkCarried, UidExpungeCarried, ExpungeCarried, Expunges, Retries,
              LookupAnswer, Answered, GoesOn, DestroyDrops,
         EmptyTrash, NothingToEmpty, EmptyClears, HeadersStored, CallFails, SearchAnswer, store, server, Append
<1>1. Current(f) /\ CellsMove(f)
  <2>1. ~Renumbers(f)
    BY <1>0, BoundsAssumption DEF Renumbers, Base, TypeOK, ServerOK
  <2> QED
    BY <1>0, <2>1, BoxMoves DEF Current, Next
<1>2. u \in Nat /\ next[f] \in Nat
  BY UidsAreNaturals DEF Base, TypeOK, ServerOK
<1>3. CASE HeadersStored(c)
  <2> DEFINE g == call[c].folder
  <2>0. g \in Folders /\ ServerOK /\ StoreOK
    BY DEF Base, TypeOK, CallOK
  <2>1. PICK w \in Uids : call[c].uids = {w}
    BY <1>3 DEF HeadersStored, Is, Base, CallsFit, IsCallFit
  <2>2. (CHOOSE v \in call[c].uids : TRUE) = w
    BY <2>1
  <2>3. /\ rows' \in (IF w \in On(g) THEN Inserted(g, w) ELSE {rows}) /\ UNCHANGED <<server, known, sync>>
        /\ skipped' = IF w \in On(g) THEN (skipped \union (Behind(g, w) \ Each(g, Coming(g)))) \ {<<g, w>>} ELSE skipped
    BY <1>3, <2>2 DEF HeadersStored
  <2>4. \A h, v : v \in StoredUids(h)' <=> v \in StoredUids(h) \/ (h = g /\ v = w /\ w \in On(g))
    <3>1. CASE w \in On(g)
      <4>1. rows' \in Inserted(g, w) /\ known' = known
        BY <2>3, <3>1
      <4>2. /\ \A i \in Rows : \/ rows'[i] = rows[i]
                               \/ /\ rows'[i] \in Row /\ rows'[i].folder = g /\ rows'[i].uid = w
                                  /\ rows[i] # None => rows[i].uid = 0 /\ rows[i].folder = g
            /\ \E i \in Rows : rows'[i] \in Row /\ rows'[i].folder = g /\ rows'[i].uid = w
        BY <2>0, <3>1, <4>1, InsertedIsStored
      <4>3. w # 0
        BY UidsAreNaturals DEF Uids
      <4> QED
        BY <3>1, <4>2, <4>3, StoredUid, NoneAssumption
    <3>2. CASE w \notin On(g)
      BY <2>3, <3>2, StoredUid
    <3> QED
      BY <3>1, <3>2
  <2>5. u \in On(f) /\ u \notin StoredUids(f) /\ u \notin Coming(f)
    BY <2>3, <2>4 DEF Left, On, Coming, server
  <2>6. u \notin Leaving(f)
    <3> SUFFICES ASSUME u \in Leaving(f) PROVE FALSE
      OBVIOUS
    <3>2. PICK d \in Calls : call[d].at \in Away /\ call[d].folder = f /\ u \in call[d].uids
      BY LeavingUid
    <3>3. call'[d] = call[d]
      BY <1>3, <3>2 DEF HeadersStored, Is, Ends, Away, Base, TypeOK, CallOK
    <3> QED
      BY <3>2, <3>3, LeavingUid DEF Left
  <2>7. Left(f, u)
    BY <2>5, <2>6 DEF Left
  <2>8. CASE f = g /\ w \in On(g)
    <3>1. u # w /\ w \in Nat
      BY <2>4, <2>8, UidsAreNaturals DEF Left
    <3>2. CASE u < w
      <4>1. <<f, u>> \in Behind(g, w) /\ <<f, u>> \notin Each(g, Coming(g)) /\ <<f, u>> # <<g, w>>
        BY <2>5, <2>8, <3>1, <3>2 DEF Behind, Each
      <4> QED
        BY <2>3, <2>8, <4>1 DEF Passed
    <3>3. CASE ~(u < w)
      <4>1. <<f, u>> \in skipped \/ \A v \in Marks(f) : v < u
        BY <1>1, <2>7 DEF Fresh, Passed
      <4>2. w < u
        BY <1>2, <3>1, <3>3
      <4>3. \A v \in Marks(f)' : v \in Marks(f) \/ v = w
        BY <1>0, <2>4 DEF Marks
      <4>4. <<f, u>> \in skipped => <<f, u>> \in skipped'
        BY <2>3, <2>8, <3>1
      <4> QED
        BY <4>1, <4>2, <4>3, <4>4 DEF Passed
    <3> QED
      BY <3>2, <3>3
  <2>9. CASE ~(f = g /\ w \in On(g))
    <3>1. StoredUids(f)' = StoredUids(f)
      <4>1. \A v : v \in StoredUids(f)' <=> v \in StoredUids(f)
        BY <2>4, <2>9
      <4> HIDE DEF g
      <4> QED
        BY <4>1
    <3>2. Marks(f)' = Marks(f)
      BY <1>0, <3>1 DEF Marks
    <3>3. <<f, u>> \in skipped => <<f, u>> \in skipped'
      BY <2>3, <2>9
    <3> QED
      BY <1>1, <2>7, <3>2, <3>3, StaysPassed
  <2> QED
    BY <2>8, <2>9
<1>4. CASE ~HeadersStored(c)
  <2>1. StoredUids(f)' \subseteq StoredUids(f) /\ Marks(f)' \subseteq Marks(f)
    <3>1. StoredUids(f)' \subseteq StoredUids(f)
      BY <1>4, CallKeepsRows, StoredUid
    <3> QED
      BY <1>0, <3>1 DEF Marks
  <2>2. skipped \subseteq skipped'
    BY <1>4 DEF CallStep, SetSeen, DeleteForever, Move, FlagCarried, MoveCarried, CopyCarried, MarkCarried, UidExpungeCarried, ExpungeCarried, Expunges, Retries,
              LookupAnswer, Answered, GoesOn, DestroyDrops,
       EmptyTrash, NothingToEmpty, EmptyClears, CallFails, SearchAnswer
  <2>3. CASE u \notin On(f)
    <3>1. u = next[f]
      BY <1>1, <2>3 DEF CellsMove, Left, On
    <3> QED
      BY <1>1, <2>1, <3>1, MarksAreBelow DEF Passed
  <2>4. CASE u \in On(f)
    <3>1. u \notin Coming(f)
      BY <1>0, <2>4 DEF Left, Coming, On
    <3>2. CASE u \in StoredUids(f) \/ u \in Leaving(f)
      <4>1. u \notin StoredUids(f)' /\ u \notin Leaving(f)' /\ box'[f][u] # None
        BY DEF Left, On
      <4> QED
        BY <1>4, <2>4, <3>2, <4>1, RowGoes, MoveIsOver DEF Passed
    <3>3. CASE u \notin StoredUids(f) /\ u \notin Leaving(f)
      <4>1. Left(f, u)
        BY <2>4, <3>1, <3>3 DEF Left
      <4> QED
        BY <1>1, <2>1, <2>2, <4>1, StaysPassed
    <3> QED
      BY <3>2, <3>3
  <2> QED
    BY <2>3, <2>4
<1> QED
  BY <1>3, <1>4

LEMMA FreshQuit ==
  ASSUME Base, Fresh, Quit, NEW f \in Folders, Current(f)', NEW u \in Uids, Left(f, u)'
  PROVE  Passed(f, u)'
<1>1. UNCHANGED <<server, store>> /\ sync'.at = "idle"
  BY DEF Quit, NoSync
<1>2. Current(f) /\ u \in On(f) /\ u \notin StoredUids(f)
  BY <1>1 DEF Left, Current, server, store, On, StoredUids, Stored
<1> DEFINE U == UNION {NotMoved(c) : c \in Calls}
<1>3. skipped' = (skipped \union NotComing) \union U
  BY DEF Quit
<1>4. CASE u \in Leaving(f)
  <2>1. PICK c \in Calls : call[c].at \in Away /\ call[c].folder = f /\ u \in call[c].uids
    BY <1>4, LeavingUid
  <2>2. <<f, u>> \in NotMoved(c)
    BY <1>2, <2>1 DEF NotMoved, MovesAway, Away, Targets, Each
  <2>3. <<f, u>> \in U
    BY <2>2
  <2> QED
    BY <1>3, <2>3 DEF Passed
<1>5. CASE u \notin Leaving(f)
  <2> HIDE DEF U
  <2> QED
    BY <1>1, <1>2, <1>3, <1>5, BreaksOff DEF store
<1> QED
  BY <1>4, <1>5

LEMMA FreshStep == ASSUME Base, Names, SyncFits, Fresh, [Next]_vars PROVE Fresh'
<1> SUFFICES ASSUME NEW f \in Folders, Current(f)', NEW u \in Uids, Left(f, u)' PROVE Passed(f, u)'
  BY DEF Fresh
<1>1. CASE UNCHANGED vars
  <2>1. /\ Current(f) /\ Left(f, u) /\ Marks(f)' = Marks(f) /\ skipped' = skipped
    BY <1>1 DEF vars, server, store, Current, Left, Marks, On, StoredUids, Stored, Coming, Leaving, MovesAway
  <2> QED
    BY <2>1, StaysPassed
<1> QED
  BY <1>1, FreshServer, FreshSync, FreshCall, FreshQuit DEF Next

\* A mail the server has in a folder is in the store, or newer than all that is, so that the next
\* sync asks for it, or about to be stored or moved away: or it is one of those known to be left
\* out.  No order of syncs, calls, breaks and other devices hides another one.
THEOREM SyncLeavesNothingElse == Spec => []NothingElseSkipped
<1>1. Init => Base /\ Names /\ SyncFits /\ Fresh
  <2>1. Init => SyncFits
    BY DEF Init, SyncFits, NoSync
  <2>2. Init => Fresh
    <3> SUFFICES ASSUME Init, NEW f \in Folders, NEW u \in Uids PROVE Passed(f, u)
      BY DEF Fresh
    <3>1. Marks(f) = {}
      BY DEF Init, Marks, StoredUids, Stored, NoSync
    <3> QED
      BY <3>1 DEF Passed
  <2> QED
    BY <2>1, <2>2, TypesStart, NamesStart
<1>2. Base /\ Names /\ SyncFits /\ Fresh /\ [Next]_vars => (Base /\ Names /\ SyncFits /\ Fresh)'
  BY TypesStep, NamesStep, SyncFitsStep, FreshStep
<1>3. Base /\ Fresh => NothingElseSkipped
  <2> SUFFICES ASSUME Base, Fresh, NEW f \in Folders, known[f] = validity[f],
                      NEW u \in On(f) \ (StoredUids(f) \union Coming(f) \union Leaving(f)), <<f, u>> \notin skipped
               PROVE  u > TopUid(StoredUids(f))
    BY DEF NothingElseSkipped
  <2>1. u \in Uids /\ Left(f, u) /\ Current(f)
    BY DEF On, Left, Current
  <2>2. \A v \in StoredUids(f) : v < u
    BY <2>1 DEF Fresh, Passed, Marks
  <2>3. StoredUids(f) = {} \/ TopUid(StoredUids(f)) \in StoredUids(f)
    BY StoredAreUids, TopIsLargest
  <2>4. u > 0
    BY <2>1 DEF Uids
  <2>5. StoredUids(f) = {} => TopUid(StoredUids(f)) = 0
    BY DEF TopUid
  <2>6. u \in Nat /\ TopUid(StoredUids(f)) \in Nat
    BY <2>1, StoredAreUids, TopIsLargest, UidsAreNaturals
  <2> QED
    BY <2>2, <2>3, <2>4, <2>5, <2>6
<1> QED
  BY <1>1, <1>2, <1>3, PTL DEF Spec

=============================================================================
