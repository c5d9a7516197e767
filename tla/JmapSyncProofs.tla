--------------------------- MODULE JmapSyncProofs ---------------------------
(***************************************************************************)
(* Theorems about JmapSync, for any emails, mailboxes and windows: its      *)
(* types, and that what the store has unlike the server is still to be      *)
(* reported, unless a late answer or a lost flag left it behind.            *)
(***************************************************************************)
EXTENDS JmapSync, TLAPS

-----------------------------------------------------------------------------
(***************************************************************************)
(* Types.                                                                  *)
(***************************************************************************)

CallRecord == [at : CallSteps, mail : Mails \union {None}, copy : Copy \union {None}, page : SUBSET Mails]
SyncRecord == [at : Steps, keep : SUBSET Boxes, boxes : SUBSET Boxes, known : SUBSET Mails, to : Nat,
               todo : SUBSET Boxes, reset : BOOLEAN, listed : [Mails -> Copy \union {None}],
               gone : SUBSET Mails, new : SUBSET Mails]
HasMail(k) == k.at \notin {"idle", "page", "drain", "clear"} => k.mail \in Mails /\ k.copy \in Copy

\* What is new was listed, in a folder of the store; a full listing begins with nothing.
NewIsListed == sync.at = "download" => \A e \in sync.new : sync.listed[e] # None /\ sync.listed[e].box \in folders
BeginsEmpty ==
    /\ sync.at \in {"first", "list", "existing"} => sync.gone = {}
    /\ sync.at = "first" => sync.listed = NoEmails

\* All of TypeOK but anew, which nothing else depends on.
Typed == ServerOK /\ StoreOK /\ SyncOK /\ CallsOK /\ created \subseteq Boxes /\ adrift \subseteq Mails

Base == Typed /\ NewIsListed /\ BeginsEmpty

LEMMA Records ==
  /\ SyncOK <=> sync \in SyncRecord /\ sync.to \in 0..version /\ (sync.at # "idle" => state <= sync.to)
  /\ CallsOK <=> call \in [Calls -> CallRecord] /\ \A c \in Calls : HasMail(call[c])
  /\ SyncOK' <=> sync' \in SyncRecord /\ sync'.to \in 0..version' /\ (sync'.at # "idle" => state' <= sync'.to)
  /\ CallsOK' <=> call' \in [Calls -> CallRecord] /\ \A c \in Calls : HasMail(call'[c])
  BY DEF SyncOK, SyncRecord, CallsOK, CallRecord, HasMail

LEMMA NoSyncIsSync == NoSync \in SyncRecord /\ NoSync.at = "idle" /\ NoSync.to = 0 /\ NoSync.gone = {}
                      /\ NoSync.listed = NoEmails
  BY DEF NoSync, SyncRecord, NoEmails, Steps

LEMMA NoCallIsCall == NoCall \in CallRecord /\ HasMail(NoCall) /\ NoCall.at = "idle"
  BY DEF NoCall, CallRecord, CallSteps, HasMail

LEMMA CallGoesOn ==
  ASSUME CallsOK, NEW c \in Calls, NEW k \in CallRecord, HasMail(k), call' = [call EXCEPT ![c] = k]
  PROVE  CallsOK'
  BY Records

LEMMA CallMoves ==
  ASSUME CallsOK, NEW c \in Calls, NEW at \in CallSteps, Step(c, at),
         at \notin {"idle", "page", "drain", "clear"} => call[c].at \notin {"idle", "page", "drain", "clear"}
  PROVE  CallsOK'
<1> DEFINE k == [call[c] EXCEPT !.at = at]
<1>1. call[c] \in CallRecord /\ HasMail(call[c])
  BY Records
<1>2. k \in CallRecord /\ HasMail(k)
  BY <1>1 DEF CallRecord, HasMail
<1>3. call' = [call EXCEPT ![c] = k]
  BY Records DEF Step
<1> HIDE DEF k
<1> QED
  BY <1>2, <1>3, CallGoesOn

LEMMA CallBegins ==
  ASSUME CallsOK, NEW c \in Calls, NEW op, NEW at \in CallSteps, NEW e, NEW copy, Begins(c, op, at, e, copy),
         (e \in Mails /\ copy \in Copy) \/ (at = "page" /\ e = None /\ copy = None)
  PROVE  CallsOK'
<1> DEFINE k == [NoCall EXCEPT !.at = at, !.mail = e, !.copy = copy]
<1>1. k \in CallRecord /\ HasMail(k)
  BY NoCallIsCall DEF CallRecord, HasMail
<1>2. call' = [call EXCEPT ![c] = k]
  BY DEF Begins
<1> HIDE DEF k
<1> QED
  BY <1>1, <1>2, CallGoesOn

LEMMA CallEnds == ASSUME CallsOK, NEW c \in Calls, Ends(c) PROVE CallsOK'
  BY NoCallIsCall, CallGoesOn DEF Ends

LEMMA SameServer == ASSUME ServerOK, UNCHANGED server PROVE ServerOK'
  BY DEF ServerOK, server

\* The server's emails change, or only its state; the store and the sync stay.
LEMMA ServerGoesOn ==
  ASSUME Base, NEW changed \in SUBSET Mails, version' = version + 1,
         touched' = [e \in Mails |-> IF e \in changed THEN version + 1 ELSE touched[e]],
         srv' \in [Mails -> Copy \union {None}], \A e \in Mails \ changed : srv'[e] = srv[e],
         boxes' \subseteq Boxes, UNCHANGED <<row, folders, state, sync>>, created' \subseteq Boxes, CallsOK',
         adrift' \subseteq Mails
  PROVE  Base'
<1>1. version \in Nat /\ version' \in Nat \ {0} /\ touched \in [Mails -> 0..version]
  BY DEF Base, Typed, ServerOK
<1>2. touched' \in [Mails -> 0..version']
  BY <1>1
<1>3. ServerOK'
  BY <1>1, <1>2 DEF Base, Typed, ServerOK
<1>4. StoreOK'
  BY <1>1 DEF Base, Typed, StoreOK, Here
<1>5. SyncOK'
  BY <1>1, Records DEF Base, Typed
<1> QED
  BY <1>3, <1>4, <1>5 DEF Base, Typed, NewIsListed, BeginsEmpty

\* The sync goes on, the server, the folders and the calls stay.
LEMMA SyncGoesOn ==
  ASSUME Base, UNCHANGED <<server, folders, state, created, call>>, row' \in [Mails -> Copy \union {None}],
         \A e \in Mails : row'[e] # None => row'[e].box \in folders,
         sync' \in SyncRecord, sync'.to \in 0..version, sync'.at # "idle" => state <= sync'.to,
         NewIsListed', BeginsEmpty', adrift' \subseteq Mails
  PROVE  Base'
<1>1. StoreOK'
  BY DEF Base, Typed, StoreOK, Here, server
<1>2. SyncOK' /\ CallsOK'
  BY Records DEF server, Base, Typed, CallsOK
<1> QED
  BY <1>1, <1>2, SameServer DEF Base, Typed

\* A call goes on and writes the rows of the store.
LEMMA RowsGoOn ==
  ASSUME Base, UNCHANGED <<server, folders, state, sync>>, created' = created \/ created' \subseteq Boxes,
         row' \in [Mails -> Copy \union {None}], \A e \in Mails : row'[e] # None => row'[e].box \in folders,
         CallsOK', adrift' \subseteq Mails
  PROVE  Base'
<1>1. StoreOK'
  BY DEF Base, Typed, StoreOK, Here, server
<1>2. SyncOK'
  BY Records DEF server, Base, Typed
<1> QED
  BY <1>1, <1>2, SameServer DEF Base, Typed, NewIsListed, BeginsEmpty

LEMMA Seen == ASSUME NEW copy \in Copy, NEW b \in BOOLEAN
              PROVE  /\ [copy EXCEPT !.seen = b] \in Copy /\ [copy EXCEPT !.seen = b].box = copy.box
                     /\ [copy EXCEPT !.seen = ~@] \in Copy /\ [copy EXCEPT !.seen = ~@].box = copy.box
<1>1. (~copy.seen) \in BOOLEAN
  BY Zenon DEF Copy
<1> QED
  BY <1>1 DEF Copy

LEMMA PutTypes ==
  ASSUME Base, NEW e \in Mails, NEW copy \in Copy \union {None}, Put(e, copy), UNCHANGED <<row, folders, state, sync, created>>,
         CallsOK'
  PROVE  Base'
<1>1. srv' = [srv EXCEPT ![e] = copy] /\ boxes' = boxes /\ version' = version + 1
      /\ touched' = [x \in Mails |-> IF x \in {e} THEN version + 1 ELSE touched[x]] /\ adrift' = adrift \ {e}
  BY DEF Put, Touch
<1>2. srv' \in [Mails -> Copy \union {None}] /\ \A x \in Mails \ {e} : srv'[x] = srv[x]
  BY <1>1 DEF Base, Typed, ServerOK
<1>3. boxes' \subseteq Boxes /\ created' \subseteq Boxes /\ adrift' \subseteq Mails /\ {e} \in SUBSET Mails
  BY <1>1 DEF Base, Typed, ServerOK
<1> QED
  BY <1>1, <1>2, <1>3, ServerGoesOn

LEMMA ServerTypes == ASSUME Base, ServerStep PROVE Base'
<1>0. srv \in [Mails -> Copy \union {None}]
  BY DEF Base, Typed, ServerOK
<1>a. ASSUME NEW change, Elsewhen(change), NEW e \in Mails, NEW copy \in Copy \union {None}, Put(e, copy) PROVE Base'
  BY <1>a, PutTypes DEF Elsewhen, store, Base, Typed, CallsOK
<1>1. ASSUME NEW e \in Mails, NEW b \in Boxes, Arrives(e, b) PROVE Base'
  <2>1. [box |-> b, seen |-> FALSE] \in Copy
    BY DEF Copy
  <2> QED
    BY <1>1, <1>a, <2>1 DEF Arrives
<1>2. ASSUME NEW e \in Mails, NEW b \in Boxes, MovedElsewhere(e, b) PROVE Base'
  <2>1. [srv[e] EXCEPT !.box = b] \in Copy
    BY <1>0, <1>2 DEF MovedElsewhere, There, Copy
  <2> QED
    BY <1>2, <1>a, <2>1 DEF MovedElsewhere
<1>3. ASSUME NEW e \in Mails, FlaggedElsewhere(e) PROVE Base'
  <2>1. srv[e] \in Copy
    BY <1>0, <1>3 DEF FlaggedElsewhere, There
  <2>2. [srv[e] EXCEPT !.seen = ~@] \in Copy
    BY <2>1, Seen
  <2> QED
    BY <1>3, <1>a, <2>2 DEF FlaggedElsewhere
<1>4. ASSUME NEW e \in Mails, DestroyedElsewhere(e) PROVE Base'
  BY <1>4, <1>a DEF DestroyedElsewhere
<1>5. ASSUME NEW b \in Boxes, BoxElsewhere(b) PROVE Base'
  <2>1. /\ version' = version + 1 /\ srv' = srv /\ touched' = touched /\ boxes' \subseteq Boxes
        /\ UNCHANGED <<row, folders, state, sync, created, call, adrift>>
    BY <1>5 DEF BoxElsewhere, Elsewhen, store, Base, Typed, ServerOK
  <2>2. touched' = [e \in Mails |-> IF e \in {} THEN version + 1 ELSE touched[e]]
    BY <2>1 DEF Base, Typed, ServerOK
  <2>3. {} \in SUBSET Mails /\ \A e \in Mails \ {} : srv'[e] = srv[e]
    BY <2>1
  <2>4. CallsOK' /\ created' \subseteq Boxes /\ adrift' \subseteq Mails
    BY <2>1 DEF Base, Typed, CallsOK
  <2>5. srv' \in [Mails -> Copy \union {None}]
    BY <1>0, <2>1
  <2> QED
    BY <2>1, <2>2, <2>3, <2>4, <2>5, ServerGoesOn
<1> QED
  BY <1>1, <1>2, <1>3, <1>4, <1>5 DEF ServerStep

LEMMA SyncTypes == ASSUME Base, SyncStep PROVE Base'
<1>0. /\ sync \in SyncRecord /\ sync.to \in 0..version /\ (sync.at # "idle" => state <= sync.to)
      /\ version \in Nat /\ state \in 0..version /\ created \subseteq Boxes /\ boxes \subseteq Boxes /\ folders \subseteq Boxes
      /\ row \in [Mails -> Copy \union {None}] /\ srv \in [Mails -> Copy \union {None}] /\ adrift \subseteq Mails
      /\ touched \in [Mails -> 0..version]
      /\ \A e \in Mails : row[e] # None => row[e].box \in folders
  BY Records DEF Base, Typed, ServerOK, StoreOK, Here
<1>a. \A s \in SyncRecord : /\ s.keep \subseteq Boxes /\ s.boxes \subseteq Boxes /\ s.known \subseteq Mails /\ s.to \in Nat
                            /\ s.todo \subseteq Boxes /\ s.listed \in [Mails -> Copy \union {None}] /\ s.gone \subseteq Mails
                            /\ s.new \subseteq Mails
  BY DEF SyncRecord
\* The sync goes on without touching the rows.
<1>b. ASSUME UNCHANGED <<server, store, created, call>>, sync' \in SyncRecord, sync'.to \in 0..version,
             sync'.at # "idle" => state <= sync'.to, NewIsListed', BeginsEmpty', adrift' \subseteq Mails
      PROVE  Base'
  <2>1. UNCHANGED <<server, folders, state, created, call>> /\ row' = row /\ folders' = folders
    BY <1>b DEF store
  <2>2. row' \in [Mails -> Copy \union {None}] /\ \A e \in Mails : row'[e] # None => row'[e].box \in folders
    BY <1>0, <2>1
  <2> QED
    BY <1>b, <2>1, <2>2, SyncGoesOn
<1>1. CASE SyncStarts
  <2>1. sync' \in SyncRecord /\ sync'.at = "boxes" /\ sync'.to = state
    <3>1. "boxes" \in Steps /\ state \in Nat /\ created \in SUBSET Boxes
      BY <1>0 DEF Steps
    <3> QED
      BY <1>1, <3>1, NoSyncIsSync DEF SyncStarts, SyncRecord
  <2> QED
    BY <1>0, <1>1, <1>b, <2>1 DEF SyncStarts, OnlyReads, NewIsListed, BeginsEmpty
<1>2. CASE BoxesAnswer
  <2>1. sync' \in SyncRecord /\ sync'.at = "mirror" /\ sync'.to = sync.to /\ sync.at = "boxes"
    BY <1>0, <1>2 DEF BoxesAnswer, SyncRecord, Steps, At
  <2> QED
    BY <1>0, <1>2, <1>b, <2>1 DEF BoxesAnswer, OnlyReads, NewIsListed, BeginsEmpty
<1>3. CASE Mirror
  <2> DEFINE kept == sync.boxes \union (folders \intersect sync.keep)
             rows == [e \in Mails |-> IF row[e] # None /\ row[e].box \notin kept THEN None ELSE row[e]]
             known == {e \in Mails : rows[e] # None}
             at == IF state = 0 THEN "first" ELSE "changes"
  <2>1. /\ sync' = [NoSync EXCEPT !.at = at, !.to = state, !.known = known] /\ row' = rows /\ folders' = kept
        /\ UNCHANGED <<server, state, created, call, adrift>>
    BY <1>3 DEF Mirror
  <2>2. kept \subseteq Boxes /\ rows \in [Mails -> Copy \union {None}] /\ at \in {"first", "changes"}
        /\ \A e \in Mails : rows[e] # None => rows[e].box \in kept
    BY <1>0, <1>a
  <2>3. known \subseteq Mails
    OBVIOUS
  <2> HIDE DEF kept, rows, known, at
  <2>4. sync' \in SyncRecord /\ sync'.at = at /\ sync'.to = state /\ sync'.gone = {} /\ sync'.listed = NoEmails
    <3>1. NoSync \in SyncRecord /\ at \in Steps /\ state \in Nat /\ known \in SUBSET Mails
      BY <1>0, <2>2, <2>3, NoSyncIsSync DEF Steps
    <3> QED
      BY <2>1, <3>1, NoSyncIsSync DEF SyncRecord
  <2>5. StoreOK'
    BY <1>0, <2>1, <2>2 DEF StoreOK, Here, server
  <2>6. SyncOK' /\ CallsOK'
    BY <1>0, <2>1, <2>4, Records DEF server, Base, Typed, CallsOK
  <2>7. NewIsListed' /\ BeginsEmpty'
    BY <2>2, <2>4 DEF NewIsListed, BeginsEmpty, NoEmails
  <2> QED
    BY <2>1, <2>5, <2>6, <2>7, SameServer DEF Base, Typed
<1>4. ASSUME NEW upto \in state..version, ChangesAnswer(upto) PROVE Base'
  <2> DEFINE changed == {e \in Mails : touched[e] > sync.to /\ touched[e] <= upto}
             listed == [e \in Mails |-> IF e \in changed \intersect There THEN srv[e] ELSE sync.listed[e]]
             gone == sync.gone \union (changed \ There)
             at == IF upto = version THEN "apply" ELSE "changes"
  <2>1. sync' = [sync EXCEPT !.at = at, !.to = upto, !.listed = listed, !.gone = gone] /\ upto >= sync.to /\ upto <= version
        /\ sync.at = "changes"
    BY <1>4 DEF ChangesAnswer, At
  <2>2. listed \in [Mails -> Copy \union {None}] /\ gone \subseteq Mails /\ at \in {"apply", "changes"} /\ upto \in 0..version
    BY <1>0, <1>a
  <2> HIDE DEF changed, listed, gone, at
  <2>3. sync' \in SyncRecord /\ sync'.at = at /\ sync'.to = upto
    <3>1. at \in Steps /\ upto \in Nat /\ gone \in SUBSET Mails
      BY <1>0, <2>2 DEF Steps
    <3> QED
      BY <1>0, <2>1, <2>2, <3>1 DEF SyncRecord
  <2>4. NewIsListed' /\ BeginsEmpty'
    BY <2>2, <2>3 DEF NewIsListed, BeginsEmpty
  <2>5. state <= upto
    <3> HIDE <1>a
    <3> QED
      BY <1>0, <1>4
  <2>6. UNCHANGED <<server, store, created, call>> /\ adrift' \subseteq Mails
    BY <1>0, <1>4 DEF ChangesAnswer, OnlyReads
  <2>7. sync'.to \in 0..version /\ (sync'.at # "idle" => state <= sync'.to)
    BY <2>2, <2>3, <2>5
  <2> QED
    BY <1>b, <2>3, <2>4, <2>6, <2>7
<1>5. CASE CannotCalculate
  <2>1. sync' \in SyncRecord /\ sync'.at = "first" /\ sync'.to = state /\ sync'.gone = {} /\ sync'.listed = NoEmails
    <3>1. "first" \in Steps /\ state \in Nat /\ NoEmails \in [Mails -> Copy \union {None}]
      BY <1>0 DEF Steps, NoEmails
    <3> QED
      BY <1>0, <1>5, <3>1 DEF CannotCalculate, SyncRecord
  <2> QED
    BY <1>0, <1>5, <1>b, <2>1 DEF CannotCalculate, OnlyReads, NewIsListed, BeginsEmpty, NoEmails
<1>6. CASE StateAnswer
  <2>1. sync' \in SyncRecord /\ sync'.at = "list" /\ sync'.to = version /\ sync'.gone = {}
    BY <1>0, <1>6 DEF StateAnswer, SyncRecord, Steps, At, Base, BeginsEmpty
  <2>2. adrift' \subseteq Mails
    BY <1>0, <1>6 DEF StateAnswer, There
  <2> QED
    BY <1>0, <1>6, <1>b, <2>1, <2>2 DEF StateAnswer, OnlyReads, NewIsListed, BeginsEmpty
<1>7. ASSUME NEW b \in Boxes, ListAnswer(b) PROVE Base'
  <2> DEFINE listed == [e \in Mails |-> IF /\ sync.listed[e] = None /\ e \in There \ Old /\ srv[e].box = b
                                       THEN srv[e] ELSE sync.listed[e]]
  <2>1. sync' = [sync EXCEPT !.todo = sync.todo \ {b}, !.listed = listed]
    BY <1>7 DEF ListAnswer
  <2>2. listed \in [Mails -> Copy \union {None}]
    BY <1>0, <1>a
  <2> HIDE DEF listed
  <2>3. sync' \in SyncRecord /\ sync'.at = sync.at /\ sync.at = "list" /\ sync'.to = sync.to /\ sync'.gone = sync.gone
    BY <1>0, <1>7, <2>1, <2>2 DEF SyncRecord, ListAnswer, At
  <2> QED
    BY <1>0, <1>7, <1>b, <2>3 DEF ListAnswer, OnlyReads, NewIsListed, BeginsEmpty, Base
<1>8. CASE Listed
  <2>1. PICK at \in {"existing", "apply"} : sync' = [sync EXCEPT !.at = at] /\ sync.at = "list"
    BY <1>8 DEF Listed, Goes, At
  <2>2. sync' \in SyncRecord /\ sync'.at = at /\ sync'.to = sync.to /\ sync'.gone = sync.gone
    BY <1>0, <2>1 DEF SyncRecord, Steps
  <2>3. adrift' \subseteq Mails
    BY <1>0, <1>8 DEF Listed, Unasked, Here
  <2> QED
    BY <1>0, <1>8, <1>b, <2>1, <2>2, <2>3 DEF Listed, OnlyReads, NewIsListed, BeginsEmpty, Base
<1>9. CASE ExistingAnswer
  <2> DEFINE listed == [e \in Mails |-> IF e \in sync.known \intersect There THEN srv[e] ELSE sync.listed[e]]
  <2>1. sync' = [sync EXCEPT !.at = "apply", !.listed = listed, !.gone = sync.known \ There] /\ sync.at = "existing"
    BY <1>9 DEF ExistingAnswer, At
  <2>2. listed \in [Mails -> Copy \union {None}] /\ sync.known \ There \subseteq Mails
    BY <1>0, <1>a
  <2> HIDE DEF listed
  <2>3. sync' \in SyncRecord /\ sync'.at = "apply" /\ sync'.to = sync.to
    BY <1>0, <2>1, <2>2 DEF SyncRecord, Steps
  <2> QED
    BY <1>0, <1>9, <1>b, <2>1, <2>3 DEF ExistingAnswer, OnlyReads, NewIsListed, BeginsEmpty
<1>10. CASE Apply
  <2> DEFINE same == sync.known \ anew
             out == same \intersect (sync.gone \union (Current \ Placed))
             rows == [e \in Mails |-> IF e \in out THEN None
                                      ELSE IF e \in same \intersect Placed /\ row[e] # None THEN sync.listed[e]
                                      ELSE row[e]]
             new == Placed \ sync.known
             listed == [e \in Mails |-> IF e \in sync.known THEN None ELSE sync.listed[e]]
  <2>1. /\ row' = rows /\ UNCHANGED <<server, folders, state, created, call>> /\ sync.at = "apply"
        /\ sync' = [NoSync EXCEPT !.at = "download", !.to = sync.to, !.new = new, !.listed = listed]
    BY <1>10 DEF Apply, At
  <2>2. \A e \in Placed : e \in Mails /\ sync.listed[e] # None /\ sync.listed[e].box \in folders
    BY DEF Placed, Current
  <2>3. rows \in [Mails -> Copy \union {None}] /\ \A e \in Mails : rows[e] # None => rows[e].box \in folders
    BY <1>0, <1>a, <2>2
  <2>4. /\ listed \in [Mails -> Copy \union {None}] /\ new \subseteq Mails
        /\ \A e \in new : listed[e] # None /\ listed[e].box \in folders
    BY <1>0, <1>a, <2>2
  <2>5. adrift' \subseteq Mails
    <3>1. Current \subseteq Mails /\ sync.known \subseteq Mails /\ sync.gone \subseteq Mails
      BY <1>0, <1>a DEF Current
    <3> QED
      BY <1>0, <1>10, <3>1 DEF Apply
  <2> HIDE DEF out, rows, new, listed
  <2>6. sync' \in SyncRecord /\ sync'.at = "download" /\ sync'.to = sync.to /\ sync'.new = new /\ sync'.listed = listed
    BY <1>0, <2>1, <2>4, NoSyncIsSync DEF SyncRecord, Steps
  <2>7. NewIsListed' /\ BeginsEmpty'
    BY <2>1, <2>4, <2>6 DEF NewIsListed, BeginsEmpty
  <2> QED
    BY <1>0, <2>1, <2>3, <2>5, <2>6, <2>7, SyncGoesOn
<1>11. ASSUME NEW e \in Mails, Download(e) PROVE Base'
  <2>1. /\ sync.at = "download" /\ e \in sync.new /\ UNCHANGED <<server, folders, state, created, call>>
        /\ row' = [row EXCEPT ![e] = IF row[e] = None /\ e \in There THEN sync.listed[e] ELSE row[e]]
        /\ sync' = [sync EXCEPT !.new = sync.new \ {e}, !.listed = [sync.listed EXCEPT ![e] = None]]
    BY <1>11 DEF Download, At
  <2>2. sync.listed[e] \in Copy /\ sync.listed[e].box \in folders
    BY <1>0, <1>a, <2>1 DEF Base, NewIsListed
  <2>3. row' \in [Mails -> Copy \union {None}] /\ \A x \in Mails : row'[x] # None => row'[x].box \in folders
    BY <1>0, <2>1, <2>2
  <2>4. /\ sync' \in SyncRecord /\ sync'.at = "download" /\ sync'.to = sync.to /\ sync'.new = sync.new \ {e}
        /\ sync'.listed = [sync.listed EXCEPT ![e] = None]
    BY <1>0, <2>1 DEF SyncRecord
  <2>5. NewIsListed' /\ BeginsEmpty'
    BY <1>0, <1>a, <2>1, <2>4 DEF NewIsListed, BeginsEmpty, Base
  <2>6. adrift' \subseteq Mails
    BY <1>0, <1>11 DEF Download
  <2> QED
    BY <1>0, <2>1, <2>3, <2>4, <2>5, <2>6, SyncGoesOn
<1>12. CASE Finish
  <2>1. /\ state' = sync.to /\ sync' = NoSync /\ UNCHANGED <<server, row, folders, created, call, adrift>>
    BY <1>12 DEF Finish
  <2>2. StoreOK'
    BY <1>0, <2>1 DEF StoreOK, Here, server
  <2>3. SyncOK' /\ CallsOK'
    BY <1>0, <2>1, NoSyncIsSync, Records DEF server, Base, Typed, CallsOK, ServerOK
  <2> QED
    BY <2>1, <2>2, <2>3, NoSyncIsSync, SameServer DEF Base, Typed, NewIsListed, BeginsEmpty
<1>13. CASE SyncFails
  BY <1>0, <1>13, <1>b, NoSyncIsSync DEF SyncFails, NewIsListed, BeginsEmpty
<1> QED
  BY <1>1, <1>2, <1>3, <1>4, <1>5, <1>6, <1>7, <1>8, <1>9, <1>10, <1>11, <1>12, <1>13 DEF SyncStep

LEMMA CallTypes == ASSUME Base, NEW c \in Calls, CallStep(c) PROVE Base'
<1>0. /\ CallsOK /\ call \in [Calls -> CallRecord] /\ call[c] \in CallRecord /\ HasMail(call[c])
      /\ created \subseteq Boxes /\ boxes \subseteq Boxes /\ folders \subseteq Boxes /\ Trash \in Boxes
      /\ row \in [Mails -> Copy \union {None}] /\ srv \in [Mails -> Copy \union {None}] /\ adrift \subseteq Mails
      /\ \A e \in Mails : row[e] # None => row[e].box \in folders
  BY Records, BoxesAssumption DEF Base, Typed, ServerOK, StoreOK, Here
<1>m. call[c].at \notin {"idle", "page", "drain", "clear"} => call[c].mail \in Mails /\ call[c].copy \in Copy
  BY <1>0 DEF HasMail
\* Only the call moves.
<1>a. ASSUME UNCHANGED <<server, store, created, sync, adrift>>, CallsOK' PROVE Base'
  BY <1>0, <1>a, RowsGoOn DEF store
\* The call ends, or goes on to a step that needs no more than it has.
<1>n. ASSUME NEW at \in CallSteps, Step(c, at), at \in {"idle", "page", "drain", "clear"} \/ call[c].at \notin {"idle", "page", "drain", "clear"}
      PROVE  CallsOK'
  BY <1>0, <1>n, CallMoves
<1>e. Ends(c) => CallsOK'
  BY <1>0, CallEnds
<1>w. ASSUME NEW e \in Mails, NEW copy \in Copy \union {None}, copy # None => copy.box \in folders, Writes(e, copy),
             UNCHANGED <<server, folders, state, created, sync>>, CallsOK'
      PROVE  Base'
  <2>1. row' = [row EXCEPT ![e] = copy] /\ adrift' \subseteq Mails
    BY <1>0, <1>w DEF Writes
  <2>2. row' \in [Mails -> Copy \union {None}] /\ \A x \in Mails : row'[x] # None => row'[x].box \in folders
    BY <1>0, <1>w, <2>1
  <2> QED
    BY <1>w, <2>1, <2>2, RowsGoOn
\* The server takes a change of one email, and the call goes on.
<1>p. ASSUME NEW e \in Mails, NEW copy \in Copy \union {None}, Put(e, copy), UNCHANGED <<store, created, sync>>, CallsOK'
      PROVE  Base'
  BY <1>p, PutTypes DEF store
<1>1. CASE FlagCarried(c)
  <2> DEFINE e == call[c].mail
  <2>1. call[c].at = "flag" /\ e \in Mails /\ call[c].copy.seen \in BOOLEAN /\ CallsOK'
    BY <1>1, <1>e, <1>m DEF FlagCarried, Is, Copy
  <2>2. CASE e \in There
    <3>1. srv[e] \in Copy
      BY <1>0, <2>1, <2>2 DEF There
    <3>2. [srv[e] EXCEPT !.seen = call[c].copy.seen] \in Copy
      BY <2>1, <3>1, Seen
    <3> QED
      BY <1>1, <1>p, <2>1, <2>2, <3>2 DEF FlagCarried
  <2>3. CASE e \notin There
    BY <1>1, <1>a, <2>1, <2>3 DEF FlagCarried
  <2> QED
    BY <2>2, <2>3
<1>2. CASE FlagFails(c)
  <2>1. adrift' \subseteq Mails /\ CallsOK' /\ UNCHANGED <<server, row, folders, state, created, sync>>
    BY <1>0, <1>2, <1>e, <1>m DEF FlagFails, Is, store
  <2> QED
    BY <1>0, <2>1, RowsGoOn
<1>3. CASE EnsureCarried(c)
  <2>1. /\ version' = version + 1 /\ srv' = srv /\ touched' = touched /\ boxes' \subseteq Boxes
        /\ UNCHANGED <<row, folders, state, sync, created, adrift>>
    BY <1>0, <1>3 DEF EnsureCarried, store
  <2>2. touched' = [e \in Mails |-> IF e \in {} THEN version + 1 ELSE touched[e]]
    BY <2>1 DEF Base, Typed, ServerOK
  <2>3. {} \in SUBSET Mails /\ \A e \in Mails \ {} : srv'[e] = srv[e]
    BY <2>1
  <2>4. CallsOK' /\ created' \subseteq Boxes /\ adrift' \subseteq Mails
    BY <1>0, <1>3, <1>n, <2>1 DEF EnsureCarried, Is, CallSteps
  <2>5. srv' \in [Mails -> Copy \union {None}]
    BY <1>0, <2>1
  <2> QED
    BY <2>1, <2>2, <2>3, <2>4, <2>5, ServerGoesOn
<1>4. CASE EnsureStored(c)
  <2>1. /\ folders' = folders \union {Trash} /\ created' = created \union {Trash}
        /\ UNCHANGED <<server, row, state, sync, adrift>> /\ CallsOK'
    BY <1>4, <1>n DEF EnsureStored, Is, CallSteps
  <2>2. StoreOK'
    BY <1>0, <2>1 DEF Base, Typed, StoreOK, Here, server
  <2>3. SyncOK'
    BY <2>1, Records DEF server, Base, Typed
  <2> QED
    BY <1>0, <2>1, <2>2, <2>3, SameServer DEF Base, Typed, NewIsListed, BeginsEmpty
<1>5. CASE MoveCarried(c)
  <2> DEFINE e == call[c].mail
  <2>1. call[c].at = "move" /\ e \in Mails /\ call[c].copy.box \in Boxes
    BY <1>5, <1>m DEF MoveCarried, Is, Copy
  <2>2. CASE e \in There /\ call[c].copy.box \in boxes
    <3>1. srv[e] \in Copy /\ CallsOK'
      BY <1>0, <1>5, <1>n, <2>1, <2>2 DEF There, MoveCarried, CallSteps
    <3>2. [srv[e] EXCEPT !.box = call[c].copy.box] \in Copy
      BY <2>1, <3>1 DEF Copy
    <3> QED
      BY <1>5, <1>p, <2>1, <2>2, <3>1, <3>2 DEF MoveCarried
  <2>3. CASE ~(e \in There /\ call[c].copy.box \in boxes)
    BY <1>5, <1>a, <1>e, <2>3 DEF MoveCarried
  <2> QED
    BY <2>2, <2>3
<1>6. CASE MovePlaces(c)
  <2> DEFINE e == call[c].mail
  <2>1. call[c].at = "place" /\ e \in Mails /\ call[c].copy.box \in Boxes /\ CallsOK'
    BY <1>6, <1>e, <1>m DEF MovePlaces, Is, Copy
  <2>2. CASE e \in Here /\ call[c].copy.box \in folders
    <3>1. row[e] \in Copy
      BY <1>0, <2>1, <2>2 DEF Here
    <3>2. /\ [row[e] EXCEPT !.box = call[c].copy.box] \in Copy
          /\ [row[e] EXCEPT !.box = call[c].copy.box].box = call[c].copy.box
      BY <2>1, <3>1 DEF Copy
    <3> QED
      BY <1>6, <1>w, <2>1, <2>2, <3>2 DEF MovePlaces
  <2>3. CASE ~(e \in Here /\ call[c].copy.box \in folders)
    BY <1>6, <1>a, <2>1, <2>3 DEF MovePlaces, store
  <2> QED
    BY <2>2, <2>3
<1>7. CASE DestroyCarried(c)
  <2>1. call[c].mail \in Mails /\ CallsOK'
    BY <1>7, <1>m, <1>n DEF DestroyCarried, Is, CallSteps
  <2> QED
    BY <1>7, <1>a, <1>p, <2>1 DEF DestroyCarried
<1>8. CASE DestroyDrops(c)
  <2>1. call[c].mail \in Mails /\ CallsOK'
    BY <1>8, <1>m, <1>e DEF DestroyDrops, Is
  <2> QED
    BY <1>8, <1>w, <2>1 DEF DestroyDrops
<1>9. CASE EmptyTrash(c)
  <2>1. CallsOK'
    BY <1>0, <1>9, CallBegins DEF EmptyTrash, CallSteps
  <2> QED
    BY <1>9, <1>a, <2>1 DEF EmptyTrash
<1>10. CASE PageAnswer(c)
  <2> DEFINE page == {e \in There : srv[e].box = Trash}
             at == IF page = {} THEN "clear" ELSE "drain"
             k == [call[c] EXCEPT !.at = at, !.page = page]
  <2>1. page \in SUBSET Mails /\ at \in CallSteps /\ at \in {"clear", "drain"}
    BY DEF There, CallSteps
  <2>2. call' = [call EXCEPT ![c] = k]
    BY <1>10 DEF PageAnswer
  <2> HIDE DEF page, at
  <2>3. k \in CallRecord /\ k.at = at
    BY <1>0, <2>1 DEF CallRecord
  <2>4. HasMail(k)
    BY <2>1, <2>3 DEF HasMail
  <2> HIDE DEF k
  <2>5. CallsOK'
    BY <1>0, <2>2, <2>3, <2>4, CallGoesOn
  <2> QED
    BY <1>10, <1>a, <2>5 DEF PageAnswer
<1>11. CASE DrainCarried(c)
  <2> DEFINE page == call[c].page \intersect There
  <2>1. page \in SUBSET Mails /\ CallsOK'
    BY <1>11, <1>n DEF DrainCarried, There, CallSteps
  <2>2. /\ srv' = [e \in Mails |-> IF e \in page THEN None ELSE srv[e]] /\ version' = version + 1
        /\ touched' = [e \in Mails |-> IF e \in page THEN version + 1 ELSE touched[e]] /\ adrift' = adrift \ page
        /\ UNCHANGED <<boxes, row, folders, state, created, sync>>
    BY <1>11 DEF DrainCarried, Touch, store
  <2> HIDE DEF page
  <2>3. srv' \in [Mails -> Copy \union {None}] /\ \A e \in Mails \ page : srv'[e] = srv[e]
    BY <1>0, <2>2
  <2>4. boxes' \subseteq Boxes /\ created' \subseteq Boxes /\ adrift' \subseteq Mails
    BY <1>0, <2>2
  <2> QED
    BY <2>1, <2>2, <2>3, <2>4, ServerGoesOn
<1>12. CASE EmptyClears(c)
  <2> DEFINE rows == [e \in Mails |-> IF e \in Here /\ row[e].box = Trash THEN None ELSE row[e]]
  <2>1. rows \in [Mails -> Copy \union {None}] /\ \A e \in Mails : rows[e] # None => rows[e].box \in folders
    BY <1>0
  <2>2. row' = rows /\ UNCHANGED <<server, folders, state, created, sync>> /\ CallsOK'
    BY <1>12, <1>e DEF EmptyClears
  <2>3. adrift' \subseteq Mails
    BY <1>0, <1>12 DEF EmptyClears, Here
  <2> QED
    BY <2>1, <2>2, <2>3, RowsGoOn
<1>13. CASE PreviewAnswer(c)
  <2>1. CallsOK'
    BY <1>13, <1>n, <1>e DEF PreviewAnswer, Is, CallSteps
  <2> QED
    BY <1>13, <1>a, <2>1 DEF PreviewAnswer
<1>14. CASE PreviewStored(c)
  <2>1. call[c].mail \in Mails /\ call[c].copy \in Copy /\ CallsOK'
    BY <1>14, <1>m, <1>e DEF PreviewStored, Is
  <2>2. CASE call[c].mail \notin Here /\ call[c].copy.box \in folders
    BY <1>14, <1>w, <2>1, <2>2 DEF PreviewStored
  <2>3. CASE ~(call[c].mail \notin Here /\ call[c].copy.box \in folders)
    BY <1>14, <1>a, <2>1, <2>3 DEF PreviewStored, store
  <2> QED
    BY <2>2, <2>3
<1>15. CASE CallFails(c)
  BY <1>15, <1>a, <1>e DEF CallFails
<1>16. ASSUME NEW e \in Mails, SetSeen(c, e) PROVE Base'
  <2>1. row[e] \in Copy
    BY <1>0, <1>16 DEF SetSeen, Here
  <2> DEFINE copy == [row[e] EXCEPT !.seen = ~@]
  <2>2. copy \in Copy /\ copy.box = row[e].box
    BY <2>1, Seen
  <2>3. Begins(c, "seen", "flag", e, copy) /\ row' = [row EXCEPT ![e] = copy]
        /\ UNCHANGED <<server, folders, state, created, sync, adrift>>
    BY <1>16 DEF SetSeen
  <2> HIDE DEF copy
  <2>4. CallsOK'
    BY <1>0, <2>2, <2>3, CallBegins DEF CallSteps
  <2>5. row' \in [Mails -> Copy \union {None}] /\ \A x \in Mails : row'[x] # None => row'[x].box \in folders
    BY <1>0, <2>1, <2>2, <2>3, NoneAssumption
  <2> QED
    BY <1>0, <2>3, <2>4, <2>5, RowsGoOn
<1>17. ASSUME NEW e \in Mails, NEW b \in Boxes, Move(c, e, b) PROVE Base'
  <2>1. [row[e] EXCEPT !.box = b] \in Copy
    BY <1>0, <1>17 DEF Move, Here, Copy
  <2>2. CallsOK'
    BY <1>0, <1>17, <2>1, CallBegins DEF Move, CallSteps
  <2> QED
    BY <1>17, <1>a, <2>2 DEF Move
<1>18. ASSUME NEW e \in Mails, MoveToTrash(c, e) PROVE Base'
  <2> DEFINE at == IF Trash \in folders THEN "move" ELSE "ensure"
             copy == [row[e] EXCEPT !.box = Trash]
  <2>1. copy \in Copy /\ at \in CallSteps
    BY <1>0, <1>18 DEF MoveToTrash, Here, Copy, CallSteps
  <2>2. /\ Begins(c, "trash", at, e, copy) /\ UNCHANGED <<server, row, folders, state, sync, adrift>>
        /\ created' = created \union ({Trash} \intersect folders)
    BY <1>18 DEF MoveToTrash, store
  <2> HIDE DEF at, copy
  <2>3. CallsOK'
    BY <1>0, <2>1, <2>2, CallBegins
  <2>4. created' \subseteq Boxes /\ row' = row
    BY <2>2, BoxesAssumption DEF Base, Typed
  <2> QED
    BY <1>0, <2>2, <2>3, <2>4, RowsGoOn
<1>19. ASSUME NEW e \in Mails, DeleteForever(c, e) PROVE Base'
  <2>1. CallsOK'
    BY <1>0, <1>19, CallBegins DEF DeleteForever, Here, CallSteps
  <2> QED
    BY <1>19, <1>a, <2>1 DEF DeleteForever
<1>20. ASSUME NEW e \in Mails, SearchAnswer(c, e) PROVE Base'
  <2>1. CallsOK'
    BY <1>0, <1>20, CallBegins DEF SearchAnswer, There, CallSteps
  <2> QED
    BY <1>20, <1>a, <2>1 DEF SearchAnswer
<1> QED
  BY <1>1, <1>2, <1>3, <1>4, <1>5, <1>6, <1>7, <1>8, <1>9, <1>10, <1>11, <1>12, <1>13, <1>14, <1>15, <1>16, <1>17,
     <1>18, <1>19, <1>20 DEF CallStep

LEMMA TypesStart == Init => Base
<1> SUFFICES ASSUME Init PROVE Base
  OBVIOUS
<1>1. srv \in [Mails -> Copy \union {None}]
  BY BoxesAssumption DEF Init, Copy
<1>2. ServerOK
  BY <1>1, BoxesAssumption DEF Init, ServerOK
<1>3. StoreOK
  BY DEF Init, StoreOK, Here, NoEmails
<1>4. SyncOK
  BY NoSyncIsSync, Records DEF Init
<1>5. CallsOK
  BY NoCallIsCall, Records DEF Init
<1> QED
  BY <1>2, <1>3, <1>4, <1>5, NoSyncIsSync DEF Init, Base, Typed, NewIsListed, BeginsEmpty

LEMMA TypesStep == Base /\ [Next]_vars => Base'
<1> SUFFICES ASSUME Base, [Next]_vars PROVE Base'
  OBVIOUS
<1>0. /\ row \in [Mails -> Copy \union {None}] /\ \A e \in Mails : row[e] # None => row[e].box \in folders
      /\ created \subseteq Boxes /\ adrift \subseteq Mails /\ state \in 0..version /\ version \in Nat
  BY DEF Base, Typed, StoreOK, Here, ServerOK
<1>1. CASE NoLongerNew
  <2>1. CallsOK' /\ created' \subseteq Boxes /\ adrift' \subseteq Mails /\ UNCHANGED <<server, row, folders, state, sync, call>>
    BY <1>0, <1>1 DEF NoLongerNew, store, Base, Typed, CallsOK
  <2>2. StoreOK' /\ SyncOK'
    BY <2>1, Records DEF Base, Typed, StoreOK, Here, server
  <2> QED
    BY <2>1, <2>2, SameServer DEF Base, Typed, NewIsListed, BeginsEmpty
<1>2. CASE Quit
  <2>1. UNCHANGED <<server, row, folders, state>> /\ sync' = NoSync /\ call' = [c \in Calls |-> NoCall] /\ created' = {}
    BY <1>2 DEF Quit, store
  <2>2. StoreOK'
    BY <2>1 DEF Base, Typed, StoreOK, Here, server
  <2>3. SyncOK' /\ CallsOK'
    BY <1>0, <2>1, NoSyncIsSync, NoCallIsCall, Records DEF server
  <2>4. adrift' \subseteq Mails
    BY <1>0, <1>2 DEF Quit, Is, Base, Typed, CallsOK
  <2> QED
    BY <2>1, <2>2, <2>3, <2>4, NoSyncIsSync, SameServer DEF Base, Typed, NewIsListed, BeginsEmpty
<1>3. CASE UNCHANGED vars
  <2>1. StoreOK' /\ SyncOK' /\ ServerOK' /\ CallsOK'
    BY <1>3, Records DEF vars, Base, Typed, StoreOK, Here, ServerOK
  <2> QED
    BY <1>3, <2>1 DEF vars, Base, Typed, NewIsListed, BeginsEmpty
<1> QED
  BY <1>1, <1>2, <1>3, ServerTypes, SyncTypes, CallTypes DEF Next

LEMMA AlwaysBase == Spec => []Base
  BY TypesStart, TypesStep, PTL DEF Spec

\* The types of the mirror; an email's row is always in a folder of the store, whatever a sync
\* drops and a window makes meanwhile (sync_jmap and the calls of engine.rs).
THEOREM TypesHold == Spec => []TypeOK
<1>1. Init => anew \subseteq Mails
  BY DEF Init
<1>2. Base /\ anew \subseteq Mails /\ [Next]_vars => (anew \subseteq Mails)'
  <2> SUFFICES ASSUME Base, anew \subseteq Mails, [Next]_vars PROVE anew' \subseteq Mails
    OBVIOUS
  <2>1. ASSUME NEW c \in Calls, PreviewStored(c) PROVE anew' \subseteq Mails
    <3>1. call[c].mail \in Mails
      BY <2>1, Records DEF PreviewStored, Is, Base, Typed, HasMail
    <3> QED
      BY <2>1, <3>1 DEF PreviewStored
  <2>2. CASE Mirror
    BY <2>2 DEF Mirror
  <2>3. CASE UNCHANGED anew
    BY <2>3
  <2> QED
    BY <2>1, <2>2, <2>3 DEF Next, ServerStep, SyncStep, CallStep, vars, store, Elsewhen, OnlyReads, Arrives,
       MovedElsewhere, FlaggedElsewhere, DestroyedElsewhere, BoxElsewhere, SyncStarts, BoxesAnswer, CannotCalculate,
       StateAnswer, Listed, ExistingAnswer, Apply, Finish, SyncFails, ChangesAnswer, ListAnswer, Download, NoLongerNew,
       Quit, FlagCarried, FlagFails, EnsureCarried, EnsureStored, MoveCarried, MovePlaces, DestroyCarried, DestroyDrops,
       EmptyTrash, PageAnswer, DrainCarried, EmptyClears, PreviewAnswer, CallFails, SetSeen, MoveToTrash,
       DeleteForever, SearchAnswer, Move
<1>3. Base /\ anew \subseteq Mails => TypeOK
  BY DEF Base, Typed, TypeOK
<1> QED
  BY <1>1, <1>2, <1>3, AlwaysBase, PTL DEF Spec

-----------------------------------------------------------------------------
(***************************************************************************)
(* What the store has unlike the server is still to be reported.  An email  *)
(* that isn't adrift was touched after the stored state, or its row is fine: *)
(* as on the server, or with a flag on its way there.  While a sync runs,   *)
(* the same holds of the state it will store and of what it holds so far,   *)
(* which says something else at each of its steps.                          *)
(***************************************************************************)

\* A flag was written here, and the call that takes it to the server runs.
Flagged(e) ==
    /\ row[e] # None /\ srv[e] # None /\ row[e].box = srv[e].box
    /\ \E c \in Calls : Is(c, "flag") /\ call[c].mail = e
Fine(e) == InStep(e) \/ Flagged(e)

\* The server's emails are in its mailboxes; a mailbox the mirror would drop has none the state covers.
BoxesHold == \A e \in Mails : srv[e] # None => srv[e].box \in boxes
MirrorKnows == At("mirror") => \A e \in Mails : srv[e] # None => srv[e].box \in sync.boxes \/ touched[e] > state
\* An email that is gone doesn't come back.
GoneIsGone == At("changes") => \A e \in sync.gone : srv[e] = None /\ touched[e] # 0

Told(e) == IF e \in sync.gone THEN srv[e] = None
           ELSE IF sync.listed[e] # None THEN sync.listed[e] = srv[e] ELSE Fine(e)
Holds(e) ==
    /\ At("changes") \/ At("apply") => Told(e)
    /\ At("list") => IF sync.listed[e] # None THEN sync.listed[e] = srv[e]
                     ELSE srv[e] = None \/ e \in Old \/ srv[e].box \in sync.todo
    /\ At("existing") => IF sync.listed[e] # None THEN sync.listed[e] = srv[e] ELSE e \in sync.known \/ Fine(e)
    /\ At("download") => IF e \in sync.new THEN sync.listed[e] = srv[e] ELSE Fine(e)

Right(e) == touched[e] > state \/ Fine(e)
Sound(e) == Right(e) /\ (touched[e] > sync.to \/ Holds(e))
Reported == BoxesHold /\ MirrorKnows /\ GoneIsGone /\ \A e \in Mails \ adrift : Sound(e)

\* Nothing the sync looks at moved for this email, and its row is still fine.
LEMMA StaysSound ==
  ASSUME NEW e \in Mails, Sound(e), UNCHANGED <<sync, state>>, srv'[e] = srv[e], touched'[e] = touched[e],
         Fine(e) => Fine(e)'
  PROVE  Sound(e)'
  BY DEF Sound, Right, Holds, Told, At

LEMMA StaysFine ==
  ASSUME NEW e \in Mails, srv'[e] = srv[e], row'[e] = row[e], Fine(e),
         \A c \in Calls : call[c].at = "flag" /\ call[c].mail = e => call'[c].at = "flag" /\ call'[c].mail = e
  PROVE  Fine(e)'
  BY DEF Fine, InStep, Flagged, Is

LEMMA Counts ==
  ASSUME Base
  PROVE  /\ version \in Nat /\ state \in Nat /\ sync.to \in Nat /\ state <= version /\ sync.to <= version
         /\ Counted \in Nat /\ state <= Counted /\ sync.to <= Counted
         /\ touched \in [Mails -> Nat] /\ (sync.at # "idle" => state <= sync.to)
         /\ \A e \in Mails : touched[e] <= version /\ (srv[e] # None => touched[e] # 0)
<1>1. version \in Nat /\ state \in 0..version /\ sync.to \in 0..version /\ touched \in [Mails -> 0..version]
      /\ (sync.at # "idle" => state <= sync.to)
  BY Records DEF Base, Typed, ServerOK, StoreOK
<1>2. \A e \in Mails : touched[e] <= version /\ touched[e] \in Nat
  BY <1>1
<1>3. \A e \in Mails : srv[e] # None => touched[e] # 0
  BY DEF Base, Typed, ServerOK
<1>4. touched \in [Mails -> Nat]
  BY <1>1, <1>2
<1> QED
  BY <1>1, <1>2, <1>3, <1>4 DEF Counted

\* The server's change of an email: none, or one that every state the client holds is older than;
\* and what is gone stays so.
Moves(e) == \/ srv'[e] = srv[e] /\ touched'[e] = touched[e]
            \/ touched'[e] = version + 1 /\ (srv[e] = None /\ touched[e] # 0 => srv'[e] = None)

\* A step of the server or of a call: the sync and the stored state stay where they are.
LEMMA OutsideStep ==
  ASSUME Base, Reported, UNCHANGED <<sync, state>>, BoxesHold', \A e \in Mails : Moves(e),
         \A e \in Mails \ adrift' : \/ touched'[e] = version + 1
                                    \/ touched'[e] = touched[e] /\ touched[e] > Counted
                                    \/ /\ e \notin adrift /\ srv'[e] = srv[e] /\ touched'[e] = touched[e]
                                       /\ Fine(e) => Fine(e)'
  PROVE  Reported'
<1>1. MirrorKnows'
  BY Counts DEF MirrorKnows, Reported, Moves, At
<1>2. GoneIsGone'
  <2>1. sync.gone \subseteq Mails
    BY Records DEF Base, Typed, SyncRecord
  <2> QED
    BY <2>1, Counts DEF GoneIsGone, Reported, Moves, At
<1>3. ASSUME NEW e \in Mails \ adrift' PROVE Sound(e)'
  <2>1. CASE touched'[e] = version + 1 \/ (touched'[e] = touched[e] /\ touched[e] > Counted)
    <3>1. touched'[e] > state' /\ touched'[e] > sync'.to
      BY <2>1, Counts
    <3> QED
      BY <3>1 DEF Sound, Right
  <2>2. CASE e \notin adrift /\ srv'[e] = srv[e] /\ touched'[e] = touched[e] /\ (Fine(e) => Fine(e)')
    BY <2>2, StaysSound DEF Reported
  <2> QED
    BY <1>3, <2>1, <2>2
<1> QED
  BY <1>1, <1>2, <1>3 DEF Reported

LEMMA PutMoves ==
  ASSUME Base, BoxesHold, NEW e \in Mails, NEW copy \in Copy \union {None}, Put(e, copy), copy # None => copy.box \in boxes,
         srv[e] # None \/ touched[e] = 0
  PROVE  /\ BoxesHold' /\ \A x \in Mails : Moves(x) /\ touched'[e] = version + 1
         /\ \A x \in Mails \ {e} : srv'[x] = srv[x] /\ touched'[x] = touched[x] /\ (x \in adrift <=> x \in adrift')
<1>1. srv' = [srv EXCEPT ![e] = copy] /\ boxes' = boxes
      /\ touched' = [x \in Mails |-> IF x \in {e} THEN version + 1 ELSE touched[x]] /\ adrift' = adrift \ {e}
  BY DEF Put, Touch
<1>2. srv \in [Mails -> Copy \union {None}]
  BY DEF Base, Typed, ServerOK
<1>3. \A x \in Mails \ {e} : srv'[x] = srv[x] /\ touched'[x] = touched[x] /\ (x \in adrift <=> x \in adrift')
  BY <1>1, <1>2
<1>4. srv'[e] = copy /\ touched'[e] = version + 1
  BY <1>1, <1>2
<1>5. \A x \in Mails : Moves(x)
  BY <1>3, <1>4 DEF Moves
<1> QED
  BY <1>1, <1>3, <1>4, <1>5 DEF BoxesHold

LEMMA ServerReports == ASSUME Base, Reported, ServerStep PROVE Reported'
<1>0. srv \in [Mails -> Copy \union {None}] /\ BoxesHold /\ UNCHANGED <<row, folders, state, sync, call>>
  BY DEF Base, Typed, ServerOK, Reported, ServerStep, Arrives, MovedElsewhere, FlaggedElsewhere, DestroyedElsewhere,
         BoxElsewhere, Elsewhen, store
<1>f. \A e \in Mails : srv'[e] = srv[e] /\ Fine(e) => Fine(e)'
  BY <1>0, StaysFine
<1>a. ASSUME NEW e \in Mails, NEW copy \in Copy \union {None}, Put(e, copy), copy # None => copy.box \in boxes,
             srv[e] # None \/ touched[e] = 0
      PROVE  Reported'
  <2>1. /\ BoxesHold' /\ \A x \in Mails : Moves(x) /\ touched'[e] = version + 1
        /\ \A x \in Mails \ {e} : srv'[x] = srv[x] /\ touched'[x] = touched[x] /\ (x \in adrift <=> x \in adrift')
    BY <1>0, <1>a, PutMoves
  <2>2. \A x \in Mails \ adrift' : \/ touched'[x] = version + 1
                                   \/ /\ x \notin adrift /\ srv'[x] = srv[x] /\ touched'[x] = touched[x]
                                      /\ Fine(x) => Fine(x)'
    BY <1>f, <2>1
  <2> QED
    BY <1>0, <2>1, <2>2, OutsideStep
<1>1. ASSUME NEW e \in Mails, NEW b \in Boxes, Arrives(e, b) PROVE Reported'
  <2>1. [box |-> b, seen |-> FALSE] \in Copy /\ [box |-> b, seen |-> FALSE].box = b
    BY DEF Copy
  <2> QED
    BY <1>1, <1>a, <2>1 DEF Arrives
<1>2. ASSUME NEW e \in Mails, NEW b \in Boxes, MovedElsewhere(e, b) PROVE Reported'
  <2>1. [srv[e] EXCEPT !.box = b] \in Copy /\ [srv[e] EXCEPT !.box = b].box = b /\ srv[e] # None /\ b \in boxes
    BY <1>0, <1>2 DEF MovedElsewhere, There, Copy
  <2> QED
    BY <1>2, <1>a, <2>1 DEF MovedElsewhere
<1>3. ASSUME NEW e \in Mails, FlaggedElsewhere(e) PROVE Reported'
  <2>1. srv[e] \in Copy /\ srv[e] # None /\ srv[e].box \in boxes
    BY <1>0, <1>3 DEF FlaggedElsewhere, There, BoxesHold
  <2>2. [srv[e] EXCEPT !.seen = ~@] \in Copy /\ [srv[e] EXCEPT !.seen = ~@].box = srv[e].box
    BY <2>1, Seen
  <2> QED
    BY <1>3, <1>a, <2>1, <2>2 DEF FlaggedElsewhere
<1>4. ASSUME NEW e \in Mails, DestroyedElsewhere(e) PROVE Reported'
  BY <1>4, <1>a DEF DestroyedElsewhere, There
<1>5. ASSUME NEW b \in Boxes, BoxElsewhere(b) PROVE Reported'
  <2>1. /\ srv' = srv /\ touched' = touched /\ adrift' = adrift /\ \A e \in Mails : srv[e] # None => srv[e].box # b
        /\ boxes' = IF b \in boxes THEN boxes \ {b} ELSE boxes \union {b}
    BY <1>5 DEF BoxElsewhere, There
  <2>2. BoxesHold' /\ \A e \in Mails : Moves(e)
    BY <1>0, <2>1 DEF BoxesHold, Moves
  <2> QED
    BY <1>0, <1>f, <2>1, <2>2, OutsideStep
<1> QED
  BY <1>1, <1>2, <1>3, <1>4, <1>5 DEF ServerStep

LEMMA CallReports == ASSUME Base, Reported, NEW c \in Calls, CallStep(c) PROVE Reported'
<1>0. /\ call \in [Calls -> CallRecord] /\ call[c] \in CallRecord /\ HasMail(call[c]) /\ BoxesHold /\ Trash \in Boxes
      /\ row \in [Mails -> Copy \union {None}] /\ srv \in [Mails -> Copy \union {None}]
      /\ touched \in [Mails -> Nat]
  BY Records, BoxesAssumption, Counts DEF Base, Typed, ServerOK, StoreOK, Reported
<1>m. call[c].at \notin {"idle", "page", "drain", "clear"} => call[c].mail \in Mails /\ call[c].copy \in Copy
  BY <1>0 DEF HasMail
\* Which calls carry a flag, where the step is no flag's.
<1>f. ASSUME NEW k, call' = [call EXCEPT ![c] = k], call[c].at # "flag",
             NEW e \in Mails, srv'[e] = srv[e], row'[e] = row[e], Fine(e)
      PROVE  Fine(e)'
  <2>1. \A d \in Calls : call[d].at = "flag" /\ call[d].mail = e => call'[d].at = "flag" /\ call'[d].mail = e
    BY <1>0, <1>f
  <2> QED
    BY <1>f, <2>1, StaysFine
\* The calls that only go on.
<1>a. ASSUME NEW k, call' = [call EXCEPT ![c] = k], call[c].at # "flag", boxes \subseteq boxes',
             UNCHANGED <<srv, touched, row, state, sync, adrift>>
      PROVE  Reported'
  <2>1. BoxesHold' /\ \A e \in Mails : Moves(e)
    BY <1>0, <1>a DEF BoxesHold, Moves
  <2>2. \A e \in Mails \ adrift' : e \notin adrift /\ srv'[e] = srv[e] /\ touched'[e] = touched[e] /\ (Fine(e) => Fine(e)')
    BY <1>a, <1>f
  <2> QED
    BY <1>a, <2>1, <2>2, OutsideStep
\* The calls that change one email on the server.
<1>p. ASSUME NEW k, call' = [call EXCEPT ![c] = k], call[c].at # "flag", UNCHANGED <<row, state, sync>>,
             NEW e \in Mails, NEW copy \in Copy \union {None}, Put(e, copy), copy # None => copy.box \in boxes, srv[e] # None
      PROVE  Reported'
  <2>1. /\ BoxesHold' /\ \A x \in Mails : Moves(x) /\ touched'[e] = version + 1
        /\ \A x \in Mails \ {e} : srv'[x] = srv[x] /\ touched'[x] = touched[x] /\ (x \in adrift <=> x \in adrift')
    BY <1>0, <1>p, PutMoves
  <2>2. \A x \in Mails \ adrift' : \/ touched'[x] = version + 1
                                   \/ /\ x \notin adrift /\ srv'[x] = srv[x] /\ touched'[x] = touched[x]
                                      /\ Fine(x) => Fine(x)'
    BY <1>f, <1>p, <2>1
  <2> QED
    BY <1>p, <2>1, <2>2, OutsideStep
\* The calls that write rows: what they leave behind is adrift.
<1>w. ASSUME NEW k, call' = [call EXCEPT ![c] = k], call[c].at # "flag", UNCHANGED <<server, state, sync>>,
             NEW some \in SUBSET Mails, \A e \in Mails \ some : row'[e] = row[e],
             adrift' = adrift \union (LeftBehind(row') \intersect some)
      PROVE  Reported'
  <2>0. UNCHANGED <<srv, boxes, version, touched>>
    BY <1>w DEF server
  <2>1. BoxesHold' /\ \A e \in Mails : Moves(e)
    BY <1>0, <2>0 DEF BoxesHold, Moves
  <2>2. ASSUME NEW e \in Mails \ adrift'
        PROVE  \/ touched'[e] = touched[e] /\ touched[e] > Counted
               \/ /\ e \notin adrift /\ srv'[e] = srv[e] /\ touched'[e] = touched[e]
                  /\ Fine(e) => Fine(e)'
    <3>1. CASE e \notin some
      BY <1>f, <1>w, <2>0, <2>2, <3>1
    <3>2. CASE e \in some
      <4>1. row'[e] = srv[e] \/ touched[e] > Counted
        BY <1>0, <1>w, <2>2, <3>2, Counts DEF LeftBehind
      <4>2. row'[e] = srv[e] => Fine(e)'
        BY <2>0 DEF Fine, InStep
      <4> QED
        BY <1>w, <2>0, <2>2, <4>1, <4>2
    <3> QED
      BY <3>1, <3>2
  <2> QED
    BY <1>w, <2>1, <2>2, OutsideStep
<1>v. ASSUME NEW k, call' = [call EXCEPT ![c] = k], call[c].at # "flag", UNCHANGED <<server, state, sync>>,
             NEW e \in Mails, NEW copy, Writes(e, copy)
      PROVE  Reported'
  <2>1. row' = [row EXCEPT ![e] = copy] /\ adrift' = adrift \union (LeftBehind(row') \intersect {e})
    BY <1>v DEF Writes
  <2>2. {e} \in SUBSET Mails /\ \A x \in Mails \ {e} : row'[x] = row[x]
    BY <1>0, <2>1
  <2> QED
    BY <1>v, <1>w, <2>1, <2>2
<1>1. CASE FlagCarried(c)
  <2>0. PICK e \in Mails : e = call[c].mail
    BY <1>1, <1>m DEF FlagCarried, Is
  <2>1. /\ call[c].at = "flag" /\ call[c].copy.seen \in BOOLEAN /\ call' = [call EXCEPT ![c] = NoCall]
        /\ UNCHANGED <<row, folders, state, sync>>
    BY <1>1, <1>m DEF FlagCarried, Is, Copy, Ends, store
  <2>f. ASSUME NEW x \in Mails, x # e, srv'[x] = srv[x], Fine(x) PROVE Fine(x)'
    <3>1. \A d \in Calls : call[d].at = "flag" /\ call[d].mail = x => call'[d].at = "flag" /\ call'[d].mail = x
      BY <1>0, <2>0, <2>1, <2>f
    <3> QED
      BY <2>1, <2>f, <3>1, StaysFine
  <2>2. CASE e \in There
    <3>1. srv[e] \in Copy /\ srv[e] # None /\ srv[e].box \in boxes
      BY <1>0, <2>1, <2>2 DEF There, BoxesHold
    <3> DEFINE copy == [srv[e] EXCEPT !.seen = call[c].copy.seen]
    <3>2. copy \in Copy /\ copy.box = srv[e].box
      BY <2>1, <3>1, Seen
    <3>3. Put(e, copy)
      BY <1>1, <2>0, <2>2 DEF FlagCarried
    <3> HIDE DEF copy
    <3>4. /\ BoxesHold' /\ \A x \in Mails : Moves(x) /\ touched'[e] = version + 1
          /\ \A x \in Mails \ {e} : srv'[x] = srv[x] /\ touched'[x] = touched[x] /\ (x \in adrift <=> x \in adrift')
      BY <1>0, <2>1, <3>1, <3>2, <3>3, PutMoves
    <3>5. \A x \in Mails \ adrift' : \/ touched'[x] = version + 1
                                     \/ /\ x \notin adrift /\ srv'[x] = srv[x] /\ touched'[x] = touched[x]
                                        /\ Fine(x) => Fine(x)'
      BY <2>f, <3>4
    <3> QED
      BY <2>1, <3>4, <3>5, OutsideStep
  <2>3. CASE e \notin There
    <3>1. UNCHANGED <<srv, boxes, touched, adrift>> /\ srv[e] = None
      BY <1>1, <2>0, <2>1, <2>3 DEF FlagCarried, server, There
    <3>2. Fine(e) => Fine(e)'
      BY <2>1, <3>1 DEF Fine, InStep, Flagged
    <3>3. BoxesHold' /\ \A x \in Mails : Moves(x)
      BY <1>0, <3>1 DEF BoxesHold, Moves
    <3>4. \A x \in Mails \ adrift' : x \notin adrift /\ srv'[x] = srv[x] /\ touched'[x] = touched[x] /\ (Fine(x) => Fine(x)')
      BY <2>f, <3>1, <3>2
    <3> QED
      BY <2>1, <3>3, <3>4, OutsideStep
  <2> QED
    BY <2>2, <2>3
<1>2. CASE FlagFails(c)
  <2>0. PICK e \in Mails : e = call[c].mail
    BY <1>2, <1>m DEF FlagFails, Is
  <2>1. /\ call[c].at = "flag" /\ call' = [call EXCEPT ![c] = NoCall] /\ adrift' = adrift \union {e}
        /\ UNCHANGED <<srv, boxes, touched, row, folders, state, sync>>
    BY <1>2, <2>0 DEF FlagFails, Is, Ends, store, server
  <2>2. ASSUME NEW x \in Mails, x # e, Fine(x) PROVE Fine(x)'
    <3>1. \A d \in Calls : call[d].at = "flag" /\ call[d].mail = x => call'[d].at = "flag" /\ call'[d].mail = x
      BY <1>0, <2>0, <2>1, <2>2
    <3> QED
      BY <2>1, <2>2, <3>1, StaysFine
  <2>3. BoxesHold' /\ \A x \in Mails : Moves(x)
    BY <1>0, <2>1 DEF BoxesHold, Moves
  <2>4. \A x \in Mails \ adrift' : x \notin adrift /\ srv'[x] = srv[x] /\ touched'[x] = touched[x] /\ (Fine(x) => Fine(x)')
    BY <2>1, <2>2
  <2> QED
    BY <2>1, <2>3, <2>4, OutsideStep
<1>3. CASE EnsureCarried(c)
  BY <1>3, <1>a DEF EnsureCarried, Is, Step, store
<1>4. CASE EnsureStored(c)
  BY <1>4, <1>a DEF EnsureStored, Is, Step, server
<1>5. CASE MoveCarried(c)
  <2> DEFINE e == call[c].mail
  <2>1. call[c].at = "move" /\ e \in Mails /\ call[c].copy.box \in Boxes
    BY <1>5, <1>m DEF MoveCarried, Is, Copy
  <2>2. CASE e \in There /\ call[c].copy.box \in boxes
    <3>1. srv[e] \in Copy /\ srv[e] # None
      BY <1>0, <2>1, <2>2 DEF There
    <3> DEFINE copy == [srv[e] EXCEPT !.box = call[c].copy.box]
    <3>2. copy \in Copy /\ copy.box = call[c].copy.box
      BY <2>1, <3>1 DEF Copy
    <3>3. Put(e, copy) /\ Step(c, "place") /\ UNCHANGED <<row, state, sync>>
      BY <1>5, <2>2 DEF MoveCarried, store
    <3> HIDE DEF copy, e
    <3> QED
      BY <1>p, <2>1, <2>2, <3>1, <3>2, <3>3 DEF Step
  <2>3. CASE ~(e \in There /\ call[c].copy.box \in boxes)
    BY <1>5, <1>a, <2>1, <2>3 DEF MoveCarried, Ends, server, store
  <2> QED
    BY <2>2, <2>3
<1>6. CASE MovePlaces(c)
  <2> DEFINE e == call[c].mail
  <2>1. call[c].at = "place" /\ e \in Mails /\ call' = [call EXCEPT ![c] = NoCall]
    BY <1>6, <1>m DEF MovePlaces, Is, Ends
  <2>2. CASE e \in Here /\ call[c].copy.box \in folders
    BY <1>6, <1>v, <2>1, <2>2 DEF MovePlaces
  <2>3. CASE ~(e \in Here /\ call[c].copy.box \in folders)
    BY <1>6, <1>a, <2>1, <2>3 DEF MovePlaces, server
  <2> QED
    BY <2>2, <2>3
<1>7. CASE DestroyCarried(c)
  <2>1. call[c].at = "destroy" /\ call[c].mail \in Mails /\ Step(c, "drop") /\ UNCHANGED <<row, state, sync>>
    BY <1>7, <1>m DEF DestroyCarried, Is, store
  <2>2. CASE call[c].mail \in There
    BY <1>7, <1>p, <2>1, <2>2 DEF DestroyCarried, Step, There
  <2>3. CASE call[c].mail \notin There
    BY <1>7, <1>a, <2>1, <2>3 DEF DestroyCarried, Step, server
  <2> QED
    BY <2>2, <2>3
<1>8. CASE DestroyDrops(c)
  <2>1. call[c].at = "drop" /\ call[c].mail \in Mails /\ call' = [call EXCEPT ![c] = NoCall]
    BY <1>8, <1>m DEF DestroyDrops, Is, Ends
  <2> QED
    BY <1>8, <1>v, <2>1 DEF DestroyDrops
<1>9. CASE EmptyTrash(c)
  BY <1>9, <1>a DEF EmptyTrash, Begins, Is, server, store
<1>10. CASE PageAnswer(c)
  BY <1>10, <1>a DEF PageAnswer, Is, server, store
<1>11. CASE DrainCarried(c)
  <2> DEFINE page == call[c].page \intersect There
  <2>1. /\ srv' = [e \in Mails |-> IF e \in page THEN None ELSE srv[e]] /\ adrift' = adrift \ page
        /\ touched' = [e \in Mails |-> IF e \in page THEN version + 1 ELSE touched[e]]
        /\ UNCHANGED <<boxes, row, folders, state, sync>> /\ call[c].at = "drain"
        /\ call' = [call EXCEPT ![c] = [call[c] EXCEPT !.at = "page"]]
    BY <1>11 DEF DrainCarried, Touch, store, Is, Step
  <2> HIDE DEF page
  <2>2. BoxesHold' /\ \A e \in Mails : Moves(e)
    BY <1>0, <2>1 DEF BoxesHold, Moves
  <2>3. ASSUME NEW e \in Mails \ adrift'
        PROVE  \/ touched'[e] = version + 1
               \/ /\ e \notin adrift /\ srv'[e] = srv[e] /\ touched'[e] = touched[e]
                  /\ Fine(e) => Fine(e)'
    BY <1>0, <1>f, <2>1, <2>3
  <2> QED
    BY <2>1, <2>2, <2>3, OutsideStep
<1>12. CASE EmptyClears(c)
  <2> DEFINE rows == [e \in Mails |-> IF e \in Here /\ row[e].box = Trash THEN None ELSE row[e]]
             some == {e \in Here : row[e].box = Trash}
  <2>1. /\ row' = rows /\ adrift' = adrift \union (LeftBehind(rows) \intersect some) /\ UNCHANGED <<server, state, sync>>
        /\ call[c].at = "clear" /\ call' = [call EXCEPT ![c] = NoCall]
    BY <1>12 DEF EmptyClears, Is, Ends
  <2>2. some \in SUBSET Mails /\ \A e \in Mails \ some : rows[e] = row[e]
    BY DEF Here
  <2> HIDE DEF rows, some
  <2> QED
    BY <1>w, <2>1, <2>2
<1>13. CASE PreviewAnswer(c)
  BY <1>13, <1>a DEF PreviewAnswer, Is, Step, Ends, server, store
<1>14. CASE PreviewStored(c)
  <2>1. call[c].at = "preview" /\ call[c].mail \in Mails /\ call' = [call EXCEPT ![c] = NoCall]
    BY <1>14, <1>m DEF PreviewStored, Is, Ends
  <2>2. CASE call[c].mail \notin Here /\ call[c].copy.box \in folders
    BY <1>14, <1>v, <2>1, <2>2 DEF PreviewStored
  <2>3. CASE ~(call[c].mail \notin Here /\ call[c].copy.box \in folders)
    BY <1>14, <1>a, <2>1, <2>3 DEF PreviewStored, server
  <2> QED
    BY <2>2, <2>3
<1>15. CASE CallFails(c)
  BY <1>15, <1>a DEF CallFails, Ends, server, store
<1>16. ASSUME NEW e \in Mails, SetSeen(c, e) PROVE Reported'
  <2> DEFINE copy == [row[e] EXCEPT !.seen = ~@]
             k == [NoCall EXCEPT !.at = "flag", !.mail = e, !.copy = copy]
  <2>1. row[e] \in Copy /\ row[e] # None /\ call[c].at = "idle"
    BY <1>0, <1>16 DEF SetSeen, Here, Begins, Is
  <2>2. copy \in Copy /\ copy.box = row[e].box
    BY <2>1, Seen
  <2>3. /\ call' = [call EXCEPT ![c] = k] /\ row' = [row EXCEPT ![e] = copy]
        /\ UNCHANGED <<srv, boxes, touched, state, sync, adrift>>
    BY <1>16 DEF SetSeen, Begins, server
  <2>4. k.at = "flag" /\ k.mail = e
    BY DEF NoCall
  <2> HIDE DEF copy, k
  <2>5. Fine(e) => Fine(e)'
    <3>1. Fine(e) => srv[e] # None /\ row[e].box = srv[e].box
      BY <2>1 DEF Fine, InStep, Flagged
    <3>2. row'[e] = copy /\ copy # None /\ call'[c].at = "flag" /\ call'[c].mail = e
      BY <1>0, <2>2, <2>3, <2>4, NoneAssumption
    <3>3. row'[e].box = row[e].box /\ srv'[e] = srv[e]
      BY <2>2, <2>3, <3>2
    <3>4. \E d \in Calls : call'[d].at = "flag" /\ call'[d].mail = e
      BY <3>2
    <3>5. srv[e] # None /\ row[e].box = srv[e].box => Flagged(e)'
      BY <3>2, <3>3, <3>4 DEF Flagged, Is
    <3> QED
      BY <3>1, <3>5 DEF Fine
  <2>6. \A x \in Mails \ {e} : Fine(x) => Fine(x)'
    <3>1. \A x \in Mails \ {e} : row'[x] = row[x] /\ srv'[x] = srv[x]
      BY <1>0, <2>3
    <3> QED
      BY <1>f, <2>1, <2>3, <3>1
  <2>7. BoxesHold' /\ \A x \in Mails : Moves(x)
    BY <1>0, <2>3 DEF BoxesHold, Moves
  <2>8. \A x \in Mails \ adrift' : x \notin adrift /\ srv'[x] = srv[x] /\ touched'[x] = touched[x] /\ (Fine(x) => Fine(x)')
    BY <2>3, <2>5, <2>6
  <2> QED
    BY <2>3, <2>7, <2>8, OutsideStep
<1>17. ASSUME NEW e \in Mails, NEW b \in Boxes, Move(c, e, b) PROVE Reported'
  BY <1>17, <1>a DEF Move, Begins, Is, server, store
<1>18. ASSUME NEW e \in Mails, MoveToTrash(c, e) PROVE Reported'
  BY <1>18, <1>a DEF MoveToTrash, Begins, Is, server, store
<1>19. ASSUME NEW e \in Mails, DeleteForever(c, e) PROVE Reported'
  BY <1>19, <1>a DEF DeleteForever, Begins, Is, server, store
<1>20. ASSUME NEW e \in Mails, SearchAnswer(c, e) PROVE Reported'
  BY <1>20, <1>a DEF SearchAnswer, Begins, Is, server, store
<1> QED
  BY <1>1, <1>2, <1>3, <1>4, <1>5, <1>6, <1>7, <1>8, <1>9, <1>10, <1>11, <1>12, <1>13, <1>14, <1>15, <1>16, <1>17,
     <1>18, <1>19, <1>20 DEF CallStep

\* The sync goes on, and nothing else but rows moves: whether a row is fine is a matter of the row.
LEMMA RowStaysFine ==
  ASSUME NEW e \in Mails, UNCHANGED <<server, call>>, row'[e] = row[e], Fine(e)
  PROVE  Fine(e)'
  BY StaysFine DEF server

LEMMA RowBecomesFine ==
  ASSUME NEW e \in Mails, UNCHANGED server, row'[e] = srv[e]
  PROVE  Fine(e)'
  BY DEF server, Fine, InStep

\* How a step of the sync keeps what is reported: the state stays behind what it will be, and each
\* email is newer than that, or its row is fine where the state counts it and the sync holds it.
LEMMA InsideStep ==
  ASSUME Base, Reported, UNCHANGED <<server, call, state>>, MirrorKnows', GoneIsGone',
         \A e \in Mails \ adrift' : e \notin adrift /\ Right(e)' /\ (touched[e] > sync'.to \/ Holds(e)')
  PROVE  Reported'
<1>1. UNCHANGED <<srv, boxes, touched>>
  BY DEF server
<1> QED
  BY <1>1 DEF Reported, BoxesHold, Sound

LEMMA SyncReports == ASSUME Base, Reported, SyncStep PROVE Reported'
<1>0. /\ sync \in SyncRecord /\ row \in [Mails -> Copy \union {None}] /\ srv \in [Mails -> Copy \union {None}]
      /\ \A e \in Mails : row[e] # None => row[e].box \in folders
      /\ \A e \in Mails \ adrift : Right(e) /\ (touched[e] > sync.to \/ Holds(e))
  BY Records DEF Base, Typed, ServerOK, StoreOK, Here, Reported, Sound
<1>a. \A s \in SyncRecord : s.known \subseteq Mails /\ s.to \in Nat /\ s.listed \in [Mails -> Copy \union {None}]
                            /\ s.gone \subseteq Mails /\ s.new \subseteq Mails
  BY DEF SyncRecord
<1>c. /\ version \in Nat /\ state \in Nat /\ sync.to \in Nat /\ state <= version /\ sync.to <= version
      /\ touched \in [Mails -> Nat] /\ (sync.at # "idle" => state <= sync.to)
      /\ \A e \in Mails : touched[e] <= version /\ (srv[e] # None => touched[e] # 0)
  BY Counts
\* Where the rows stay too, what is right stays right.
<1>r. ASSUME UNCHANGED <<server, call, state, row>>, NEW e \in Mails \ adrift PROVE Right(e)' /\ (Fine(e) => Fine(e)')
  <2>1. Fine(e) => Fine(e)'
    BY <1>r, RowStaysFine
  <2>2. touched' = touched /\ state' = state
    BY <1>r DEF server
  <2> QED
    BY <1>0, <1>r, <2>1, <2>2 DEF Right
<1>1. CASE SyncStarts
  <2>1. UNCHANGED <<server, call, state, row, adrift>> /\ sync'.at = "boxes"
    BY <1>1, NoSyncIsSync DEF SyncStarts, OnlyReads, store, SyncRecord
  <2>2. MirrorKnows' /\ GoneIsGone' /\ \A e \in Mails : Holds(e)'
    BY <2>1 DEF MirrorKnows, GoneIsGone, Holds, At
  <2> QED
    BY <1>r, <2>1, <2>2, InsideStep
<1>2. CASE BoxesAnswer
  <2>1. UNCHANGED <<server, call, state, row, adrift>> /\ sync'.at = "mirror" /\ sync'.boxes = boxes
    BY <1>0, <1>2 DEF BoxesAnswer, OnlyReads, store, SyncRecord
  <2>2. MirrorKnows' /\ GoneIsGone' /\ \A e \in Mails : Holds(e)'
    BY <2>1 DEF MirrorKnows, GoneIsGone, Holds, At, Reported, BoxesHold, server
  <2> QED
    BY <1>r, <2>1, <2>2, InsideStep
<1>3. CASE Mirror
  <2> DEFINE kept == sync.boxes \union (folders \intersect sync.keep)
             rows == [e \in Mails |-> IF row[e] # None /\ row[e].box \notin kept THEN None ELSE row[e]]
  <2>1. /\ UNCHANGED <<server, call, state, adrift>> /\ row' = rows /\ sync.at = "mirror"
        /\ sync'.at \in {"first", "changes"} /\ sync'.to = state /\ sync'.gone = {} /\ sync'.listed = NoEmails
    BY <1>3, NoSyncIsSync DEF Mirror, At, NoSync
  <2>2. ASSUME NEW e \in Mails \ adrift PROVE touched[e] > state \/ Fine(e)'
    <3>1. CASE touched[e] > state
      BY <3>1
    <3>2. CASE ~(touched[e] > state)
      <4>1. Fine(e) /\ (srv[e] # None => srv[e].box \in kept)
        BY <1>0, <2>1, <2>2, <3>2 DEF Right, Reported, MirrorKnows, At
      <4>2. row[e] = None \/ row[e].box \in kept
        BY <4>1 DEF Fine, InStep, Flagged
      <4>3. row'[e] = row[e]
        BY <2>1, <4>2
      <4> QED
        BY <2>1, <4>1, <4>3, RowStaysFine
    <3> QED
      BY <3>1, <3>2
  <2> HIDE DEF kept, rows
  <2>3. MirrorKnows' /\ GoneIsGone'
    BY <2>1 DEF MirrorKnows, GoneIsGone, At
  <2>4. ASSUME NEW e \in Mails \ adrift' PROVE e \notin adrift /\ Right(e)' /\ (touched[e] > sync'.to \/ Holds(e)')
    <3>1. touched' = touched /\ e \in Mails \ adrift
      BY <2>1, <2>4 DEF server
    <3>2. sync'.listed[e] = None
      BY <2>1 DEF NoEmails
    <3> QED
      BY <2>1, <2>2, <3>1, <3>2 DEF Right, Holds, Told, At
  <2> QED
    BY <2>1, <2>3, <2>4, InsideStep
<1>4. ASSUME NEW upto \in state..version, ChangesAnswer(upto) PROVE Reported'
  <2> DEFINE changed == {e \in Mails : touched[e] > sync.to /\ touched[e] <= upto}
             listed == [e \in Mails |-> IF e \in changed \intersect There THEN srv[e] ELSE sync.listed[e]]
             gone == sync.gone \union (changed \ There)
             at == IF upto = version THEN "apply" ELSE "changes"
  <2>1. /\ sync' = [sync EXCEPT !.at = at, !.to = upto, !.listed = listed, !.gone = gone] /\ upto >= sync.to
        /\ sync.at = "changes" /\ UNCHANGED <<server, call, state, row, adrift>>
    BY <1>4 DEF ChangesAnswer, At, OnlyReads, store
  <2>2. sync'.at \in {"apply", "changes"} /\ sync'.to = upto /\ sync'.listed = listed /\ sync'.gone = gone
    BY <1>0, <2>1 DEF SyncRecord
  <2>3. \A e \in sync.gone : e \in Mails /\ srv[e] = None /\ touched[e] # 0
    BY <1>0, <1>a, <2>1 DEF Reported, GoneIsGone, At
  <2>4. \A e \in changed \ There : e \in Mails /\ srv[e] = None /\ touched[e] # 0
    <3> SUFFICES ASSUME NEW e \in changed \ There PROVE e \in Mails /\ srv[e] = None /\ touched[e] # 0
      OBVIOUS
    <3>1. e \in Mails /\ srv[e] = None /\ touched[e] > sync.to
      BY DEF There
    <3> HIDE DEF changed
    <3>2. touched[e] \in Nat /\ sync.to \in Nat
      BY <1>c, <3>1
    <3> QED
      BY <3>1, <3>2
  <2>5. MirrorKnows' /\ GoneIsGone'
    BY <2>1, <2>2, <2>3, <2>4 DEF MirrorKnows, GoneIsGone, At, server
  <2>6. ASSUME NEW e \in Mails \ adrift PROVE touched[e] > upto \/ Holds(e)'
    <3>1. CASE touched[e] > upto
      BY <3>1
    <3>2. CASE e \in changed
      <4>1. IF e \in gone THEN srv[e] = None ELSE listed[e] = srv[e] /\ srv[e] # None
        BY <1>0, <2>3, <2>4, <3>2 DEF There
      <4> HIDE DEF changed, listed, gone
      <4> QED
        BY <2>1, <2>2, <4>1 DEF Holds, Told, At, server
    <3>3. CASE ~(touched[e] > sync.to)
      <4>1. e \notin changed /\ Told(e)
        BY <1>0, <2>1, <2>6, <3>3 DEF Holds, At
      <4>2. listed[e] = sync.listed[e] /\ (e \in gone <=> e \in sync.gone)
        BY <4>1
      <4>3. Fine(e) => Fine(e)'
        BY <2>1, RowStaysFine
      <4> HIDE DEF changed, listed, gone
      <4> QED
        BY <2>1, <2>2, <4>1, <4>2, <4>3 DEF Holds, Told, At, server
    <3> QED
      BY <1>c, <1>4, <2>6, <3>1, <3>2, <3>3
  <2> QED
    BY <1>r, <2>1, <2>2, <2>5, <2>6, InsideStep
<1>5. CASE CannotCalculate
  <2>1. UNCHANGED <<server, call, state, row, adrift>> /\ sync'.at = "first"
    BY <1>0, <1>5 DEF CannotCalculate, OnlyReads, store, SyncRecord
  <2>2. MirrorKnows' /\ GoneIsGone' /\ \A e \in Mails : Holds(e)'
    BY <2>1 DEF MirrorKnows, GoneIsGone, Holds, At
  <2> QED
    BY <1>r, <2>1, <2>2, InsideStep
<1>6. CASE StateAnswer
  <2>1. /\ UNCHANGED <<server, call, state, row>> /\ sync'.at = "list" /\ sync'.todo = folders /\ sync'.listed = NoEmails
        /\ adrift' = adrift \union {e \in There : srv[e].box \notin folders}
    BY <1>0, <1>6 DEF StateAnswer, OnlyReads, store, SyncRecord, Base, BeginsEmpty, At
  <2>2. MirrorKnows' /\ GoneIsGone'
    BY <2>1 DEF MirrorKnows, GoneIsGone, At
  <2>3. ASSUME NEW e \in Mails \ adrift' PROVE e \notin adrift /\ Holds(e)'
    <3>1. srv[e] = None \/ srv[e].box \in sync'.todo
      BY <2>1, <2>3 DEF There
    <3>2. sync'.listed[e] = None /\ srv' = srv
      BY <2>1 DEF NoEmails, server
    <3> QED
      BY <2>1, <2>3, <3>1, <3>2 DEF Holds, At
  <2> QED
    BY <1>r, <2>1, <2>2, <2>3, InsideStep
<1>7. ASSUME NEW b \in Boxes, ListAnswer(b) PROVE Reported'
  <2> DEFINE listed == [e \in Mails |-> IF /\ sync.listed[e] = None /\ e \in There \ Old /\ srv[e].box = b
                                       THEN srv[e] ELSE sync.listed[e]]
  <2>1. /\ sync' = [sync EXCEPT !.todo = sync.todo \ {b}, !.listed = listed] /\ sync.at = "list"
        /\ UNCHANGED <<server, call, state, row, adrift>>
    BY <1>7 DEF ListAnswer, At, OnlyReads, store
  <2>2. sync'.at = "list" /\ sync'.to = sync.to /\ sync'.listed = listed /\ sync'.todo = sync.todo \ {b}
    BY <1>0, <2>1 DEF SyncRecord
  <2>3. MirrorKnows' /\ GoneIsGone'
    BY <2>2 DEF MirrorKnows, GoneIsGone, At
  <2>4. ASSUME NEW e \in Mails \ adrift, ~(touched[e] > sync.to) PROVE Holds(e)'
    <3>1. IF sync.listed[e] # None THEN sync.listed[e] = srv[e]
          ELSE srv[e] = None \/ e \in Old \/ srv[e].box \in sync.todo
      BY <1>0, <2>1, <2>4 DEF Holds, At
    <3>2. IF listed[e] # None THEN listed[e] = srv[e]
          ELSE srv[e] = None \/ e \in Old \/ srv[e].box \in sync.todo \ {b}
      BY <3>1 DEF There
    <3> HIDE DEF listed
    <3> QED
      BY <2>1, <2>2, <3>2 DEF Holds, At, server
  <2> QED
    BY <1>r, <2>1, <2>2, <2>3, <2>4, InsideStep
<1>8. CASE Listed
  <2> DEFINE late == IF sync.reset THEN Unasked \ sync.known ELSE Unasked
             at == IF sync.reset THEN "existing" ELSE "apply"
  <2>1. /\ sync' = [sync EXCEPT !.at = at] /\ sync.at = "list" /\ sync.todo = {} /\ sync.gone = {}
        /\ UNCHANGED <<server, call, state, row>> /\ adrift' = adrift \union late
    BY <1>8 DEF Listed, At, Goes, OnlyReads, store, Base, BeginsEmpty
  <2>2. /\ sync'.at = at /\ sync'.to = sync.to /\ sync'.listed = sync.listed /\ sync'.gone = {} /\ sync'.known = sync.known
    BY <1>0, <2>1 DEF SyncRecord
  <2>3. MirrorKnows' /\ GoneIsGone'
    BY <2>2 DEF MirrorKnows, GoneIsGone, At
  <2>4. ASSUME NEW e \in Mails \ adrift', ~(touched[e] > sync.to) PROVE Holds(e)'
    <3>1. e \in Mails \ adrift /\ e \notin late
      BY <2>1, <2>4
    <3>2. IF sync.listed[e] # None THEN sync.listed[e] = srv[e] ELSE srv[e] = None \/ e \in Old
      BY <1>0, <2>1, <2>4, <3>1 DEF Holds, At
    <3>3. touched[e] <= sync.to
      BY <1>c, <2>4
    <3>4. sync.listed[e] = None /\ e \notin Unasked => Fine(e)
      BY <3>1, <3>2, <3>3 DEF Unasked, Here, Fine, InStep
    <3>5. Fine(e) => Fine(e)'
      BY <2>1, RowStaysFine
    <3> QED
      BY <2>1, <2>2, <3>1, <3>2, <3>4, <3>5 DEF Holds, Told, At, server
  <2>5. \A e \in Mails \ adrift' : e \notin adrift
    BY <2>1
  <2> HIDE DEF late, at
  <2> QED
    BY <1>r, <2>1, <2>2, <2>3, <2>4, <2>5, InsideStep
<1>9. CASE ExistingAnswer
  <2> DEFINE listed == [e \in Mails |-> IF e \in sync.known \intersect There THEN srv[e] ELSE sync.listed[e]]
             gone == sync.known \ There
  <2>1. /\ sync' = [sync EXCEPT !.at = "apply", !.listed = listed, !.gone = gone] /\ sync.at = "existing"
        /\ UNCHANGED <<server, call, state, row, adrift>>
    BY <1>9 DEF ExistingAnswer, At, OnlyReads, store
  <2>2. sync'.at = "apply" /\ sync'.to = sync.to /\ sync'.listed = listed /\ sync'.gone = gone
    BY <1>0, <2>1 DEF SyncRecord
  <2>3. MirrorKnows' /\ GoneIsGone'
    BY <2>2 DEF MirrorKnows, GoneIsGone, At
  <2>4. ASSUME NEW e \in Mails \ adrift, ~(touched[e] > sync.to) PROVE Holds(e)'
    <3>1. IF sync.listed[e] # None THEN sync.listed[e] = srv[e] ELSE e \in sync.known \/ Fine(e)
      BY <1>0, <2>1, <2>4 DEF Holds, At
    <3>2. IF e \in gone THEN srv[e] = None ELSE IF listed[e] # None THEN listed[e] = srv[e] ELSE Fine(e)
      BY <3>1 DEF There
    <3>3. Fine(e) => Fine(e)'
      BY <2>1, RowStaysFine
    <3> HIDE DEF listed, gone
    <3> QED
      BY <2>1, <2>2, <3>2, <3>3 DEF Holds, Told, At, server
  <2> QED
    BY <1>r, <2>1, <2>2, <2>3, <2>4, InsideStep
<1>10. CASE Apply
  <2> DEFINE same == sync.known \ anew
             out == same \intersect (sync.gone \union (Current \ Placed))
             listed == [e \in Mails |-> IF e \in sync.known THEN None ELSE sync.listed[e]]
             late == {e \in Current \ Placed : srv[e] # None}
                     \union {e \in sync.known \intersect Placed : row[e] # srv[e] /\ (row[e] = None \/ e \in anew)}
                     \union {e \in sync.gone \ same : row[e] # srv[e]}
  <2>1. /\ row' = [e \in Mails |-> IF e \in out THEN None
                                   ELSE IF e \in same \intersect Placed /\ row[e] # None THEN sync.listed[e]
                                   ELSE row[e]]
        /\ UNCHANGED <<server, call, state>> /\ sync.at = "apply" /\ adrift' = adrift \union late
        /\ sync'.at = "download" /\ sync'.to = sync.to /\ sync'.new = Placed \ sync.known /\ sync'.listed = listed
    BY <1>10 DEF Apply, At, NoSync
  <2>2. MirrorKnows' /\ GoneIsGone'
    BY <2>1 DEF MirrorKnows, GoneIsGone, At
  <2>3. ASSUME NEW e \in Mails \ adrift', ~(touched[e] > sync.to), e \in sync.known PROVE Fine(e)'
    <3>1. e \in Mails \ adrift /\ e \notin late /\ Told(e)
      BY <1>0, <2>1, <2>3 DEF Holds, At
    <3>2. CASE e \in sync.gone
      <4>1. row'[e] = srv[e]
        BY <2>1, <2>3, <3>1, <3>2 DEF Told
      <4> QED
        BY <2>1, <4>1, RowBecomesFine
    <3>3. CASE e \in Current
      <4>1. sync.listed[e] = srv[e] /\ srv[e] # None
        BY <3>1, <3>3 DEF Told, Current
      <4>2. e \in Placed /\ e \notin out /\ (row[e] = srv[e] \/ (row[e] # None /\ e \in same))
        BY <2>3, <3>1, <3>3, <4>1 DEF Current
      <4>3. row'[e] = srv[e]
        BY <2>1, <2>3, <4>1, <4>2
      <4> QED
        BY <2>1, <4>3, RowBecomesFine
    <3>4. CASE e \notin sync.gone /\ e \notin Current
      <4>1. Fine(e) /\ row'[e] = row[e]
        BY <2>1, <3>1, <3>4 DEF Told, Current, Placed
      <4> QED
        BY <2>1, <4>1, RowStaysFine
    <3> QED
      BY <3>2, <3>3, <3>4
  <2>4. ASSUME NEW e \in Mails \ adrift', e \notin sync.known
        PROVE  (Fine(e) => Fine(e)') /\ (touched[e] > sync.to \/ IF e \in sync'.new THEN listed[e] = srv[e] ELSE Fine(e)')
    <3>1. e \in Mails \ adrift /\ e \notin late /\ row'[e] = row[e] /\ listed[e] = sync.listed[e]
      BY <2>1, <2>4
    <3>2. Fine(e) => Fine(e)'
      BY <2>1, <3>1, RowStaysFine
    <3>3. ASSUME ~(touched[e] > sync.to) PROVE IF e \in sync'.new THEN listed[e] = srv[e] ELSE Fine(e)'
      <4>1. Told(e)
        BY <1>0, <2>1, <3>1, <3>3 DEF Holds, At
      <4>2. CASE e \in sync'.new
        BY <2>1, <3>1, <4>1, <4>2 DEF Told, Current, Placed
      <4>3. CASE e \in sync.gone
        <5>1. row[e] = srv[e] /\ e \notin sync'.new
          BY <2>1, <2>4, <3>1, <4>3 DEF Current, Placed
        <5> QED
          BY <2>1, <3>1, <5>1, RowBecomesFine
      <4>4. CASE e \notin sync'.new /\ e \notin sync.gone
        <5>1. sync.listed[e] = None
          BY <2>1, <2>4, <3>1, <4>1, <4>4 DEF Told, Current
        <5> QED
          BY <3>2, <4>1, <4>4, <5>1 DEF Told
      <4> QED
        BY <4>2, <4>3, <4>4
    <3> QED
      BY <3>2, <3>3
  <2>5. ASSUME NEW e \in Mails \ adrift' PROVE e \notin adrift /\ Right(e)' /\ (touched[e] > sync'.to \/ Holds(e)')
    <3>1. e \in Mails \ adrift /\ touched' = touched /\ srv' = srv /\ state <= sync.to
      BY <1>c, <2>1, <2>5 DEF server
    <3>2. touched[e] > sync.to => touched[e] > state
      BY <1>c, <3>1
    <3> HIDE DEF out, listed, late
    <3>3. CASE e \in sync.known
      <4>1. e \notin sync'.new
        BY <2>1, <3>3
      <4> QED
        BY <2>1, <2>3, <2>5, <3>1, <3>2, <3>3, <4>1 DEF Right, Holds, At
    <3>4. CASE e \notin sync.known
      BY <1>0, <2>1, <2>4, <2>5, <3>1, <3>4 DEF Right, Holds, At
    <3> QED
      BY <3>3, <3>4
  <2> HIDE DEF out, listed, late
  <2> QED
    BY <2>1, <2>2, <2>5, InsideStep
<1>11. ASSUME NEW d \in Mails, Download(d) PROVE Reported'
  <2>1. /\ sync.at = "download" /\ d \in sync.new /\ UNCHANGED <<server, call, state>>
        /\ row' = [row EXCEPT ![d] = IF row[d] = None /\ d \in There THEN sync.listed[d] ELSE row[d]]
        /\ sync' = [sync EXCEPT !.new = sync.new \ {d}, !.listed = [sync.listed EXCEPT ![d] = None]]
        /\ adrift' = IF row[d] # None /\ row[d] # sync.listed[d] THEN adrift \union {d} ELSE adrift
    BY <1>11 DEF Download, At
  <2>2. /\ sync'.at = "download" /\ sync'.to = sync.to /\ sync'.new = sync.new \ {d}
        /\ \A e \in Mails \ {d} : sync'.listed[e] = sync.listed[e] /\ row'[e] = row[e]
    BY <1>0, <1>a, <2>1 DEF SyncRecord
  <2>3. MirrorKnows' /\ GoneIsGone'
    BY <2>2 DEF MirrorKnows, GoneIsGone, At
  <2>4. ASSUME NEW e \in Mails \ adrift' PROVE e \notin adrift /\ Right(e)' /\ (touched[e] > sync'.to \/ Holds(e)')
    <3>1. e \in Mails \ adrift /\ touched' = touched /\ srv' = srv /\ state <= sync.to /\ state' = state
      BY <1>c, <2>1, <2>4 DEF server
    <3>2. CASE e # d
      <4>1. Fine(e) => Fine(e)'
        BY <2>1, <2>2, <3>2, RowStaysFine
      <4> QED
        BY <1>0, <2>1, <2>2, <3>1, <3>2, <4>1 DEF Right, Holds, At
    <3>3. CASE e = d
      <4>1. e \notin sync'.new /\ sync.listed[d] # None
        BY <2>1, <2>2, <3>3 DEF Base, NewIsListed
      <4>2. ASSUME ~(touched[e] > sync.to) PROVE Fine(e)'
        <5>1. sync.listed[d] = srv[d]
          BY <1>0, <2>1, <3>1, <3>3, <4>2 DEF Holds, At
        <5>2. row'[d] = srv[d]
          BY <1>0, <2>1, <2>4, <3>1, <3>3, <4>1, <5>1 DEF There
        <5> QED
          BY <2>1, <3>3, <5>2, RowBecomesFine
      <4>3. touched[e] > sync.to => touched[e] > state
        BY <1>c, <3>1
      <4> QED
        BY <2>2, <3>1, <4>1, <4>2, <4>3 DEF Right, Holds, At
    <3> QED
      BY <3>2, <3>3
  <2> QED
    BY <2>1, <2>3, <2>4, InsideStep
<1>12. CASE Finish
  <2>1. /\ sync.at = "download" /\ sync.new = {} /\ state' = sync.to /\ sync'.at = "idle"
        /\ UNCHANGED <<srv, boxes, touched, server, row, call, adrift>>
    BY <1>12, NoSyncIsSync DEF Finish, At, server
  <2>2. ASSUME NEW e \in Mails \ adrift' PROVE Sound(e)'
    <3>1. touched[e] > sync.to \/ Fine(e)
      BY <1>0, <2>1, <2>2 DEF Holds, At
    <3>2. Fine(e) => Fine(e)'
      BY <2>1, RowStaysFine
    <3> QED
      BY <2>1, <3>1, <3>2 DEF Sound, Right, Holds, At
  <2> QED
    BY <2>1, <2>2 DEF Reported, BoxesHold, MirrorKnows, GoneIsGone, At
<1>13. CASE SyncFails
  <2>1. UNCHANGED <<server, call, state, row, adrift>> /\ sync'.at = "idle"
    BY <1>13, NoSyncIsSync DEF SyncFails, store
  <2>2. MirrorKnows' /\ GoneIsGone' /\ \A e \in Mails : Holds(e)'
    BY <2>1 DEF MirrorKnows, GoneIsGone, Holds, At
  <2> QED
    BY <1>r, <2>1, <2>2, InsideStep
<1> QED
  BY <1>1, <1>2, <1>3, <1>4, <1>5, <1>6, <1>7, <1>8, <1>9, <1>10, <1>11, <1>12, <1>13 DEF SyncStep

LEMMA ReportedStart == Init => Reported
<1> SUFFICES ASSUME Init PROVE Reported
  OBVIOUS
<1>1. sync.at = "idle" /\ sync.to = 0 /\ state = 0 /\ adrift = {} /\ boxes = FirstBoxes
      /\ touched = [e \in Mails |-> IF srv[e] = None THEN 0 ELSE 1] /\ row = NoEmails
  BY NoSyncIsSync DEF Init
<1>2. BoxesHold
  <2>1. \A e \in Mails : srv[e] \in [box : FirstBoxes, seen : {FALSE}] \union {None}
    BY DEF Init
  <2> QED
    BY <1>1, <2>1 DEF BoxesHold
<1>3. ASSUME NEW e \in Mails PROVE Sound(e)
  <2>1. row[e] = None /\ (IF srv[e] = None THEN touched[e] = 0 ELSE touched[e] = 1)
    BY <1>1 DEF NoEmails
  <2>2. srv[e] = None => Fine(e)
    BY <2>1 DEF Fine, InStep
  <2>3. Holds(e)
    BY <1>1 DEF Holds, At
  <2> QED
    BY <1>1, <2>1, <2>2, <2>3 DEF Sound, Right
<1> QED
  BY <1>1, <1>2, <1>3 DEF Reported, MirrorKnows, GoneIsGone, At

LEMMA ReportedStep == Base /\ Reported /\ [Next]_vars => Reported'
<1> SUFFICES ASSUME Base, Reported, [Next]_vars PROVE Reported'
  OBVIOUS
<1>1. CASE NoLongerNew \/ UNCHANGED vars
  <2>1. UNCHANGED <<srv, boxes, touched, version, row, folders, state, sync, call, adrift>>
    BY <1>1 DEF NoLongerNew, vars, server, store
  <2>2. BoxesHold' /\ \A e \in Mails : Moves(e)
    BY <2>1 DEF BoxesHold, Moves, Reported
  <2>3. \A e \in Mails : Fine(e) => Fine(e)'
    BY <2>1, StaysFine
  <2> QED
    BY <2>1, <2>2, <2>3, OutsideStep
<1>2. CASE Quit
  <2>1. /\ UNCHANGED <<srv, boxes, touched, row, state>> /\ sync'.at = "idle"
        /\ adrift' = adrift \union {call[c].mail : c \in {c \in Calls : Is(c, "flag")}}
    BY <1>2, NoSyncIsSync DEF Quit, server, store
  <2>2. ASSUME NEW e \in Mails \ adrift' PROVE Sound(e)'
    <3>1. Right(e) /\ ~Flagged(e)
      BY <2>1, <2>2 DEF Reported, Sound, Flagged
    <3>2. touched[e] > state \/ InStep(e)
      BY <3>1 DEF Right, Fine
    <3> QED
      BY <2>1, <3>2 DEF Sound, Right, Fine, InStep, Holds, At
  <2> QED
    BY <2>1, <2>2 DEF Reported, BoxesHold, MirrorKnows, GoneIsGone, At
<1> QED
  BY <1>1, <1>2, ServerReports, SyncReports, CallReports DEF Next

\* Once nothing runs, an email whose row differs from the server's was touched after the stored
\* state, so the next Email/changes names it; only late answers and lost flags leave one behind
\* (sync_emails, initial_listing, and the calls of engine.rs that write rows around their request).
THEOREM DifferencesAreReported == Spec => []StillReported
<1>1. Reported => StillReported
  <2> SUFFICES ASSUME Reported, Quiet, NEW e \in Mails \ adrift PROVE InStep(e) \/ touched[e] > state
    BY DEF StillReported
  <2>1. ~Flagged(e)
    BY DEF Quiet, Is, Flagged
  <2> QED
    BY <2>1 DEF Reported, Sound, Right, Fine
<1>2. Spec => []Reported
  BY AlwaysBase, ReportedStart, ReportedStep, PTL DEF Spec
<1> QED
  BY <1>1, <1>2, PTL

=============================================================================
