--------------------------- MODULE AutoLabelsProofs ---------------------------
(***************************************************************************)
(* Theorems about AutoLabels, for any mails, labels and windows: its types, *)
(* that a label the person took off a sender's mail stays off, that no run  *)
(* leaves a mail with more than two labels, and that the log tells all that *)
(* was put on by itself.                                                    *)
(***************************************************************************)
EXTENDS AutoLabels, FiniteSetTheorems, TLAPS

\* TypeOK, in the parts a step disturbs.
MailsOK ==
    /\ labels \subseteq Labels /\ server \in [Mails -> SUBSET Labels] /\ here \in [Mails -> SUBSET Labels]
    /\ arrived \subseteq Mails /\ queue \subseteq SUBSET Mails
NotesOK ==
    /\ log \subseteq Entry /\ notes \subseteq Entry /\ logged \in Nat /\ aged \in Nat
    /\ barred \subseteq Labels \X Senders /\ ways \subseteq {"ai", "cheap"}
BoundsOK == calls \in Nat /\ switches \in Nat /\ faults \in Nat
HistoryOK == byItself \subseteq Mails \X Labels /\ takenOff \subseteq Labels \X Senders
Sound(x) ==
    IF x.at \in {"idle", "next"} THEN x.mail = Nobody /\ x.found = {} /\ x.done = {}
    ELSE /\ x.mail \in Mails /\ x.found \subseteq x.may /\ x.done \subseteq x.found
         /\ x.at = "ask" => x.done = {}
         /\ x.at = "kept" => x.done = x.found
         /\ Cardinality(x.found) <= x.room
RunsOK == run \in [Runners -> Run] /\ \A r \in Runners : Sound(run[r])
CallsOK == call \in [Callers -> Hand] /\ \A c \in Callers : call[c].at # "idle" => call[c].label \in Labels

Base == TypeOK

LEMMA Parts == TypeOK <=> MailsOK /\ NotesOK /\ BoundsOK /\ HistoryOK /\ RunsOK /\ CallsOK
  BY DEF TypeOK, MailsOK, NotesOK, BoundsOK, HistoryOK, RunsOK, CallsOK, Sound

LEMMA PartsAfter == MailsOK' /\ NotesOK' /\ BoundsOK' /\ HistoryOK' /\ RunsOK' /\ CallsOK' => TypeOK'
  BY DEF TypeOK, MailsOK, NotesOK, BoundsOK, HistoryOK, RunsOK, CallsOK, Sound

-----------------------------------------------------------------------------
(***************************************************************************)
(* Types.                                                                  *)
(***************************************************************************)

LEMMA EmptyIsFinite == IsFiniteSet({}) /\ Cardinality({}) = 0
  BY FS_EmptySet

LEMMA SomeLabels == ASSUME NEW S \in SUBSET Labels PROVE IsFiniteSet(S) /\ Cardinality(S) \in Nat
  BY LabelsAssumption, FS_Subset, FS_CardinalityType

LEMMA NoRunIsRun == NoRun \in Run /\ Sound(NoRun)
  BY NamesAssumption DEF NoRun, Run, Sound, AtMost

LEMMA NoCallIsHand == NoCall \in Hand
  BY DEF NoCall, Hand

\* One run changes.
LEMMA RunChanges ==
  ASSUME RunsOK, NEW r \in Runners, NEW x \in Run, Sound(x), run' = [run EXCEPT ![r] = x]
  PROVE  RunsOK'
  BY DEF RunsOK, Sound

\* One call changes.
LEMMA CallChanges ==
  ASSUME CallsOK, NEW c \in Callers, NEW x \in Hand, x.at # "idle" => x.label \in Labels,
         call' = [call EXCEPT ![c] = x]
  PROVE  CallsOK'
  BY DEF CallsOK

LEMMA InitTypes == Init => TypeOK
<1> SUFFICES ASSUME Init PROVE TypeOK
  OBVIOUS
<1>1. MailsOK /\ NotesOK /\ BoundsOK /\ HistoryOK
  BY DEF Init, MailsOK, NotesOK, BoundsOK, HistoryOK
<1>2. RunsOK
  BY NoRunIsRun DEF Init, RunsOK
<1>3. CallsOK
  BY NoCallIsHand DEF Init, CallsOK, NoCall
<1> QED
  BY <1>1, <1>2, <1>3, Parts

\* What a run goes on with.
LEMMA OnwardIsRun ==
  ASSUME NEW x \in Run
  PROVE  LET y == IF x.todo = {} THEN NoRun
                  ELSE [NoRun EXCEPT !.at = "next", !.todo = x.todo, !.list = x.list, !.ways = x.ways]
         IN  y \in Run /\ Sound(y)
  BY NoRunIsRun DEF Run, NoRun, Sound

LEMMA OnwardTypes ==
  ASSUME RunsOK, NEW r \in Runners, NEW x \in Run, run' = Onward(r, x)
  PROVE  RunsOK'
<1> DEFINE y == IF x.todo = {} THEN NoRun
                ELSE [NoRun EXCEPT !.at = "next", !.todo = x.todo, !.list = x.list, !.ways = x.ways]
<1>1. y \in Run /\ Sound(y)
  BY OnwardIsRun
<1>2. run' = [run EXCEPT ![r] = y]
  BY DEF Onward
<1> HIDE DEF y
<1> QED
  BY <1>1, <1>2, RunChanges

LEMMA BoundsType == ASSUME BoundsOK, Fault PROVE BoundsOK'
  BY DEF BoundsOK, Fault
LEMMA FreeBounds == ASSUME BoundsOK, NEW c, Free(c) PROVE BoundsOK'
  BY DEF BoundsOK, Free

LEMMA RoomType == ASSUME MailsOK, RunsOK, NEW r \in Runners, NEW m \in Mails PROVE Room(r, m) \in 0..AtMost
<1>1. here[m] \cap run[r].list \in SUBSET Labels
  BY DEF MailsOK, RunsOK, Run
<1> QED
  BY <1>1, SomeLabels DEF Room, AtMost

\* What may be put on a mail is on this device's list of labels.
LEMMA SureType ==
  ASSUME MailsOK, RunsOK, NEW r \in Runners, NEW m \in Mails
  PROVE  Sure(r, m) \subseteq run[r].list /\ Open(r, m) \subseteq run[r].list /\ run[r].list \subseteq Labels
  BY DEF Sure, Open, RunsOK, Run

\* A run with the mail it reads, and what it does with the labels it finds.
Still(r, left) == IF left \/ r # Worker THEN run[r].ways ELSE run[r].ways \ {"ai"}
Mine(r, m, left) ==
    [run[r] EXCEPT !.todo = @ \ {m}, !.mail = m, !.ways = Still(r, left), !.room = Room(r, m),
                   !.crossed = here[m] # server[m]]
AfterReading(r, mine, sure, doubt) ==
    run' = IF sure \union doubt = {} THEN Onward(r, mine)
           ELSE [run EXCEPT ![r] = [mine EXCEPT !.at = IF doubt = {} THEN "put" ELSE "ask",
                                                !.found = sure, !.may = sure \union doubt]]

LEMMA ReadsGives ==
  ASSUME RunsOK, NEW r \in Runners, Reads(r)
  PROVE  \E m \in run[r].todo, left \in BOOLEAN :
            \/ run' = [run EXCEPT ![r] = NoRun]
            \/ \E sure \in SUBSET Sure(r, m), doubt \in SUBSET Open(r, m) :
                  Cardinality(sure) <= Room(r, m) /\ AfterReading(r, Mine(r, m, left), sure, doubt)
<1>1. PICK m \in run[r].todo, left \in BOOLEAN :
        \/ Still(r, left) = {} /\ run' = [run EXCEPT ![r] = NoRun]
        \/ /\ Still(r, left) # {}
           /\ \E sure \in SUBSET Sure(r, m), doubt \in SUBSET Open(r, m) :
                /\ Cardinality(sure) <= Mine(r, m, left).room /\ doubt \cap sure = {}
                /\ doubt # {} => "ai" \in Still(r, left) /\ Cardinality(sure) < Mine(r, m, left).room
                /\ AfterReading(r, Mine(r, m, left), sure, doubt)
  BY DEF Reads, Still, Mine, AfterReading
<1>2. Mine(r, m, left).room = Room(r, m)
  BY DEF Mine, RunsOK, Run
<1> QED
  BY <1>1, <1>2

LEMMA ReadsTypes == ASSUME TypeOK, NEW r \in Runners, Reads(r) PROVE RunsOK'
<1> USE Parts, PartsAfter
<1>1. PICK m \in run[r].todo, left \in BOOLEAN :
            \/ run' = [run EXCEPT ![r] = NoRun]
            \/ \E sure \in SUBSET Sure(r, m), doubt \in SUBSET Open(r, m) :
                  Cardinality(sure) <= Room(r, m) /\ AfterReading(r, Mine(r, m, left), sure, doubt)
  BY ReadsGives
<1> DEFINE mine == Mine(r, m, left)
<1>2. m \in Mails /\ run[r] \in Run /\ Sound(run[r]) /\ run[r].at = "next"
  BY DEF RunsOK, Run, Reads
<1>3. Room(r, m) \in 0..AtMost
  BY <1>2, RoomType
<1>4. mine \in Run /\ mine.at = "next" /\ mine.mail = m /\ mine.done = {} /\ mine.room = Room(r, m)
  BY <1>2, <1>3 DEF Run, Sound, Mine, Still
<1>5. CASE run' = [run EXCEPT ![r] = NoRun]
  BY <1>5, NoRunIsRun, RunChanges
<1>6. ASSUME NEW sure \in SUBSET Sure(r, m), NEW doubt \in SUBSET Open(r, m), Cardinality(sure) <= Room(r, m),
             AfterReading(r, mine, sure, doubt)
      PROVE  RunsOK'
  <2> HIDE DEF mine
  <2> DEFINE x == [mine EXCEPT !.at = IF doubt = {} THEN "put" ELSE "ask", !.found = sure, !.may = sure \union doubt]
  <2>1. CASE run' = Onward(r, mine)
    BY <2>1, <1>4, OnwardTypes
  <2>2. CASE run' = [run EXCEPT ![r] = x]
    <3>1. sure \subseteq Labels /\ doubt \subseteq Labels
      BY <1>2, SureType
    <3>2. x \in Run /\ Sound(x)
      BY <3>1, <1>2, <1>4, <1>6 DEF Run, Sound
    <3> HIDE DEF x
    <3> QED
      BY <2>2, <3>2, RunChanges
  <2> QED
    BY <1>6, <2>1, <2>2 DEF AfterReading
<1> QED
  BY <1>1, <1>5, <1>6

LEMMA AnswersTypes == ASSUME TypeOK, NEW r \in Runners, Answers(r) \/ AnswerFails(r) PROVE RunsOK'
<1> USE Parts, PartsAfter
<1>1. run[r] \in Run /\ Sound(run[r]) /\ run[r].at = "ask"
  BY DEF RunsOK, Answers, AnswerFails
<1>2. CASE Answers(r)
  <2>1. PICK found \in SUBSET run[r].may :
            /\ Cardinality(found) <= run[r].room
            /\ run' = IF found = {} THEN Onward(r, run[r])
                      ELSE [run EXCEPT ![r].at = "put", ![r].found = found]
    BY <1>2 DEF Answers
  <2> DEFINE x == [run[r] EXCEPT !.at = "put", !.found = found]
  <2>2. x \in Run /\ Sound(x)
    BY <1>1, <2>1 DEF Run, Sound
  <2>3. run' = Onward(r, run[r]) \/ run' = [run EXCEPT ![r] = x]
    BY <2>1 DEF RunsOK
  <2> HIDE DEF x
  <2> QED
    BY <1>1, <2>2, <2>3, OnwardTypes, RunChanges
<1>3. CASE AnswerFails(r)
  <2>1. CASE run' = [run EXCEPT ![r].at = "put"]
    <3> DEFINE x == [run[r] EXCEPT !.at = "put"]
    <3>1. x \in Run /\ Sound(x)
      BY <1>1 DEF Run, Sound
    <3>2. run' = [run EXCEPT ![r] = x]
      BY <2>1 DEF RunsOK
    <3> HIDE DEF x
    <3> QED
      BY <3>1, <3>2, RunChanges
  <2>2. ASSUME NEW ways1 \in {run[r].ways, run[r].ways \ {"ai"}}, run' = Onward(r, [run[r] EXCEPT !.ways = ways1])
        PROVE  RunsOK'
    <3>1. [run[r] EXCEPT !.ways = ways1] \in Run
      BY <1>1, <2>2 DEF Run
    <3> QED
      BY <2>2, <3>1, OnwardTypes
  <2> QED
    BY <1>3, <2>1, <2>2 DEF AnswerFails
<1> QED
  BY <1>2, <1>3

LEMMA ImageIsFinite == ASSUME NEW S, IsFiniteSet(S), NEW f, NEW T, f \in [S -> T], T = {f[x] : x \in S} PROVE IsFiniteSet(T)
<1>1. f \in Surjection(S, T)
  BY DEF Surjection
<1> QED
  BY <1>1, FS_Surjection

LEMMA CrossesTypes ==
  ASSUME RunsOK, NEW mails
  PROVE  Crosses(mails) \in [Runners -> Run] /\ \A q \in Runners : Sound(Crosses(mails)[q])
<1> SUFFICES ASSUME NEW q \in Runners PROVE Crosses(mails)[q] \in Run /\ Sound(Crosses(mails)[q])
  BY DEF Crosses
<1>1. run[q] \in Run /\ Sound(run[q])
  BY DEF RunsOK
<1>2. [run[q] EXCEPT !.crossed = TRUE] \in Run /\ Sound([run[q] EXCEPT !.crossed = TRUE])
  BY <1>1 DEF Run, Sound
<1> QED
  BY <1>1, <1>2 DEF Crosses

LEMMA PutsOnTypes == ASSUME TypeOK, NEW r \in Runners, PutsOn(r) PROVE RunsOK' /\ MailsOK' /\ HistoryOK'
<1> USE Parts, PartsAfter
<1>1. PICK ks \in SUBSET (run[r].found \ run[r].done) :
        LET m == run[r].mail
        IN  /\ server' = [server EXCEPT ![m] = @ \union ks]
            /\ run' = [Crosses({m}) EXCEPT
                           ![r] = [run[r] EXCEPT !.done = @ \union ks,
                                                 !.at = IF run[r].done \union ks = run[r].found THEN "kept" ELSE "put"]]
            /\ byItself' = byItself \union ({m} \X (ks \ server[m]))
  BY DEF PutsOn
<1>2. run[r] \in Run /\ Sound(run[r]) /\ run[r].at = "put"
  BY DEF RunsOK, PutsOn
<1>3. run[r].mail \in Mails /\ ks \subseteq Labels
  BY <1>1, <1>2 DEF Run, Sound
<1> DEFINE x == [run[r] EXCEPT !.done = @ \union ks,
                               !.at = IF run[r].done \union ks = run[r].found THEN "kept" ELSE "put"]
<1>4. x \in Run /\ Sound(x)
  BY <1>1, <1>2, <1>3 DEF Run, Sound
<1>5. run' = [Crosses({run[r].mail}) EXCEPT ![r] = x]
  BY <1>1
<1>6. RunsOK'
  <2> HIDE DEF x
  <2> QED
    BY <1>4, <1>5, CrossesTypes DEF RunsOK
<1>7. MailsOK'
  BY <1>1, <1>3 DEF MailsOK, PutsOn, store
<1>8. HistoryOK'
  BY <1>1, <1>3 DEF HistoryOK, PutsOn
<1> QED
  BY <1>6, <1>7, <1>8

LEMMA PutFailsTypes == ASSUME TypeOK, NEW r \in Runners, PutFails(r) PROVE RunsOK' /\ HistoryOK'
<1> USE Parts, PartsAfter
<1>1. run[r] \in Run
  BY DEF RunsOK
<1>2. [run[r] EXCEPT !.ways = @ \ {"ai"}] \in Run
  BY <1>1 DEF Run
<1>3. RunsOK'
  BY <1>2, OnwardTypes, NoRunIsRun, RunChanges DEF PutFails
<1>4. HistoryOK'
  BY DEF HistoryOK, PutFails
<1> QED
  BY <1>3, <1>4

\* The numbers of the entries of some labels.
LEMMA LoggedTypes ==
  ASSUME TypeOK, NEW m \in Mails, NEW ls \in SUBSET Labels, NEW nr \in Numbers(ls)
  PROVE  Logged(m, ls, nr) \subseteq Entry /\ Cardinality(ls) \in Nat
<1>1. logged \in Nat /\ Cardinality(ls) \in Nat
  BY SomeLabels, Parts DEF NotesOK
<1>2. nr \in [ls -> logged + 1..logged + Cardinality(ls)]
  BY DEF Numbers, Injection
<1>3. \A l \in ls : nr[l] \in Nat
  BY <1>1, <1>2
<1>4. \A l \in ls : [nr |-> nr[l], mail |-> m, label |-> l, undone |-> FALSE] \in Entry
  BY <1>3 DEF Entry
<1> QED
  BY <1>1, <1>4 DEF Logged

LEMMA LogsTypes == ASSUME Base, NEW r \in Runners, Logs(r) PROVE RunsOK' /\ MailsOK' /\ NotesOK'
<1> USE Parts, PartsAfter DEF Base
<1>1. run[r] \in Run /\ run[r].mail \in Mails /\ run[r].found \in SUBSET Labels
  BY DEF RunsOK, Run, Sound, Logs
<1>2. RunsOK'
  BY <1>1, OnwardTypes DEF Logs
<1>3. MailsOK'
  BY <1>1 DEF MailsOK, Logs
<1> DEFINE m == run[r].mail
           ls == run[r].found
<1>4. PICK nr \in Numbers(ls), before \in 0..logged :
        /\ log' = (log \ Forgets(Cardinality(ls), before)) \union Logged(m, ls, nr)
        /\ notes' = notes \union Logged(m, ls, nr)
  BY DEF Logs
<1>5. logged' = logged + Cardinality(ls) /\ UNCHANGED <<aged, barred, ways>>
  BY DEF Logs
<1>6. Logged(m, ls, nr) \subseteq Entry /\ Cardinality(ls) \in Nat
  BY <1>1, <1>4, LoggedTypes
<1> HIDE DEF m, ls
<1>7. NotesOK'
  BY <1>4, <1>5, <1>6 DEF NotesOK
<1> QED
  BY <1>2, <1>3, <1>7

LEMMA LabellingTypes == ASSUME Base, NEW r \in Runners, Labelling(r) PROVE Base'
<1> USE Parts, PartsAfter DEF Base
<1>1. CASE Reads(r)
  BY <1>1, ReadsTypes DEF Reads, store, bounds, history, MailsOK, NotesOK, BoundsOK, HistoryOK, CallsOK
<1>2. CASE Answers(r) \/ AnswerFails(r)
  BY <1>2, AnswersTypes DEF Answers, AnswerFails, store, bounds, history, MailsOK, NotesOK, BoundsOK, HistoryOK, CallsOK
<1>3. CASE PutsOn(r)
  BY <1>3, PutsOnTypes DEF PutsOn, store, bounds, NotesOK, BoundsOK, CallsOK
<1>4. CASE PutFails(r)
  BY <1>4, PutFailsTypes, BoundsType DEF PutFails, store, MailsOK, NotesOK, CallsOK
<1>5. CASE Logs(r)
  BY <1>5, LogsTypes DEF Logs, bounds, history, BoundsOK, HistoryOK, CallsOK
<1> QED
  BY <1>1, <1>2, <1>3, <1>4, <1>5 DEF Labelling

-----------------------------------------------------------------------------
LEMMA BeginsTypes ==
  ASSUME Base, NEW c \in Callers,
         \/ \E m \in Mails, l \in Labels, on \in BOOLEAN : SetsKeyword(c, m, l, on)
         \/ \E m \in Mails : Applies(c, m)
         \/ \E e \in log : Undoes(c, e)
         \/ \E l \in Labels : Deletes(c, l)
  PROVE  Base'
<1> USE Parts, PartsAfter DEF Base
<1>1. ASSUME NEW m \in Mails, NEW l \in Labels, NEW on \in BOOLEAN, SetsKeyword(c, m, l, on) PROVE Base'
  <2>1. CallsOK'
    <3> DEFINE had == l \in here[m]
           x == [NoCall EXCEPT !.op = "hand", !.at = "send", !.mails = {m}, !.label = l, !.on = on, !.had = had]
    <3>1. call' = [call EXCEPT ![c] = x]
      BY <1>1 DEF SetsKeyword
    <3>2. had \in BOOLEAN
      OBVIOUS
    <3> HIDE DEF had
    <3>3. x \in Hand /\ x.label \in Labels
      BY <1>1, <3>2 DEF NoCall, Hand
    <3> HIDE DEF x
    <3> QED
      BY <3>1, <3>3, CallChanges
  <2> QED
    BY <1>1, <2>1, FreeBounds DEF SetsKeyword, store, history, MailsOK, NotesOK, HistoryOK, RunsOK
<1>2. ASSUME NEW m \in Mails, Applies(c, m) PROVE Base'
  <2> DEFINE x == [NoRun EXCEPT !.at = "next", !.todo = {m}, !.list = labels, !.ways = ways \union {"ai"}]
  <2>1. x \in Run /\ Sound(x)
    BY NoRunIsRun DEF Run, NoRun, Sound, MailsOK, NotesOK
  <2>2. c \in Runners /\ run' = [run EXCEPT ![c] = x]
    BY <1>2 DEF Applies, Runners
  <2> HIDE DEF x
  <2>3. RunsOK'
    BY <2>1, <2>2, RunChanges
  <2>4. BoundsOK'
    BY <1>2, FreeBounds DEF Applies
  <2> QED
    BY <1>2, <2>3, <2>4 DEF Applies, store, history, MailsOK, NotesOK, HistoryOK, CallsOK
<1>3. ASSUME NEW e \in log, Undoes(c, e) PROVE Base'
  <2>1. e.mail \in Mails /\ e.label \in Labels /\ e.nr \in Nat
    BY DEF NotesOK, Entry
  <2>2. CallsOK'
    <3> DEFINE had == e.label \in here[e.mail]
           x == [NoCall EXCEPT !.op = "undo", !.at = "send", !.mails = {e.mail}, !.label = e.label, !.had = had,
                                   !.entry = e.nr]
    <3>1. call' = [call EXCEPT ![c] = x]
      BY <1>3 DEF Undoes
    <3>2. had \in BOOLEAN
      OBVIOUS
    <3> HIDE DEF had
    <3>3. x \in Hand /\ x.label \in Labels
      BY <2>1, <3>2 DEF NoCall, Hand
    <3> HIDE DEF x
    <3> QED
      BY <3>1, <3>3, CallChanges
  <2> QED
    BY <1>3, <2>2, FreeBounds DEF Undoes, store, history, MailsOK, NotesOK, HistoryOK, RunsOK
<1>4. ASSUME NEW l \in Labels, Deletes(c, l) PROVE Base'
  <2> DEFINE mails == {m \in arrived : l \in here[m]}
  <2>1. mails \in SUBSET Mails
    BY DEF MailsOK
  <2>2. CallsOK'
    <3> DEFINE x == [NoCall EXCEPT !.op = "delete", !.at = IF mails = {} THEN "drop" ELSE "send", !.mails = mails,
                                   !.label = l]
    <3>1. x \in Hand /\ x.label \in Labels
      BY <2>1 DEF NoCall, Hand
    <3>2. call' = [call EXCEPT ![c] = x]
      BY <1>4 DEF Deletes
    <3> HIDE DEF x
    <3> QED
      BY <3>1, <3>2, CallChanges
  <2> QED
    BY <1>4, <2>2, FreeBounds DEF Deletes, store, history, MailsOK, NotesOK, HistoryOK, RunsOK
<1> QED
  BY <1>1, <1>2, <1>3, <1>4

LEMMA SendsTypes == ASSUME TypeOK, NEW c \in Callers, Sends(c) PROVE TypeOK'
<1> USE Parts, PartsAfter
<1>1. call[c] \in Hand /\ call[c].label \in Labels /\ call[c].mails \subseteq Mails
  BY DEF CallsOK, Hand, Sends
<1>2. MailsOK'
  BY <1>1 DEF MailsOK, Sends, store
<1>3. CallsOK'
  <2> DEFINE x == [call[c] EXCEPT !.at = "kept"]
  <2>1. x \in Hand /\ x.label \in Labels
    BY <1>1 DEF Hand
  <2>2. call' = [call EXCEPT ![c] = x]
    BY DEF Sends, CallsOK
  <2> HIDE DEF x
  <2> QED
    BY <2>1, <2>2, CallChanges
<1>4. RunsOK'
  BY CrossesTypes DEF Sends, RunsOK
<1>5. HistoryOK'
  BY DEF HistoryOK, Sends
<1> QED
  BY <1>2, <1>3, <1>4, <1>5 DEF Sends, store, bounds, NotesOK, BoundsOK

LEMMA CallGoesOn ==
  ASSUME CallsOK, NEW c \in Callers, call[c].at # "idle", NEW at \in {"drop", "learn"}, NEW teaches \in BOOLEAN,
         \/ call' = [call EXCEPT ![c] = [call[c] EXCEPT !.at = at]]
         \/ call' = [call EXCEPT ![c].at = at, ![c].teaches = teaches]
         \/ call' = [call EXCEPT ![c] = NoCall]
  PROVE  CallsOK'
<1> DEFINE x == [call[c] EXCEPT !.at = at]
           y == [call[c] EXCEPT !.at = at, !.teaches = teaches]
<1>1. call[c] \in Hand /\ call[c].label \in Labels
  BY DEF CallsOK
<1>2. x \in Hand /\ y \in Hand /\ x.label \in Labels /\ y.label \in Labels
  BY <1>1 DEF Hand
<1>3. NoCall \in Hand /\ NoCall.at = "idle"
  BY NoCallIsHand DEF NoCall
<1>4. call' \in {[call EXCEPT ![c] = x], [call EXCEPT ![c] = y], [call EXCEPT ![c] = NoCall]}
  BY DEF CallsOK
<1> HIDE DEF x, y
<1> QED
  BY <1>2, <1>3, <1>4, CallChanges

LEMMA FollowsTypes == ASSUME Base, NEW c \in Callers, SendFails(c) \/ Stores(c) PROVE Base'
<1> USE Parts, PartsAfter DEF Base
<1>1. call[c].at # "idle" /\ call[c] \in Hand /\ call[c].label \in Labels
  BY DEF SendFails, Stores, CallsOK
<1>2. CASE SendFails(c)
  <2>1. CallsOK'
    BY <1>1, <1>2, CallGoesOn DEF SendFails
  <2> QED
    BY <1>2, <2>1, BoundsType DEF SendFails, store, history, MailsOK, NotesOK, HistoryOK, RunsOK
<1>3. CASE Stores(c)
  <2> DEFINE at == IF call[c].op = "delete" THEN "drop" ELSE "learn"
             teaches == call[c].op # "delete" /\ call[c].label \in labels /\ "cheap" \in ways
  <2>1. call' = [call EXCEPT ![c].at = at, ![c].teaches = teaches]
    BY <1>3 DEF Stores
  <2>2. at \in {"drop", "learn"} /\ teaches \in BOOLEAN
    OBVIOUS
  <2> HIDE DEF at, teaches
  <2>3. CallsOK'
    BY <1>1, <2>1, <2>2, CallGoesOn
  <2>4. MailsOK'
    BY <1>1, <1>3 DEF MailsOK, Stores, Hand
  <2> QED
    BY <1>3, <2>3, <2>4 DEF Stores, bounds, history, NotesOK, HistoryOK, RunsOK, BoundsOK
<1> QED
  BY <1>2, <1>3

LEMMA LearnsTypes == ASSUME Base, NEW c \in Callers, Learns(c) PROVE Base'
<1> USE Parts, PartsAfter DEF Base
<1>1. call[c].at = "learn" /\ call[c] \in Hand /\ call[c].label \in Labels
  BY DEF Learns, CallsOK
<1>2. CallsOK'
  BY <1>1, CallGoesOn DEF Learns
<1>3. PICK m \in call[c].mails, serves \in BOOLEAN :
        LET l == call[c].label
            teaches == serves /\ call[c].teaches /\ call[c].had # call[c].on
            whom == <<l, Sender[m]>>
        IN  /\ barred' = IF ~teaches THEN barred
                         ELSE IF call[c].on THEN barred \ {whom} ELSE barred \union {whom}
            /\ log' = Marked(c, log) /\ notes' = Marked(c, notes)
            /\ IF teaches /\ ~call[c].on /\ Changing(l) = {c}
               THEN /\ takenOff' = takenOff \union {whom}
                    /\ run' = [q \in Runners |-> IF run[q].mail = Nobody THEN run[q]
                                                  ELSE [run[q] EXCEPT !.unaware = TRUE]]
               ELSE UNCHANGED <<takenOff, run>>
  BY DEF Learns
<1>4. m \in Mails /\ Sender[m] \in Senders
  BY <1>1, SenderAssumption DEF Hand
<1>5. RunsOK'
  <2>1. CASE UNCHANGED run
    BY <2>1 DEF RunsOK
  <2>2. CASE run' = [q \in Runners |-> IF run[q].mail = Nobody THEN run[q] ELSE [run[q] EXCEPT !.unaware = TRUE]]
    <3> SUFFICES ASSUME NEW q \in Runners PROVE run'[q] \in Run /\ Sound(run'[q])
      BY <2>2 DEF RunsOK
    <3>1. run[q] \in Run /\ Sound(run[q])
      BY DEF RunsOK
    <3> QED
      BY <2>2, <3>1 DEF Run, Sound
  <2> QED
    BY <1>3, <2>1, <2>2
<1>6. HistoryOK'
  BY <1>1, <1>3, <1>4 DEF HistoryOK, Learns
<1>7. NotesOK'
  <2>1. log' = Marked(c, log) /\ notes' = Marked(c, notes)
    BY DEF Learns
  <2>2. log' \subseteq Entry /\ notes' \subseteq Entry
    BY <2>1 DEF NotesOK, Entry, Marked
  <2> QED
    BY <1>1, <1>3, <1>4, <2>2 DEF NotesOK, Learns
<1> QED
  BY <1>2, <1>5, <1>6, <1>7 DEF Learns, bounds, MailsOK, BoundsOK

LEMMA DropsTypes == ASSUME Base, NEW c \in Callers, Drops(c) PROVE Base'
<1> USE Parts, PartsAfter DEF Base
<1>1. CallsOK'
  BY CallGoesOn DEF Drops
<1> QED
  BY <1>1 DEF Drops, bounds, MailsOK, NotesOK, HistoryOK, BoundsOK, RunsOK

LEMMA ByHandTypes == ASSUME Base, NEW c \in Callers, ByHand(c) PROVE Base'
  BY BeginsTypes, SendsTypes, FollowsTypes, LearnsTypes, DropsTypes DEF ByHand, Base, Sends, store

LEMMA ElseTypes ==
  ASSUME Base,
         \/ \E mails \in SUBSET Mails : Arrives(mails)
         \/ TakesBatch
         \/ \E way \in {"ai", "cheap"} : Switches(way)
         \/ \E n \in 1..logged : Ages(n)
         \/ \E m \in Mails : Syncs(m)
         \/ Quit
  PROVE  Base'
<1> USE Parts, PartsAfter DEF Base
<1>1. ASSUME NEW mails \in SUBSET Mails, Arrives(mails) PROVE Base'
  BY <1>1 DEF Arrives, store, bounds, history, MailsOK, NotesOK, BoundsOK, HistoryOK, RunsOK, CallsOK
<1>2. CASE TakesBatch
  <2>1. RunsOK'
    <3>1. PICK mails \in queue :
              \/ UNCHANGED run
              \/ \E usable \in {ways, ways \ {"ai"}} :
                    run' = [run EXCEPT ![Worker] = [NoRun EXCEPT !.at = "next", !.todo = mails, !.list = labels,
                                                                 !.ways = usable]]
      BY <1>2 DEF TakesBatch
    <3>2. CASE UNCHANGED run
      BY <3>2 DEF RunsOK
    <3>3. ASSUME NEW usable \in {ways, ways \ {"ai"}},
                 run' = [run EXCEPT ![Worker] = [NoRun EXCEPT !.at = "next", !.todo = mails, !.list = labels,
                                                              !.ways = usable]]
          PROVE  RunsOK'
      <4> DEFINE x == [NoRun EXCEPT !.at = "next", !.todo = mails, !.list = labels, !.ways = usable]
      <4>1. x \in Run /\ Sound(x)
        BY <3>1, NoRunIsRun DEF Run, NoRun, Sound, MailsOK, NotesOK
      <4>2. Worker \in Runners
        BY DEF Runners
      <4>3. run' = [run EXCEPT ![Worker] = x]
        BY <3>3
      <4> HIDE DEF x
      <4> QED
        BY <4>1, <4>2, <4>3, RunChanges
    <3> QED
      BY <3>1, <3>2, <3>3
  <2> QED
    BY <1>2, <2>1 DEF TakesBatch, store, bounds, history, MailsOK, NotesOK, BoundsOK, HistoryOK, CallsOK
<1>3. ASSUME NEW way \in {"ai", "cheap"}, Switches(way) PROVE Base'
  BY <1>3 DEF Switches, store, history, MailsOK, NotesOK, BoundsOK, HistoryOK, RunsOK, CallsOK
<1>6. ASSUME NEW n \in 1..logged, Ages(n) PROVE Base'
  BY <1>6 DEF Ages, store, bounds, history, MailsOK, NotesOK, BoundsOK, HistoryOK, RunsOK, CallsOK
<1>4. ASSUME NEW m \in Mails, Syncs(m) PROVE Base'
  BY <1>4 DEF Syncs, bounds, history, MailsOK, NotesOK, BoundsOK, HistoryOK, RunsOK, CallsOK
<1>5. CASE Quit
  <2>1. RunsOK'
    BY <1>5, NoRunIsRun DEF Quit, RunsOK
  <2>2. CallsOK'
    BY <1>5, NoCallIsHand DEF Quit, CallsOK, NoCall
  <2> QED
    BY <1>5, <2>1, <2>2, BoundsType DEF Quit, store, MailsOK, NotesOK, HistoryOK
<1> QED
  BY <1>1, <1>2, <1>3, <1>4, <1>5, <1>6

LEMMA BaseStays == ASSUME Base, UNCHANGED vars PROVE Base'
  BY Parts, PartsAfter DEF Base, vars, bounds, history, MailsOK, NotesOK, BoundsOK, HistoryOK, RunsOK, CallsOK

LEMMA BaseStep == ASSUME Base, [Next]_vars PROVE Base'
  BY LabellingTypes, ByHandTypes, ElseTypes, BaseStays DEF Next

LEMMA InitBase == Init => Base
  BY InitTypes DEF Base

LEMMA AlwaysBase == Spec => []Base
  BY InitBase, BaseStep, PTL DEF Spec

\* The types of AutoLabels hold.
THEOREM TypesHold == Spec => []TypeOK
<1>1. Base => TypeOK
  BY DEF Base
<1> QED
  BY <1>1, AlwaysBase, PTL

-----------------------------------------------------------------------------
(***************************************************************************)
(* What a run knows: of the labels it may put on a mail, one the person    *)
(* took off mail of the sender is there by a rule of the label, or was     *)
(* taken off after the mail was read; and what others put on the mail      *)
(* leaves the room the run counted, unless it is crossed.                  *)
(***************************************************************************)
Wary(x, off) ==
    x.mail # Nobody =>
        \A l \in x.may : <<l, Sender[x.mail]>> \in off /\ <<x.mail, l>> \notin Ruled => x.unaware
Roomy(x, on) ==
    x.mail # Nobody /\ ~x.crossed =>
        x.room = 0 \/ Cardinality((on[x.mail] \ x.done) \cap x.list) + x.room <= AtMost
RunsKnow == \A r \in Runners : Wary(run[r], takenOff) /\ Roomy(run[r], server)
\* A label that is put on again has been forgotten as taken off when the server has followed.
PutOnAgain ==
    \A c \in Callers : call[c].on /\ call[c].at \in {"kept", "learn"} =>
        \A m \in call[c].mails : <<call[c].label, Sender[m]>> \notin takenOff
Known == takenOff \subseteq barred /\ PutOnAgain /\ RunsKnow

LEMMA InitKnown == Init => Known
  BY DEF Init, Known, PutOnAgain, RunsKnow, Wary, Roomy, NoRun, NoCall

\* A run without a mail knows all there is to know.
LEMMA OnwardKnows ==
  ASSUME RunsKnow, NEW r \in Runners, NEW x, run' = Onward(r, x) \/ run' = [run EXCEPT ![r] = NoRun],
         RunsOK, UNCHANGED <<takenOff, server>>
  PROVE  RunsKnow'
<1> SUFFICES ASSUME NEW q \in Runners PROVE Wary(run'[q], takenOff) /\ Roomy(run'[q], server)
  BY DEF RunsKnow
<1>1. CASE q = r
  <2> DEFINE y == IF x.todo = {} THEN NoRun
                  ELSE [NoRun EXCEPT !.at = "next", !.todo = x.todo, !.list = x.list, !.ways = x.ways]
  <2>1. y.mail = Nobody /\ NoRun.mail = Nobody
    BY DEF NoRun
  <2>2. run' = [run EXCEPT ![r] = y] \/ run' = [run EXCEPT ![r] = NoRun]
    BY DEF Onward
  <2> HIDE DEF y
  <2>3. run'[q].mail = Nobody
    BY <1>1, <2>1, <2>2 DEF RunsOK
  <2> QED
    BY <2>3 DEF Wary, Roomy
<1>2. CASE q # r
  BY <1>2 DEF Onward, RunsOK, RunsKnow
<1> QED
  BY <1>1, <1>2

LEMMA ReadsKnows == ASSUME Base, Known, NEW r \in Runners, Reads(r) PROVE RunsKnow'
<1> USE Parts DEF Base
<1>1. PICK m \in run[r].todo, left \in BOOLEAN :
            \/ run' = [run EXCEPT ![r] = NoRun]
            \/ \E sure \in SUBSET Sure(r, m), doubt \in SUBSET Open(r, m) :
                  Cardinality(sure) <= Room(r, m) /\ AfterReading(r, Mine(r, m, left), sure, doubt)
  BY ReadsGives
<1> DEFINE mine == Mine(r, m, left)
<1>2. m \in Mails /\ run[r] \in Run /\ Sound(run[r]) /\ run[r].at = "next"
  BY DEF RunsOK, Run, Reads
<1>3. UNCHANGED <<takenOff, server>>
  BY DEF Reads, history
<1>4. mine.mail = m /\ mine.done = {} /\ mine.room = Room(r, m) /\ mine.list = run[r].list
      /\ (~mine.crossed => here[m] = server[m])
  BY <1>2 DEF Run, Sound, Mine, Still
<1>5. CASE run' = [run EXCEPT ![r] = NoRun]
  BY <1>3, <1>5, OnwardKnows DEF Known
<1>6. ASSUME NEW sure \in SUBSET Sure(r, m), NEW doubt \in SUBSET Open(r, m), AfterReading(r, mine, sure, doubt)
      PROVE  RunsKnow'
  <2> DEFINE x == [mine EXCEPT !.at = IF doubt = {} THEN "put" ELSE "ask", !.found = sure, !.may = sure \union doubt]
  <2>1. x.mail = m /\ x.may = sure \union doubt /\ x.done = {} /\ x.room = Room(r, m) /\ x.list = run[r].list
        /\ (~x.crossed => here[m] = server[m])
    BY <1>2, <1>4 DEF Run
  <2>2. run' = Onward(r, mine) \/ run' = [run EXCEPT ![r] = x]
    BY <1>6 DEF AfterReading
  <2> HIDE DEF mine, x
  <2>3. CASE run' = Onward(r, mine)
    BY <2>3, <1>3, OnwardKnows DEF Known
  <2>4. CASE run' = [run EXCEPT ![r] = x]
    <3>1. Wary(x, takenOff)
      <4> SUFFICES ASSUME NEW l \in sure \union doubt, <<l, Sender[m]>> \in takenOff PROVE <<m, l>> \in Ruled
        BY <2>1 DEF Wary
      <4>1. <<l, Sender[m]>> \in barred
        BY DEF Known
      <4>2. l \notin Open(r, m)
        BY <4>1 DEF Open
      <4>3. l \in Sure(r, m)
        BY <4>2
      <4> QED
        BY <4>2, <4>3 DEF Sure
    <3>2. Roomy(x, server)
      <4> SUFFICES ASSUME ~x.crossed, x.room # 0
                   PROVE  Cardinality((server[m] \ {}) \cap run[r].list) + Room(r, m) <= AtMost
        BY <2>1 DEF Roomy
      <4> DEFINE n == Cardinality(here[m] \cap run[r].list)
      <4>1. n \in Nat
        BY <1>2, SomeLabels DEF MailsOK, Run
      <4>2. Room(r, m) = IF n < AtMost THEN AtMost - n ELSE 0
        BY DEF Room
      <4>3. Cardinality((server[m] \ {}) \cap run[r].list) = n
        <5>1. (server[m] \ {}) \cap run[r].list = here[m] \cap run[r].list
          BY <2>1
        <5> QED
          BY <5>1
      <4> HIDE DEF n
      <4> QED
        BY <2>1, <4>1, <4>2, <4>3 DEF AtMost
    <3> QED
      BY <1>3, <2>4, <3>1, <3>2 DEF RunsKnow, RunsOK, Known
  <2> QED
    BY <2>2, <2>3, <2>4
<1> QED
  BY <1>1, <1>5, <1>6

LEMMA AnswersKnows == ASSUME Base, Known, NEW r \in Runners, Answers(r) \/ AnswerFails(r) PROVE RunsKnow'
<1> USE Parts DEF Base
<1>1. run[r] \in Run /\ UNCHANGED <<takenOff, server>>
  BY DEF RunsOK, Answers, AnswerFails, history
<1>2. ASSUME NEW at, NEW found, run' = [run EXCEPT ![r].at = at] \/ run' = [run EXCEPT ![r].at = at, ![r].found = found]
      PROVE  RunsKnow'
  <2> SUFFICES ASSUME NEW q \in Runners PROVE Wary(run'[q], takenOff) /\ Roomy(run'[q], server)
    BY <1>1 DEF RunsKnow
  <2>1. Wary(run[q], takenOff) /\ Roomy(run[q], server) /\ run[q] \in Run
    BY DEF Known, RunsKnow, RunsOK
  <2>2. /\ run'[q].mail = run[q].mail /\ run'[q].may = run[q].may /\ run'[q].unaware = run[q].unaware
        /\ run'[q].crossed = run[q].crossed /\ run'[q].done = run[q].done /\ run'[q].list = run[q].list
        /\ run'[q].room = run[q].room
    BY <1>2, <2>1 DEF RunsOK, Run
  <2> QED
    BY <2>1, <2>2 DEF Wary, Roomy
<1>3. CASE Answers(r)
  <2>1. PICK found \in SUBSET run[r].may :
            run' = IF found = {} THEN Onward(r, run[r]) ELSE [run EXCEPT ![r].at = "put", ![r].found = found]
    BY <1>3 DEF Answers
  <2> QED
    BY <1>1, <1>2, <2>1, OnwardKnows DEF Known
<1>4. CASE AnswerFails(r)
  BY <1>1, <1>2, <1>4, OnwardKnows DEF Known, AnswerFails
<1> QED
  BY <1>3, <1>4

\* Other runs at a mail that changes on the server are crossed.
LEMMA CrossesKnows ==
  ASSUME Base, RunsKnow, NEW mails, NEW q \in Runners, NEW on, NEW off, off \subseteq takenOff,
         \A m \in Mails \ mails : on[m] = server[m]
  PROVE  Wary(Crosses(mails)[q], off) /\ Roomy(Crosses(mails)[q], on)
<1> USE Parts DEF Base
<1>1. run[q] \in Run /\ Wary(run[q], takenOff) /\ Roomy(run[q], server)
  BY DEF RunsOK, RunsKnow
<1>2. CASE run[q].mail \in mails
  <2> DEFINE x == [run[q] EXCEPT !.crossed = TRUE]
  <2>1. x.mail = run[q].mail /\ x.may = run[q].may /\ x.unaware = run[q].unaware /\ x.crossed
    BY <1>1 DEF Run
  <2>2. Crosses(mails)[q] = x
    BY <1>2 DEF Crosses
  <2> HIDE DEF x
  <2> QED
    BY <1>1, <2>1, <2>2 DEF Wary, Roomy
<1>3. CASE run[q].mail \notin mails
  <2>1. run[q].mail # Nobody => on[run[q].mail] = server[run[q].mail]
    BY <1>1, <1>3 DEF Run
  <2>2. Crosses(mails)[q] = run[q]
    BY <1>3 DEF Crosses
  <2> QED
    BY <1>1, <2>1, <2>2 DEF Wary, Roomy
<1> QED
  BY <1>2, <1>3

LEMMA PutsOnKnows == ASSUME Base, Known, NEW r \in Runners, PutsOn(r) PROVE RunsKnow'
<1> USE Parts DEF Base
<1> DEFINE m == run[r].mail
<1>1. PICK ks \in SUBSET (run[r].found \ run[r].done) :
            /\ server' = [server EXCEPT ![m] = @ \union ks]
            /\ run' = [Crosses({m}) EXCEPT
                           ![r] = [run[r] EXCEPT !.done = @ \union ks,
                                                 !.at = IF run[r].done \union ks = run[r].found THEN "kept" ELSE "put"]]
  BY DEF PutsOn
<1>2. run[r] \in Run /\ Sound(run[r]) /\ m \in Mails
  BY DEF RunsOK, PutsOn, Sound
<1>3. UNCHANGED takenOff
  BY DEF PutsOn
<1> DEFINE x == [run[r] EXCEPT !.done = @ \union ks,
                               !.at = IF run[r].done \union ks = run[r].found THEN "kept" ELSE "put"]
<1>4. run' = [Crosses({m}) EXCEPT ![r] = x]
  BY <1>1
<1>5. Wary(x, takenOff) /\ Roomy(x, server')
  <2>1. Wary(run[r], takenOff) /\ Roomy(run[r], server)
    BY DEF Known, RunsKnow
  <2>2. /\ x.mail = m /\ x.may = run[r].may /\ x.unaware = run[r].unaware /\ x.crossed = run[r].crossed
        /\ x.done = run[r].done \union ks /\ x.list = run[r].list /\ x.room = run[r].room
    BY <1>2 DEF Run
  <2>3. server'[m] = server[m] \union ks
    BY <1>1, <1>2 DEF MailsOK
  <2> DEFINE S == (server[m] \ run[r].done) \cap run[r].list
             T == (server'[m] \ x.done) \cap run[r].list
  <2>4. T \subseteq S /\ S \in SUBSET Labels
    BY <1>2, <2>2, <2>3 DEF Run
  <2>5. Cardinality(T) <= Cardinality(S) /\ Cardinality(S) \in Nat /\ Cardinality(T) \in Nat
    BY <2>4, SomeLabels, FS_Subset
  <2>6. run[r].room \in Nat
    BY <1>2 DEF Run
  <2> HIDE DEF x
  <2>7. Wary(x, takenOff)
    BY <2>1, <2>2 DEF Wary
  <2>8. Roomy(x, server')
    <3> SUFFICES ASSUME ~run[r].crossed, run[r].room # 0 PROVE Cardinality(T) + run[r].room <= AtMost
      BY <2>2 DEF Roomy
    <3>1. m # Nobody
      BY <1>2, NamesAssumption
    <3>2. Cardinality(S) + run[r].room <= AtMost
      BY <2>1, <3>1 DEF Roomy
    <3> HIDE DEF S, T
    <3> QED
      BY <2>5, <2>6, <3>2 DEF AtMost
  <2> QED
    BY <2>7, <2>8
<1>6. \A o \in Mails \ {m} : server'[o] = server[o]
  BY <1>1 DEF MailsOK
<1> HIDE DEF x, m
<1> SUFFICES ASSUME NEW q \in Runners PROVE Wary(run'[q], takenOff) /\ Roomy(run'[q], server')
  BY <1>3 DEF RunsKnow
<1>7. CASE q = r
  BY <1>4, <1>5, <1>7 DEF Crosses
<1>8. CASE q # r
  <2>1. run'[q] = Crosses({m})[q]
    BY <1>4, <1>8
  <2>2. Wary(Crosses({m})[q], takenOff) /\ Roomy(Crosses({m})[q], server')
    BY <1>6, CrossesKnows DEF Known
  <2> QED
    BY <2>1, <2>2
<1> QED
  BY <1>7, <1>8

LEMMA LabellingKnows == ASSUME Base, Known, NEW r \in Runners, Labelling(r) PROVE Known'
<1> USE Parts DEF Base
<1>1. RunsKnow'
  <2>1. CASE PutFails(r) \/ Logs(r)
    BY <2>1, OnwardKnows DEF PutFails, Logs, Known, history
  <2> QED
    BY <2>1, ReadsKnows, AnswersKnows, PutsOnKnows DEF Labelling
<1>2. UNCHANGED <<barred, takenOff, call>>
  BY DEF Labelling, Reads, Answers, AnswerFails, PutsOn, PutFails, Logs, store, history
<1> QED
  BY <1>1, <1>2 DEF Known, PutOnAgain

\* What the person does by hand.
LEMMA BeginsKnows ==
  ASSUME Base, Known, NEW c \in Callers,
         \/ \E m \in Mails, l \in Labels, on \in BOOLEAN : SetsKeyword(c, m, l, on)
         \/ \E e \in log : Undoes(c, e)
         \/ \E l \in Labels : Deletes(c, l)
  PROVE  Known'
<1> USE Parts DEF Base
<1>1. call'[c].at \in {"send", "drop"} /\ \A d \in Callers \ {c} : call'[d] = call[d]
  <2>1. ASSUME NEW m \in Mails, NEW l \in Labels, NEW on \in BOOLEAN, SetsKeyword(c, m, l, on)
        PROVE  call'[c].at = "send" /\ \A d \in Callers \ {c} : call'[d] = call[d]
    BY <2>1 DEF SetsKeyword, NoCall, CallsOK
  <2>2. ASSUME NEW e \in log, Undoes(c, e)
        PROVE  call'[c].at = "send" /\ \A d \in Callers \ {c} : call'[d] = call[d]
    BY <2>2 DEF Undoes, NoCall, CallsOK
  <2>3. ASSUME NEW l \in Labels, Deletes(c, l)
        PROVE  call'[c].at \in {"send", "drop"} /\ \A d \in Callers \ {c} : call'[d] = call[d]
    BY <2>3 DEF Deletes, NoCall, CallsOK
  <2> QED
    BY <2>1, <2>2, <2>3
<1>2. UNCHANGED <<barred, takenOff, server, run>>
  BY DEF SetsKeyword, Undoes, Deletes, store, history
<1>3. PutOnAgain'
  BY <1>1, <1>2 DEF PutOnAgain, Known, CallsOK
<1> QED
  BY <1>2, <1>3 DEF Known, RunsKnow

LEMMA AppliesKnows == ASSUME Base, Known, NEW c \in Callers, NEW m \in Mails, Applies(c, m) PROVE Known'
<1> USE Parts DEF Base
<1> DEFINE x == [NoRun EXCEPT !.at = "next", !.todo = {m}, !.list = labels, !.ways = ways \union {"ai"}]
<1>1. x.mail = Nobody
  BY DEF NoRun
<1>2. run' = [run EXCEPT ![c] = x] /\ UNCHANGED <<server, barred, call, takenOff>>
  BY DEF Applies, store, history
<1> HIDE DEF x
<1>3. RunsKnow'
  BY <1>1, <1>2 DEF Known, RunsKnow, RunsOK, Wary, Roomy
<1> QED
  BY <1>2, <1>3 DEF Known, PutOnAgain

LEMMA SendsKnows == ASSUME Base, Known, NEW c \in Callers, Sends(c) PROVE Known'
<1> USE Parts DEF Base
<1> DEFINE l == call[c].label
           out == {<<l, Sender[m]>> : m \in call[c].mails}
<1>1. /\ takenOff' = IF call[c].on THEN takenOff \ out ELSE takenOff
      /\ barred' = barred /\ run' = Crosses(call[c].mails) /\ call' = [call EXCEPT ![c].at = "kept"]
  BY DEF Sends, store
<1>2. takenOff' \subseteq takenOff
  BY <1>1
<1>3. \A m \in Mails \ call[c].mails : server'[m] = server[m]
  BY DEF Sends
<1>4. RunsKnow'
  <2> SUFFICES ASSUME NEW q \in Runners PROVE Wary(run'[q], takenOff') /\ Roomy(run'[q], server')
    BY DEF RunsKnow
  <2>0. PICK off, on, mails : off = takenOff' /\ on = server' /\ mails = call[c].mails
    OBVIOUS
  <2>1. off \subseteq takenOff /\ \A m \in Mails \ mails : on[m] = server[m]
    BY <1>2, <1>3, <2>0
  <2>2. Wary(Crosses(mails)[q], off) /\ Roomy(Crosses(mails)[q], on)
    BY <2>1, CrossesKnows DEF Known
  <2> QED
    BY <1>1, <2>0, <2>2
<1>5. PutOnAgain'
  <2> SUFFICES ASSUME NEW d \in Callers, call'[d].on, call'[d].at \in {"kept", "learn"}, NEW m \in call'[d].mails
               PROVE  <<call'[d].label, Sender[m]>> \notin takenOff'
    BY DEF PutOnAgain
  <2>1. call[d] \in Hand
    BY DEF CallsOK
  <2>2. call'[d].on = call[d].on /\ call'[d].mails = call[d].mails /\ call'[d].label = call[d].label
    BY <1>1, <2>1 DEF CallsOK, Hand
  <2>3. CASE d = c
    BY <1>1, <2>2, <2>3
  <2>4. CASE d # c
    BY <1>1, <1>2, <2>2, <2>4 DEF Known, PutOnAgain
  <2> QED
    BY <2>3, <2>4
<1> QED
  BY <1>1, <1>2, <1>4, <1>5 DEF Known

LEMMA FollowsKnows == ASSUME Base, Known, NEW c \in Callers, SendFails(c) \/ Stores(c) PROVE Known'
<1> USE Parts DEF Base
<1>1. UNCHANGED <<barred, takenOff, server, run>>
  BY DEF SendFails, Stores, store, history
<1>2. call[c] \in Hand
  BY DEF CallsOK
<1>3. PutOnAgain'
  <2> SUFFICES ASSUME NEW d \in Callers, call'[d].on, call'[d].at \in {"kept", "learn"}, NEW m \in call'[d].mails
               PROVE  <<call'[d].label, Sender[m]>> \notin takenOff
    BY <1>1 DEF PutOnAgain
  <2>1. CASE d # c
    BY <2>1 DEF SendFails, Stores, Known, PutOnAgain, CallsOK
  <2>2. CASE d = c /\ SendFails(c)
    BY <1>2, <2>2 DEF SendFails, CallsOK, Hand, NoCall
  <2>3. CASE d = c /\ Stores(c)
    <3>1. call'[d].on = call[d].on /\ call'[d].mails = call[d].mails /\ call'[d].label = call[d].label
          /\ call[d].at = "kept"
      BY <1>2, <2>3 DEF Stores, CallsOK, Hand
    <3> QED
      BY <3>1 DEF Known, PutOnAgain
  <2> QED
    BY <2>1, <2>2, <2>3
<1> QED
  BY <1>1, <1>3 DEF Known, RunsKnow

\* A label is learned to be left alone by one call at a time.
LEMMA LearnsKnows == ASSUME Base, Known, NEW c \in Callers, Learns(c) PROVE Known'
<1> USE Parts DEF Base
<1> DEFINE l == call[c].label
<1>1. call[c].at = "learn" /\ call[c] \in Hand /\ call' = [call EXCEPT ![c] = NoCall] /\ UNCHANGED server
  BY DEF Learns, CallsOK
<1>2. PICK m \in call[c].mails, serves \in BOOLEAN :
        LET teaches == serves /\ call[c].teaches /\ call[c].had # call[c].on
            whom == <<l, Sender[m]>>
        IN  /\ barred' = IF ~teaches THEN barred
                         ELSE IF call[c].on THEN barred \ {whom} ELSE barred \union {whom}
            /\ IF teaches /\ ~call[c].on /\ Changing(l) = {c}
               THEN /\ takenOff' = takenOff \union {whom}
                    /\ run' = [q \in Runners |-> IF run[q].mail = Nobody THEN run[q]
                                                  ELSE [run[q] EXCEPT !.unaware = TRUE]]
               ELSE UNCHANGED <<takenOff, run>>
  BY DEF Learns
<1> DEFINE whom == <<l, Sender[m]>>
<1>3. takenOff' \subseteq barred'
  <2>1. CASE call[c].on
    <3>1. whom \notin takenOff
      BY <1>1, <2>1 DEF Known, PutOnAgain
    <3>2. takenOff' = takenOff /\ barred \ {whom} \subseteq barred'
      BY <1>2, <2>1
    <3> QED
      BY <3>1, <3>2 DEF Known
  <2>2. CASE ~call[c].on
    BY <1>2, <2>2 DEF Known
  <2> QED
    BY <2>1, <2>2
<1>4. PutOnAgain'
  <2> SUFFICES ASSUME NEW d \in Callers, call'[d].on, call'[d].at \in {"kept", "learn"}, NEW o \in call'[d].mails
               PROVE  <<call'[d].label, Sender[o]>> \notin takenOff'
    BY DEF PutOnAgain
  <2>1. d # c /\ call'[d] = call[d]
    BY <1>1 DEF CallsOK, NoCall
  <2>2. <<call[d].label, Sender[o]>> \notin takenOff
    BY <2>1 DEF Known, PutOnAgain
  <2>3. CASE takenOff' = takenOff
    BY <2>1, <2>2, <2>3
  <2>4. CASE takenOff' = takenOff \union {whom} /\ Changing(l) = {c}
    <3>1. call[d].label # l
      BY <2>1, <2>4 DEF Changing
    <3> QED
      BY <2>1, <2>2, <2>4, <3>1
  <2> QED
    BY <1>2, <2>3, <2>4
<1>5. RunsKnow'
  <2> SUFFICES ASSUME NEW q \in Runners PROVE Wary(run'[q], takenOff') /\ Roomy(run'[q], server)
    BY <1>1 DEF RunsKnow
  <2>1. Wary(run[q], takenOff) /\ Roomy(run[q], server) /\ run[q] \in Run
    BY DEF Known, RunsKnow, RunsOK
  <2>2. CASE UNCHANGED <<takenOff, run>>
    BY <2>1, <2>2
  <2>3. CASE run' = [o \in Runners |-> IF run[o].mail = Nobody THEN run[o] ELSE [run[o] EXCEPT !.unaware = TRUE]]
    <3>1. CASE run[q].mail = Nobody
      BY <2>3, <3>1 DEF Wary, Roomy
    <3>2. CASE run[q].mail # Nobody
      <4> DEFINE x == [run[q] EXCEPT !.unaware = TRUE]
      <4>1. x.unaware /\ x.mail = run[q].mail /\ x.crossed = run[q].crossed /\ x.done = run[q].done
            /\ x.list = run[q].list /\ x.room = run[q].room
        BY <2>1 DEF Run
      <4>2. run'[q] = x
        BY <2>3, <3>2
      <4> HIDE DEF x
      <4> QED
        BY <2>1, <4>1, <4>2 DEF Wary, Roomy
    <3> QED
      BY <3>1, <3>2
  <2> QED
    BY <1>2, <2>2, <2>3
<1> QED
  BY <1>3, <1>4, <1>5 DEF Known

LEMMA DropsKnows == ASSUME Base, Known, NEW c \in Callers, Drops(c) PROVE Known'
<1> USE Parts DEF Base
<1>1. /\ takenOff' \subseteq takenOff /\ takenOff' \subseteq barred'
      /\ call' = [call EXCEPT ![c] = NoCall] /\ UNCHANGED <<server, run>>
  BY DEF Drops, Known
<1>2. PutOnAgain'
  BY <1>1 DEF Known, PutOnAgain, CallsOK, NoCall
<1>3. RunsKnow'
  BY <1>1 DEF Known, RunsKnow, Wary
<1> QED
  BY <1>1, <1>2, <1>3 DEF Known

LEMMA ByHandKnows == ASSUME Base, Known, NEW c \in Callers, ByHand(c) PROVE Known'
  BY BeginsKnows, AppliesKnows, SendsKnows, FollowsKnows, LearnsKnows, DropsKnows DEF ByHand

LEMMA ElseKnows ==
  ASSUME Base, Known,
         \/ \E mails \in SUBSET Mails : Arrives(mails)
         \/ TakesBatch
         \/ \E way \in {"ai", "cheap"} : Switches(way)
         \/ \E n \in 1..logged : Ages(n)
         \/ \E m \in Mails : Syncs(m)
         \/ Quit
         \/ UNCHANGED vars
  PROVE  Known'
<1> USE Parts DEF Base
<1>1. UNCHANGED <<takenOff, barred, server>>
  BY DEF Arrives, TakesBatch, Switches, Ages, Syncs, Quit, vars, store, history
<1>2. \A q \in Runners : run'[q] = run[q] \/ run'[q].mail = Nobody
  <2>1. CASE TakesBatch
    <3> SUFFICES ASSUME NEW q \in Runners PROVE run'[q] = run[q] \/ run'[q].mail = Nobody
      OBVIOUS
    <3>1. PICK mails \in queue :
              \/ UNCHANGED run
              \/ \E usable \in {ways, ways \ {"ai"}} :
                    run' = [run EXCEPT ![Worker] = [NoRun EXCEPT !.at = "next", !.todo = mails, !.list = labels,
                                                                 !.ways = usable]]
      BY <2>1 DEF TakesBatch
    <3> QED
      BY <3>1 DEF RunsOK, NoRun
  <2>2. CASE Quit
    BY <2>2 DEF Quit, NoRun
  <2> QED
    BY <2>1, <2>2 DEF Arrives, Switches, Ages, Syncs, vars
<1>3. \A c \in Callers : call'[c] = call[c] \/ call'[c].at = "idle"
  <2>1. CASE Quit
    BY <2>1 DEF Quit, NoCall
  <2>2. CASE ~Quit
    BY <2>2 DEF Arrives, TakesBatch, Switches, Ages, Syncs, vars
  <2> QED
    BY <2>1, <2>2
<1>4. RunsKnow'
  BY <1>1, <1>2 DEF Known, RunsKnow, Wary, Roomy
<1>5. PutOnAgain'
  BY <1>1, <1>3 DEF Known, PutOnAgain
<1> QED
  BY <1>1, <1>4, <1>5 DEF Known

LEMMA KnownStep == ASSUME Base, Known, [Next]_vars PROVE Known'
  BY LabellingKnows, ByHandKnows, ElseKnows DEF Next

LEMMA AlwaysKnown == Spec => [](Base /\ Known)
  BY InitBase, InitKnown, BaseStep, KnownStep, PTL DEF Spec

-----------------------------------------------------------------------------
\* Only a request that puts labels on adds to what a run has put on.
LEMMA OnlyPutsOn == ASSUME Base, [Next]_vars, NEW r \in Runners, ~PutsOn(r) PROVE run'[r].done \subseteq run[r].done
<1> USE Parts DEF Base
<1>1. run[r] \in Run /\ Sound(run[r])
  BY DEF RunsOK
<1>2. ASSUME NEW q \in Runners, NEW x, run' = Onward(q, x) \/ run' = [run EXCEPT ![q] = NoRun]
      PROVE  run'[r].done \subseteq run[r].done
  <2> DEFINE y == IF x.todo = {} THEN NoRun
                  ELSE [NoRun EXCEPT !.at = "next", !.todo = x.todo, !.list = x.list, !.ways = x.ways]
  <2>1. y.done = {} /\ NoRun.done = {}
    BY DEF NoRun
  <2>2. run' = [run EXCEPT ![q] = y] \/ run' = [run EXCEPT ![q] = NoRun]
    BY <1>2 DEF Onward
  <2> HIDE DEF y
  <2> QED
    BY <2>1, <2>2 DEF RunsOK
<1>3. ASSUME NEW q \in Runners, Reads(q) PROVE run'[r].done \subseteq run[r].done
  <2>1. PICK m \in run[q].todo, left \in BOOLEAN :
              \/ run' = [run EXCEPT ![q] = NoRun]
              \/ \E sure \in SUBSET Sure(q, m), doubt \in SUBSET Open(q, m) : AfterReading(q, Mine(q, m, left), sure, doubt)
    BY <1>3, ReadsGives
  <2>2. ASSUME NEW sure, NEW doubt, AfterReading(q, Mine(q, m, left), sure, doubt)
        PROVE  run'[r].done \subseteq run[r].done
    <3> DEFINE x == [Mine(q, m, left) EXCEPT !.at = IF doubt = {} THEN "put" ELSE "ask",
                                             !.found = sure, !.may = sure \union doubt]
    <3>1. x.done = run[q].done
      BY DEF Mine, RunsOK, Run
    <3>2. run' = Onward(q, Mine(q, m, left)) \/ run' = [run EXCEPT ![q] = x]
      BY <2>2 DEF AfterReading
    <3> HIDE DEF x
    <3>3. CASE run' = [run EXCEPT ![q] = x]
      BY <3>1, <3>3 DEF RunsOK
    <3> QED
      BY <1>2, <3>2, <3>3
  <2> QED
    BY <1>2, <2>1, <2>2
<1>4. ASSUME NEW q \in Runners, Answers(q) \/ AnswerFails(q) PROVE run'[r].done \subseteq run[r].done
  <2>1. ASSUME NEW at, NEW found, run' = [run EXCEPT ![q].at = at] \/ run' = [run EXCEPT ![q].at = at, ![q].found = found]
        PROVE  run'[r].done = run[r].done
    BY <1>1, <2>1 DEF RunsOK, Run
  <2>2. CASE Answers(q)
    BY <1>2, <2>1, <2>2 DEF Answers
  <2>3. CASE AnswerFails(q)
    BY <1>2, <2>1, <2>3 DEF AnswerFails
  <2> QED
    BY <1>4, <2>2, <2>3
<1>5. ASSUME NEW mails PROVE Crosses(mails)[r].done = run[r].done
  BY <1>1 DEF Crosses, Run
<1>6. ASSUME NEW q \in Runners, PutsOn(q) PROVE run'[r].done \subseteq run[r].done
  <2>1. run'[r] = Crosses({run[q].mail})[r]
    BY <1>6 DEF PutsOn, Crosses
  <2> QED
    BY <1>5, <2>1
<1>7. ASSUME NEW q \in Runners, PutFails(q) \/ Logs(q) PROVE run'[r].done \subseteq run[r].done
  BY <1>2, <1>7 DEF PutFails, Logs
<1>8. ASSUME NEW c \in Callers, ByHand(c) PROVE run'[r].done \subseteq run[r].done
  <2>1. ASSUME NEW m \in Mails, Applies(c, m) PROVE run'[r].done \subseteq run[r].done
    BY <2>1 DEF Applies, RunsOK, NoRun
  <2>2. CASE Sends(c)
    BY <1>5, <2>2 DEF Sends
  <2>3. CASE Learns(c)
    <3>1. \/ run' = run
          \/ run' = [q \in Runners |-> IF run[q].mail = Nobody THEN run[q] ELSE [run[q] EXCEPT !.unaware = TRUE]]
      BY <2>3 DEF Learns
    <3> QED
      BY <1>1, <3>1 DEF Run
  <2> QED
    BY <1>8, <2>1, <2>2, <2>3 DEF ByHand, SetsKeyword, Undoes, Deletes, SendFails, Stores, Drops
<1>9. CASE TakesBatch
  BY <1>9 DEF TakesBatch, RunsOK, NoRun
<1>10. CASE Quit
  BY <1>10 DEF Quit, NoRun
<1> QED
  BY <1>3, <1>4, <1>6, <1>7, <1>8, <1>9, <1>10 DEF Next, Labelling, Arrives, Switches, Ages, Syncs, vars

\* A run puts a label on that the person took off the sender's mail only by the label's rule, or if it
\* was taken off after the run read the mail.
THEOREM OffStaysOffHolds == Spec => OffStaysOff
<1>1. ASSUME Base, Known, [Next]_vars
      PROVE  \A r \in Runners : \A l \in run'[r].done \ run[r].done :
                LET m == run[r].mail
                IN  <<l, Sender[m]>> \in takenOff /\ <<m, l>> \notin Ruled => run[r].unaware
  <2> USE Parts DEF Base
  <2> SUFFICES ASSUME NEW r \in Runners, NEW l \in run'[r].done \ run[r].done,
                      <<l, Sender[run[r].mail]>> \in takenOff, <<run[r].mail, l>> \notin Ruled
               PROVE  run[r].unaware
    OBVIOUS
  <2>1. PutsOn(r)
    BY <1>1, OnlyPutsOn
  <2>2. run[r] \in Run /\ Sound(run[r]) /\ run[r].at = "put"
    BY <1>1, <2>1 DEF RunsOK, PutsOn
  <2>3. l \in run[r].may
    <3>1. PICK ks \in SUBSET (run[r].found \ run[r].done) : run'[r].done = run[r].done \union ks
      BY <2>1, <2>2 DEF PutsOn, Crosses, Run
    <3> QED
      BY <2>2, <3>1 DEF Sound
  <2>4. run[r].mail # Nobody
    BY <2>2, NamesAssumption DEF Sound
  <2> QED
    BY <1>1, <2>3, <2>4 DEF Known, RunsKnow, Wary
<1> QED
  BY <1>1, AlwaysKnown, PTL DEF Spec, OffStaysOff

\* No run leaves a mail with more than two labels, unless another changed the mail's labels since it
\* read them.
THEOREM AtMostTwoHolds == Spec => AtMostTwo
<1>1. ASSUME Base, Known, [Next]_vars
      PROVE  \A r \in Runners : run'[r].done \ run[r].done # {} /\ ~run[r].crossed =>
                Cardinality(server'[run[r].mail] \cap run[r].list) <= AtMost
  <2> USE Parts DEF Base
  <2> SUFFICES ASSUME NEW r \in Runners, run'[r].done \ run[r].done # {}, ~run[r].crossed
               PROVE  Cardinality(server'[run[r].mail] \cap run[r].list) <= AtMost
    OBVIOUS
  <2> DEFINE m == run[r].mail
             found == run[r].found
             own == (server[m] \ run[r].done) \cap run[r].list
             all == server'[m] \cap run[r].list
  <2>1. PutsOn(r)
    BY <1>1, OnlyPutsOn
  <2>2. run[r] \in Run /\ Sound(run[r]) /\ run[r].at = "put" /\ m \in Mails
    BY <1>1, <2>1 DEF RunsOK, PutsOn, Sound
  <2>3. PICK ks \in SUBSET (found \ run[r].done) :
            run'[r].done = run[r].done \union ks /\ server' = [server EXCEPT ![m] = @ \union ks]
    BY <2>1, <2>2 DEF PutsOn, Crosses, Run
  <2>4. server'[m] = server[m] \union ks
    BY <1>1, <2>2, <2>3 DEF MailsOK
  <2>5. own \in SUBSET Labels /\ found \in SUBSET Labels /\ all \subseteq own \union found /\ found # {}
    BY <1>1, <2>2, <2>3, <2>4 DEF Sound, Run, MailsOK
  <2>6. Cardinality(found) \in Nat /\ Cardinality(found) # 0 /\ Cardinality(found) <= run[r].room
        /\ run[r].room \in Nat
    BY <2>2, <2>5, SomeLabels, FS_EmptySet DEF Sound, Run
  <2>7. Cardinality(own) + run[r].room <= AtMost
    BY <1>1, <2>2, <2>6, NamesAssumption DEF Known, RunsKnow, Roomy
  <2>8. Cardinality(own \union found) <= Cardinality(own) + Cardinality(found)
    <3>1. IsFiniteSet(own) /\ IsFiniteSet(found) /\ Cardinality(own \cap found) \in Nat /\ Cardinality(own) \in Nat
      BY <2>5, SomeLabels
    <3>2. Cardinality(own \union found) = Cardinality(own) + Cardinality(found) - Cardinality(own \cap found)
      BY <3>1, FS_Union
    <3> HIDE DEF own, found
    <3> QED
      BY <2>6, <3>1, <3>2
  <2>9. Cardinality(all) <= Cardinality(own \union found)
    <3>1. own \union found \in SUBSET Labels
      BY <2>5
    <3> QED
      BY <2>5, <3>1, SomeLabels, FS_Subset
  <2>10. Cardinality(own) \in Nat /\ Cardinality(all) \in Nat /\ Cardinality(own \union found) \in Nat
    BY <2>5, SomeLabels
  <2> HIDE DEF own, all, found
  <2> QED
    BY <2>6, <2>7, <2>8, <2>9, <2>10 DEF AtMost, all, m
<1> QED
  BY <1>1, AlwaysKnown, PTL DEF Spec, AtMostTwo

-----------------------------------------------------------------------------
(***************************************************************************)
(* That the log tells all that was put on by itself (LogTellsAll), for any *)
(* mails, labels and windows.  The entries are numbered as they come and a *)
(* call that takes one back goes by its number: the proof is that the      *)
(* number means one entry, that what still stands was told by an entry     *)
(* that nobody is taking back, and that the log forgets only what is too   *)
(* old or has LogKept entries after it.                                    *)
(***************************************************************************)

\* Every entry there ever was has a number of its own.
Numbered ==
    /\ log \subseteq notes
    /\ \A e \in notes : e.nr <= logged
    /\ \A e, f \in notes : e.nr = f.nr => e = f
\* The entry a call takes back is not one to come, and is of the label and the mail the call is about.
Earlier ==
    \A c \in Callers : call[c].op = "undo" =>
        /\ call[c].entry <= logged
        /\ \A e \in notes : e.nr = call[c].entry => e.mail \in call[c].mails /\ e.label = call[c].label
\* A label on a mail was told by an entry that isn't taken back, nor about to be.
Stands(p) ==
    \E e \in notes : /\ e.mail = p[1] /\ e.label = p[2] /\ ~e.undone /\ (e \in log \/ Outdated(e))
                     /\ \A c \in Callers : call[c].at \in {"kept", "learn"} => ~Undone(c, e)
Told == \A p \in byItself : p[2] \in labels => Stands(p) \/ \E r \in Runners : p \in Putting(r)
TellsAll == Numbered /\ Earlier /\ Told

LEMMA InitTells == Init => TellsAll
  BY DEF Init, TellsAll, Numbered, Earlier, Told, NoCall

\* What is outdated stays so.
LEMMA StaysOutdated ==
  ASSUME Base, Base', logged <= logged', aged <= aged', NEW e \in Entry, Outdated(e)
  PROVE  Outdated(e)'
<1>1. e.nr \in Nat /\ logged \in Nat /\ logged' \in Nat /\ aged \in Nat /\ aged' \in Nat
  BY DEF Entry, Base, TypeOK
<1> QED
  BY <1>1, LogKeptAssumption DEF Outdated

\* No more entries of the log came after one than there were entries after it.
LEMMA SinceCount ==
  ASSUME Base, Numbered, NEW e \in log
  PROVE  Cardinality(Since(e)) \in Nat /\ Cardinality(Since(e)) <= logged - e.nr
<1> USE Parts DEF Base
<1>1. /\ e.nr \in Nat /\ e.nr <= logged /\ logged \in Nat
      /\ \A f \in Since(e) : f.nr \in e.nr + 1..logged
  BY DEF NotesOK, Entry, Numbered, Since
<1> DEFINE T == e.nr + 1..logged
           g == [f \in Since(e) |-> f.nr]
<1>2. g \in Injection(Since(e), T)
  <2>1. g \in [Since(e) -> T]
    BY <1>1
  <2>2. \A f, h \in Since(e) : g[f] = g[h] => f = h
    BY DEF Numbered, Since
  <2> HIDE DEF g, T
  <2> QED
    BY <2>1, <2>2 DEF Injection, IsInjective
<1>3. IsFiniteSet(T) /\ Cardinality(T) = logged - e.nr
  <2>1. e.nr + 1 \in Int /\ logged \in Int /\ (e.nr + 1 > logged <=> e.nr = logged)
    BY <1>1
  <2>2. IsFiniteSet(T) /\ Cardinality(T) = IF e.nr + 1 > logged THEN 0 ELSE logged - (e.nr + 1) + 1
    BY <2>1, FS_Interval
  <2> QED
    BY <1>1, <2>1, <2>2
<1> HIDE DEF g, T
<1>4. IsFiniteSet(Since(e)) /\ Cardinality(Since(e)) <= Cardinality(T)
  BY <1>2, <1>3, FS_Injection
<1> QED
  BY <1>3, <1>4, FS_CardinalityType

\* What is logged gets numbers of its own.
LEMMA LoggedNumbers ==
  ASSUME Base, NEW m \in Mails, NEW ls \in SUBSET Labels, NEW nr \in Numbers(ls)
  PROVE  /\ Logged(m, ls, nr) \subseteq Entry
         /\ \A e \in Logged(m, ls, nr) : /\ e.nr > logged /\ e.nr <= logged + Cardinality(ls)
                                         /\ e.mail = m /\ e.label \in ls /\ ~e.undone
         /\ \A e, f \in Logged(m, ls, nr) : e.nr = f.nr => e = f
         /\ \A l \in ls : \E e \in Logged(m, ls, nr) : e.label = l
<1> USE Parts DEF Base
<1>1. Cardinality(ls) \in Nat /\ logged \in Nat
  BY SomeLabels DEF NotesOK
<1>2. /\ nr \in [ls -> logged + 1..logged + Cardinality(ls)]
      /\ \A k, l \in ls : nr[k] = nr[l] => k = l
  BY DEF Numbers, Injection, IsInjective
<1> DEFINE E(l) == [nr |-> nr[l], mail |-> m, label |-> l, undone |-> FALSE]
<1>3. Logged(m, ls, nr) = {E(l) : l \in ls}
  BY DEF Logged
<1>4. ASSUME NEW l \in ls
      PROVE  /\ E(l) \in Entry /\ E(l).nr = nr[l] /\ E(l).mail = m /\ E(l).label = l /\ ~E(l).undone
             /\ nr[l] \in Nat /\ nr[l] > logged /\ nr[l] <= logged + Cardinality(ls)
  BY <1>1, <1>2 DEF Entry
<1> HIDE DEF E
<1>5. ASSUME NEW e \in Logged(m, ls, nr), NEW f \in Logged(m, ls, nr), e.nr = f.nr PROVE e = f
  <2>1. PICK k \in ls, l \in ls : e = E(k) /\ f = E(l)
    BY <1>3
  <2> QED
    BY <1>2, <1>4, <1>5, <2>1
<1> QED
  BY <1>3, <1>4, <1>5

\* A step of one run that leaves the log: what it put on is still being put on, or forgotten.
LEMMA RunTells ==
  ASSUME Told, NEW r \in Runners, UNCHANGED <<call, labels, log, logged, aged, notes>>,
         \A q \in Runners \ {r} : run'[q].mail = run[q].mail /\ run'[q].done = run[q].done,
         \A p \in byItself' \ byItself : p \in Putting(r)',
         \A p \in byItself' : p[2] \in labels /\ p \in Putting(r) => Stands(p)' \/ \E q \in Runners : p \in Putting(q)'
  PROVE  Told'
<1> SUFFICES ASSUME NEW p \in byItself', p[2] \in labels
             PROVE  Stands(p)' \/ \E q \in Runners : p \in Putting(q)'
  BY DEF Told
<1>1. CASE p \in byItself
  <2>1. Stands(p) => Stands(p)'
    BY DEF Stands, Undone, Outdated
  <2>2. \A q \in Runners \ {r} : p \in Putting(q) => p \in Putting(q)'
    BY DEF Putting
  <2> QED
    BY <1>1, <2>1, <2>2 DEF Told
<1>2. CASE p \notin byItself
  BY <1>2
<1> QED
  BY <1>1, <1>2

LEMMA PuttingNothing == ASSUME RunsOK, NEW r \in Runners, run[r].at \in {"idle", "next", "ask"} PROVE Putting(r) = {}
  BY DEF RunsOK, Sound, Putting

LEMMA FindsTells == ASSUME Base, TellsAll, NEW r \in Runners, Reads(r) \/ Answers(r) \/ AnswerFails(r) PROVE Told'
<1> USE Parts DEF Base
<1>1. Putting(r) = {}
  BY PuttingNothing DEF Reads, Answers, AnswerFails
<1>2. UNCHANGED <<call, labels, log, logged, aged, notes, byItself>>
  BY DEF Reads, Answers, AnswerFails, store, history
<1>3. \A q \in Runners \ {r} : run'[q] = run[q]
  <2>1. CASE Reads(r)
    BY <2>1, ReadsGives DEF AfterReading, Onward, RunsOK
  <2>2. CASE Answers(r) \/ AnswerFails(r)
    BY <2>2 DEF Answers, AnswerFails, Onward, RunsOK
  <2> QED
    BY <2>1, <2>2
<1> QED
  BY <1>1, <1>2, <1>3, RunTells DEF TellsAll

LEMMA PutsOnTells == ASSUME Base, TellsAll, NEW r \in Runners, PutsOn(r) PROVE Told'
<1> USE Parts DEF Base
<1> DEFINE m == run[r].mail
<1>1. PICK ks \in SUBSET (run[r].found \ run[r].done) :
            /\ run' = [Crosses({m}) EXCEPT
                           ![r] = [run[r] EXCEPT !.done = @ \union ks,
                                                 !.at = IF run[r].done \union ks = run[r].found THEN "kept" ELSE "put"]]
            /\ byItself' = byItself \union ({m} \X (ks \ server[m]))
  BY DEF PutsOn
<1>2. run[r] \in Run
  BY DEF RunsOK
<1>3. run'[r].mail = m /\ run'[r].done = run[r].done \union ks
  BY <1>1, <1>2 DEF Crosses, Run
<1>4. \A q \in Runners \ {r} : run'[q].mail = run[q].mail /\ run'[q].done = run[q].done
  BY <1>1 DEF Crosses, RunsOK, Run
<1>5. Putting(r)' = {m} \X (run[r].done \union ks)
  BY <1>3 DEF Putting
<1>6. \A p \in byItself' \ byItself : p \in Putting(r)'
  BY <1>1, <1>5
<1>7. \A p \in Putting(r) : p \in Putting(r)'
  BY <1>5 DEF Putting
<1> QED
  BY <1>4, <1>6, <1>7, RunTells DEF PutsOn, store, TellsAll

\* What a run put on and isn't forgotten when some runs end, another is putting on, too.
LEMMA NotUnlogged ==
  ASSUME NEW rs, NEW p, \E q \in rs : p \in Putting(q), p \notin Unlogged(rs)
  PROVE  \E o \in Runners \ rs : p \in Putting(o)
  BY DEF Unlogged

LEMMA PutFailsTells == ASSUME Base, TellsAll, NEW r \in Runners, PutFails(r) PROVE Told'
<1> USE Parts DEF Base
<1>1. \A q \in Runners \ {r} : run'[q] = run[q]
  BY DEF PutFails, Onward, RunsOK
<1>2. UNCHANGED <<call, labels, log, logged, aged, notes>> /\ byItself' = byItself \ Unlogged({r})
  BY DEF PutFails, store
<1>3. ASSUME NEW p \in byItself', p \in Putting(r) PROVE \E q \in Runners : p \in Putting(q)'
  <2>1. PICK q \in Runners \ {r} : p \in Putting(q)
    BY <1>2, <1>3, NotUnlogged
  <2> QED
    BY <1>1, <2>1 DEF Putting
<1> QED
  BY <1>1, <1>2, <1>3, RunTells DEF TellsAll

LEMMA LogsTells == ASSUME Base, Base', TellsAll, NEW r \in Runners, Logs(r) PROVE TellsAll'
<1> USE Parts DEF Base
<1> DEFINE m == run[r].mail
           ls == run[r].found
           n == Cardinality(ls)
<1>1. m \in Mails /\ ls \in SUBSET Labels /\ run[r].done = ls
  BY DEF Logs, RunsOK, Run, Sound
<1>2. PICK nr \in Numbers(ls), before \in 0..logged :
        /\ log' = (log \ Forgets(n, before)) \union Logged(m, ls, nr)
        /\ notes' = notes \union Logged(m, ls, nr)
  BY DEF Logs
<1>3. logged' = logged + n /\ UNCHANGED <<call, labels, aged, byItself>>
  BY DEF Logs, bounds
<1> DEFINE new == Logged(m, ls, nr)
<1>4. /\ new \subseteq Entry
      /\ \A e \in new : e.nr > logged /\ e.nr <= logged + n /\ e.mail = m /\ e.label \in ls /\ ~e.undone
      /\ \A e, f \in new : e.nr = f.nr => e = f
      /\ \A l \in ls : \E e \in new : e.label = l
  BY <1>1, <1>2, LoggedNumbers
<1>5. n \in Nat /\ logged \in Nat /\ \A e \in notes \union new : e.nr \in Nat
  BY <1>1, <1>4, SomeLabels DEF NotesOK, Entry
<1>6. \A q \in Runners \ {r} : run'[q] = run[q]
  BY DEF Logs, Onward, RunsOK
<1>7. \A p \in Putting(r) : p[1] = m /\ p[2] \in ls
  BY <1>1 DEF Putting
<1> HIDE DEF m, ls, n, new
<1>8. log' = (log \ Forgets(n, before)) \union new /\ notes' = notes \union new
  BY <1>2 DEF new
<1>9. Numbered'
  <2>1. \A e \in notes, f \in new : e.nr # f.nr
    BY <1>4, <1>5 DEF TellsAll, Numbered
  <2>2. log' \subseteq notes' /\ \A e \in notes' : e.nr <= logged'
    BY <1>3, <1>4, <1>5, <1>8 DEF TellsAll, Numbered
  <2> QED
    BY <1>4, <1>8, <2>1, <2>2 DEF TellsAll, Numbered
<1>10. Earlier'
  <2> SUFFICES ASSUME NEW c \in Callers, call[c].op = "undo"
               PROVE  /\ call[c].entry <= logged'
                      /\ \A e \in notes' : e.nr = call[c].entry => e.mail \in call[c].mails /\ e.label = call[c].label
    BY <1>3 DEF Earlier
  <2>1. call[c].entry \in Nat /\ call[c].entry <= logged
    BY DEF CallsOK, Hand, TellsAll, Earlier
  <2> QED
    BY <1>3, <1>4, <1>5, <1>8, <2>1 DEF TellsAll, Earlier
<1>11. ASSUME NEW p \in Putting(r) PROVE Stands(p)'
  <2>1. PICK e \in new : e.label = p[2]
    BY <1>4, <1>7, <1>11
  <2>2. e.mail = p[1] /\ ~e.undone /\ e.nr > logged
    BY <1>4, <1>7, <1>11
  <2>3. ASSUME NEW c \in Callers, Undone(c, e) PROVE FALSE
    <3>1. call[c].op = "undo" /\ call[c].entry = e.nr
      BY <2>3 DEF Undone
    <3>2. call[c].entry <= logged
      BY <3>1 DEF TellsAll, Earlier
    <3> QED
      BY <1>5, <2>2, <3>1, <3>2
  <2> QED
    BY <1>3, <1>8, <2>1, <2>2, <2>3 DEF Stands, Undone
<1>12. ASSUME NEW p, Stands(p) PROVE Stands(p)'
  <2>1. PICK e \in notes : /\ e.mail = p[1] /\ e.label = p[2] /\ ~e.undone /\ (e \in log \/ Outdated(e))
                           /\ \A c \in Callers : call[c].at \in {"kept", "learn"} => ~Undone(c, e)
    BY <1>12 DEF Stands
  <2>2. ASSUME e \in log, e \notin log' PROVE Outdated(e)'
    <3>1. e \in Forgets(n, before)
      BY <1>8, <2>2
    <3>2. CASE e.nr <= aged
      BY <1>3, <3>2 DEF Outdated
    <3>3. CASE Cardinality(Since(e)) + n > LogKept
      <4>1. Cardinality(Since(e)) \in Nat /\ Cardinality(Since(e)) <= logged - e.nr
        BY <2>2, SinceCount DEF TellsAll
      <4>2. logged' - e.nr >= LogKept
        BY <1>3, <1>5, <3>3, <4>1, LogKeptAssumption
      <4> QED
        BY <4>2 DEF Outdated
    <3> QED
      BY <3>1, <3>2, <3>3 DEF Forgets
  <2>3. Outdated(e) => Outdated(e)'
    BY <1>3, <1>5, StaysOutdated DEF NotesOK
  <2> QED
    BY <1>3, <1>8, <2>1, <2>2, <2>3 DEF Stands, Undone
<1>13. Told'
  <2> SUFFICES ASSUME NEW p \in byItself, p[2] \in labels
               PROVE  Stands(p)' \/ \E q \in Runners : p \in Putting(q)'
    BY <1>3 DEF Told
  <2>1. \A q \in Runners \ {r} : p \in Putting(q) => p \in Putting(q)'
    BY <1>6 DEF Putting
  <2> QED
    BY <1>11, <1>12, <2>1 DEF TellsAll, Told
<1> QED
  BY <1>9, <1>10, <1>13 DEF TellsAll

LEMMA LabellingTells == ASSUME Base, Base', TellsAll, NEW r \in Runners, Labelling(r) PROVE TellsAll'
<1>1. CASE Logs(r)
  BY <1>1, LogsTells
<1>2. CASE ~Logs(r)
  <2>1. Told'
    BY <1>2, FindsTells, PutsOnTells, PutFailsTells DEF Labelling
  <2>2. UNCHANGED <<log, logged, notes, call>>
    BY <1>2 DEF Labelling, Reads, Answers, AnswerFails, PutsOn, PutFails, store, history
  <2>3. Numbered' /\ Earlier'
    BY <2>2 DEF TellsAll, Numbered, Earlier
  <2> QED
    BY <2>1, <2>2, <2>3 DEF TellsAll
<1> QED
  BY <1>1, <1>2

\* A call by hand goes on without touching the log: what stood stands, if the call isn't about to take it back.
LEMMA CallTells ==
  ASSUME Base, Base', TellsAll, NEW c \in Callers, UNCHANGED <<log, logged, aged, notes, labels>>, byItself' \subseteq byItself,
         \A q \in Runners : run'[q].mail = run[q].mail /\ run'[q].done = run[q].done,
         \A d \in Callers \ {c} : call'[d] = call[d],
         \A p \in byItself' : \A e \in notes :
            /\ e.mail = p[1] /\ e.label = p[2] /\ call'[c].at \in {"kept", "learn"} /\ Undone(c, e)'
            => call[c].at \in {"kept", "learn"} /\ Undone(c, e),
         Earlier'
  PROVE  TellsAll'
<1>3. Numbered'
  BY DEF TellsAll, Numbered
<1> SUFFICES ASSUME NEW p \in byItself', p[2] \in labels
             PROVE  Stands(p)' \/ \E q \in Runners : p \in Putting(q)'
  BY <1>3 DEF TellsAll, Told
<1>1. Stands(p) => Stands(p)'
  <2> SUFFICES ASSUME NEW e \in notes, e.mail = p[1], e.label = p[2], ~e.undone, e \in log \/ Outdated(e),
                      \A d \in Callers : call[d].at \in {"kept", "learn"} => ~Undone(d, e),
                      NEW d \in Callers, call'[d].at \in {"kept", "learn"}
               PROVE  ~Undone(d, e)'
    BY DEF Stands, Outdated
  <2>1. CASE d = c
    BY <2>1
  <2>2. CASE d # c
    BY <2>2 DEF Undone
  <2> QED
    BY <2>1, <2>2
<1>2. \A q \in Runners : p \in Putting(q) => p \in Putting(q)'
  BY DEF Putting
<1> QED
  BY <1>1, <1>2 DEF TellsAll, Told

LEMMA BeginsTells ==
  ASSUME Base, Base', TellsAll, NEW c \in Callers,
         \/ \E m \in Mails, l \in Labels, on \in BOOLEAN : SetsKeyword(c, m, l, on)
         \/ \E e \in log : Undoes(c, e)
         \/ \E l \in Labels : Deletes(c, l)
  PROVE  TellsAll'
<1> USE Parts DEF Base
<1>1. UNCHANGED <<log, logged, aged, notes, labels, run, byItself>>
  BY DEF SetsKeyword, Undoes, Deletes, store, history
<1>2. /\ call'[c].at \notin {"kept", "learn"} /\ \A d \in Callers \ {c} : call'[d] = call[d]
      /\ \/ call'[c].op # "undo"
         \/ \E e \in log : call'[c].mails = {e.mail} /\ call'[c].label = e.label /\ call'[c].entry = e.nr
  <2>1. ASSUME NEW m \in Mails, NEW l \in Labels, NEW on \in BOOLEAN, SetsKeyword(c, m, l, on)
        PROVE  call'[c].at = "send" /\ call'[c].op = "hand" /\ \A d \in Callers \ {c} : call'[d] = call[d]
    BY <2>1 DEF SetsKeyword, NoCall, CallsOK
  <2>2. ASSUME NEW e \in log, Undoes(c, e)
        PROVE  /\ call'[c].at = "send" /\ call'[c].mails = {e.mail} /\ call'[c].label = e.label /\ call'[c].entry = e.nr
               /\ \A d \in Callers \ {c} : call'[d] = call[d]
    BY <2>2 DEF Undoes, NoCall, CallsOK
  <2>3. ASSUME NEW l \in Labels, Deletes(c, l)
        PROVE  call'[c].at \in {"send", "drop"} /\ call'[c].op = "delete" /\ \A d \in Callers \ {c} : call'[d] = call[d]
    BY <2>3 DEF Deletes, NoCall, CallsOK
  <2> QED
    BY <2>1, <2>2, <2>3
<1>3. Earlier'
  <2> SUFFICES ASSUME NEW d \in Callers, call'[d].op = "undo"
               PROVE  /\ call'[d].entry <= logged
                      /\ \A e \in notes : e.nr = call'[d].entry => e.mail \in call'[d].mails /\ e.label = call'[d].label
    BY <1>1 DEF Earlier
  <2>1. CASE d # c
    BY <1>2, <2>1 DEF TellsAll, Earlier
  <2>2. CASE d = c
    BY <1>2, <2>2 DEF TellsAll, Numbered
  <2> QED
    BY <2>1, <2>2
<1> QED
  BY <1>1, <1>2, <1>3, CallTells

LEMMA AppliesTells == ASSUME Base, TellsAll, NEW c \in Callers, NEW m \in Mails, Applies(c, m) PROVE TellsAll'
<1> USE Parts DEF Base
<1>1. c \in Runners /\ UNCHANGED <<call, labels, log, logged, aged, notes, byItself>> /\ Putting(c) = {}
  BY PuttingNothing DEF Applies, Free, history, store, Runners, NoRun
<1>2. \A q \in Runners \ {c} : run'[q] = run[q]
  BY DEF Applies, RunsOK
<1>3. Told'
  BY <1>1, <1>2, RunTells DEF TellsAll
<1> QED
  BY <1>1, <1>3 DEF TellsAll, Numbered, Earlier

LEMMA SendsTells == ASSUME Base, Base', TellsAll, NEW c \in Callers, Sends(c) PROVE TellsAll'
<1> USE Parts DEF Base
<1>1. /\ UNCHANGED <<log, logged, aged, notes, labels>> /\ byItself' = byItself \ (call[c].mails \X {call[c].label})
      /\ run' = Crosses(call[c].mails) /\ call' = [call EXCEPT ![c].at = "kept"]
  BY DEF Sends, store
<1>2. \A q \in Runners : run'[q].mail = run[q].mail /\ run'[q].done = run[q].done
  BY <1>1 DEF Crosses, RunsOK, Run
<1>3. /\ \A d \in Callers \ {c} : call'[d] = call[d]
      /\ call'[c].op = call[c].op /\ call'[c].mails = call[c].mails /\ call'[c].label = call[c].label
      /\ call'[c].entry = call[c].entry
  BY <1>1 DEF CallsOK, Hand
<1>4. Earlier'
  BY <1>1, <1>3 DEF TellsAll, Earlier
<1>5. ASSUME NEW p \in byItself', NEW e \in notes, e.mail = p[1], e.label = p[2], Undone(c, e)' PROVE FALSE
  <2>1. e.mail \in call[c].mails /\ e.label = call[c].label
    BY <1>3, <1>5 DEF Undone, TellsAll, Earlier
  <2>2. p = <<p[1], p[2]>>
    BY <1>1 DEF HistoryOK
  <2> QED
    BY <1>1, <1>5, <2>1, <2>2
<1> QED
  BY <1>1, <1>2, <1>3, <1>4, <1>5, CallTells

LEMMA FollowsTells == ASSUME Base, Base', TellsAll, NEW c \in Callers, SendFails(c) \/ Stores(c) PROVE TellsAll'
<1> USE Parts DEF Base
<1>1. UNCHANGED <<log, logged, aged, notes, labels, run, byItself>>
  BY DEF SendFails, Stores, store, history
<1>2. \A d \in Callers \ {c} : call'[d] = call[d]
  BY DEF SendFails, Stores, CallsOK
<1>3. \/ call'[c].op # "undo" /\ call'[c].at \notin {"kept", "learn"}
      \/ /\ call'[c].op = call[c].op /\ call'[c].mails = call[c].mails /\ call'[c].label = call[c].label
         /\ call'[c].entry = call[c].entry /\ call[c].at = "kept"
  BY DEF SendFails, Stores, CallsOK, Hand, NoCall
<1>4. Earlier'
  BY <1>1, <1>2, <1>3 DEF TellsAll, Earlier
<1>5. \A e \in notes : call'[c].at \in {"kept", "learn"} /\ Undone(c, e)' => call[c].at = "kept" /\ Undone(c, e)
  BY <1>3 DEF Undone
<1> QED
  BY <1>1, <1>2, <1>4, <1>5, CallTells

LEMMA LearnsTells == ASSUME Base, Base', TellsAll, NEW c \in Callers, Learns(c) PROVE TellsAll'
<1> USE Parts DEF Base
<1>1. /\ call[c].at = "learn" /\ call' = [call EXCEPT ![c] = NoCall] /\ UNCHANGED <<labels, logged, aged, byItself>>
      /\ log' = Marked(c, log) /\ notes' = Marked(c, notes)
  BY DEF Learns
<1>2. \A q \in Runners : run'[q].mail = run[q].mail /\ run'[q].done = run[q].done
  <2>1. \/ run' = run
        \/ run' = [q \in Runners |-> IF run[q].mail = Nobody THEN run[q] ELSE [run[q] EXCEPT !.unaware = TRUE]]
    BY DEF Learns
  <2> QED
    BY <2>1 DEF RunsOK, Run
<1>3. /\ \A d \in Callers \ {c} : call'[d] = call[d]
      /\ call'[c].op # "undo" /\ call'[c].at \notin {"kept", "learn"}
  BY <1>1 DEF CallsOK, NoCall
<1>4. /\ \A e \in notes' : \E f \in notes : e.nr = f.nr /\ e.mail = f.mail /\ e.label = f.label
      /\ Numbered'
  <2> DEFINE M(e) == IF Undone(c, e) THEN [e EXCEPT !.undone = TRUE] ELSE e
  <2>1. log' = {M(e) : e \in log} /\ notes' = {M(e) : e \in notes}
    BY <1>1 DEF Marked
  <2>2. \A e \in notes : M(e).nr = e.nr /\ M(e).mail = e.mail /\ M(e).label = e.label
    BY DEF NotesOK, Entry
  <2> HIDE DEF M
  <2>3. \A e, f \in notes : M(e).nr = M(f).nr => e = f
    BY <2>2 DEF TellsAll, Numbered
  <2> QED
    BY <1>1, <2>1, <2>2, <2>3 DEF TellsAll, Numbered
<1>5. Earlier'
  BY <1>1, <1>3, <1>4 DEF TellsAll, Earlier
<1>6. Told'
  <2> SUFFICES ASSUME NEW p \in byItself, p[2] \in labels
               PROVE  Stands(p)' \/ \E q \in Runners : p \in Putting(q)'
    BY <1>1 DEF Told
  <2>1. ASSUME Stands(p) PROVE Stands(p)'
    <3>1. PICK e \in notes : /\ e.mail = p[1] /\ e.label = p[2] /\ ~e.undone /\ (e \in log \/ Outdated(e))
                             /\ \A d \in Callers : call[d].at \in {"kept", "learn"} => ~Undone(d, e)
      BY <2>1 DEF Stands
    <3>2. e \in notes' /\ (e \in log => e \in log') /\ (Outdated(e) => Outdated(e)')
      BY <1>1, <3>1 DEF Marked, Outdated
    <3>3. \A d \in Callers : call'[d].at \in {"kept", "learn"} => ~Undone(d, e)'
      BY <1>3, <3>1 DEF Undone
    <3> QED
      BY <3>1, <3>2, <3>3 DEF Stands
  <2>2. \A q \in Runners : p \in Putting(q) => p \in Putting(q)'
    BY <1>2 DEF Putting
  <2> QED
    BY <2>1, <2>2 DEF TellsAll, Told
<1> QED
  BY <1>4, <1>5, <1>6 DEF TellsAll

LEMMA DropsTells == ASSUME Base, Base', TellsAll, NEW c \in Callers, Drops(c) PROVE TellsAll'
<1> USE Parts DEF Base
<1> DEFINE l == call[c].label
<1>1. /\ labels' = labels \ {l} /\ log' = {e \in log : e.label # l} /\ byItself' = {p \in byItself : p[2] # l}
      /\ call' = [call EXCEPT ![c] = NoCall] /\ UNCHANGED <<run, logged, aged, notes>>
  BY DEF Drops
<1>2. /\ \A d \in Callers \ {c} : call'[d] = call[d]
      /\ call'[c].op # "undo" /\ call'[c].at \notin {"kept", "learn"}
  BY <1>1 DEF CallsOK, NoCall
<1> HIDE DEF l
<1>3. Numbered'
  BY <1>1 DEF TellsAll, Numbered
<1>4. Earlier'
  BY <1>1, <1>2 DEF TellsAll, Earlier
<1>6. Told'
  <2> SUFFICES ASSUME NEW p \in byItself, p[2] \in labels, p[2] # l
               PROVE  Stands(p)' \/ \E q \in Runners : p \in Putting(q)'
    BY <1>1 DEF Told
  <2>1. ASSUME Stands(p) PROVE Stands(p)'
    <3>1. PICK e \in notes : /\ e.mail = p[1] /\ e.label = p[2] /\ ~e.undone /\ (e \in log \/ Outdated(e))
                             /\ \A d \in Callers : call[d].at \in {"kept", "learn"} => ~Undone(d, e)
      BY <2>1 DEF Stands
    <3>2. e \in notes' /\ (e \in log => e \in log') /\ (Outdated(e) => Outdated(e)')
      BY <1>1, <3>1 DEF Outdated
    <3>3. \A d \in Callers : call'[d].at \in {"kept", "learn"} => ~Undone(d, e)'
      BY <1>2, <3>1 DEF Undone
    <3> QED
      BY <3>1, <3>2, <3>3 DEF Stands
  <2>2. \A q \in Runners : p \in Putting(q) => p \in Putting(q)'
    BY <1>1 DEF Putting
  <2> QED
    BY <2>1, <2>2 DEF TellsAll, Told
<1> QED
  BY <1>3, <1>4, <1>6 DEF TellsAll

LEMMA ByHandTells == ASSUME Base, Base', TellsAll, NEW c \in Callers, ByHand(c) PROVE TellsAll'
  BY BeginsTells, AppliesTells, SendsTells, FollowsTells, LearnsTells, DropsTells DEF ByHand

LEMMA QuitTells == ASSUME Base, TellsAll, Quit PROVE TellsAll'
<1>1. /\ UNCHANGED <<log, logged, aged, notes, labels>> /\ byItself' = byItself \ Unlogged(Runners)
      /\ call' = [c \in Callers |-> NoCall]
  BY DEF Quit, store
<1>2. \A c \in Callers : call'[c].op # "undo" /\ call'[c].at = "idle"
  BY <1>1 DEF NoCall
<1>3. Earlier'
  BY <1>2 DEF Earlier
<1>4. Told'
  <2> SUFFICES ASSUME NEW p \in byItself', p[2] \in labels PROVE Stands(p)'
    BY <1>1 DEF Told
  <2>1. p \in byItself /\ \A r \in Runners : p \notin Putting(r)
    BY <1>1, NotUnlogged
  <2>2. Stands(p)
    BY <1>1, <2>1 DEF TellsAll, Told
  <2> QED
    BY <1>1, <1>2, <2>2 DEF Stands, Outdated
<1> QED
  BY <1>1, <1>3, <1>4 DEF TellsAll, Numbered

LEMMA ElseTells ==
  ASSUME Base, Base', TellsAll,
         \/ \E mails \in SUBSET Mails : Arrives(mails)
         \/ TakesBatch
         \/ \E way \in {"ai", "cheap"} : Switches(way)
         \/ \E n \in 1..logged : Ages(n)
         \/ \E m \in Mails : Syncs(m)
         \/ UNCHANGED vars
  PROVE  TellsAll'
<1> USE Parts DEF Base
<1>1. UNCHANGED <<log, logged, notes, labels, call, byItself>>
  BY DEF Arrives, TakesBatch, Switches, Ages, Syncs, vars, store, history
<1>2. CASE TakesBatch
  <2>1. Worker \in Runners /\ Putting(Worker) = {}
    <3>1. Worker \in Runners
      BY DEF Runners
    <3>2. run[Worker] = NoRun
      BY <1>2 DEF TakesBatch
    <3>3. run[Worker].at = "idle"
      BY <3>2 DEF NoRun
    <3> QED
      BY <3>1, <3>3, PuttingNothing
  <2>2. \A q \in Runners \ {Worker} : run'[q] = run[q]
    BY <1>2 DEF TakesBatch, RunsOK
  <2>4. UNCHANGED aged
    BY <1>2 DEF TakesBatch
  <2>3. Told'
    BY <1>1, <2>4, <2>1, <2>2, RunTells DEF TellsAll
  <2> QED
    BY <1>1, <2>3 DEF TellsAll, Numbered, Earlier
<1>3. CASE ~TakesBatch
  <2>1. UNCHANGED run /\ aged <= aged'
    BY <1>3 DEF Arrives, Switches, Ages, Syncs, vars, NotesOK
  <2>2. \A e \in notes : Outdated(e) => Outdated(e)'
    BY <1>1, <2>1, StaysOutdated DEF NotesOK
  <2>3. Numbered' /\ Earlier'
    BY <1>1 DEF TellsAll, Numbered, Earlier
  <2>4. \A p : Stands(p) => Stands(p)'
    BY <1>1, <2>2 DEF Stands, Undone
  <2> QED
    BY <1>1, <2>1, <2>3, <2>4 DEF TellsAll, Told, Putting
<1> QED
  BY <1>2, <1>3

LEMMA TellsStep == ASSUME Base, Base', TellsAll, [Next]_vars PROVE TellsAll'
  BY LabellingTells, ByHandTells, QuitTells, ElseTells DEF Next

\* A label that was put on by itself and not touched since stands in the log, or is still being put on.
THEOREM LogTellsAllHolds == Spec => []LogTellsAll
<1>1. TellsAll => LogTellsAll
  BY DEF TellsAll, Told, Stands, LogTellsAll
<1> QED
  BY <1>1, InitTells, TellsStep, AlwaysBase, PTL DEF Spec

=============================================================================
