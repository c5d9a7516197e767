----------------------------- MODULE AutoLabels -----------------------------
(***************************************************************************)
(* The labels this device puts on mail by itself (crates/uwumail-core/src/ *)
(* engine/assist_ops.rs, store/assist.rs and the crate uwumail-labels).    *)
(*                                                                         *)
(* A worker takes new inbox mail and labels it: by rules, detectors and    *)
(* what it learned, and where those leave a doubt by asking a model.  A    *)
(* window may ask for the same for one mail.  What was put on stands in a  *)
(* log, from which it can be taken back.  Labels put on or taken off by    *)
(* hand teach: a label taken off stays off mail of that sender.            *)
(*                                                                         *)
(* Labels are keywords on the mail server with a copy in the store; every  *)
(* change asks the server first.  What a label is, and how sure a way of   *)
(* finding one is, is left open: any labels that may be chosen may be.     *)
(***************************************************************************)
EXTENDS Naturals, FiniteSets, Functions

CONSTANTS
    Mails, Labels, Senders,
    Sender,      \* the sender of each mail
    Ruled,       \* pairs <<mail, label>> the label's own rules match
    Callers,     \* calls the windows may make at once
    Worker,      \* the task that labels new mail
    Nobody,      \* no mail, no label
    OneByOne,    \* the mailbox is IMAP: a request per keyword
    LogKept,     \* entries the log keeps, whatever their age
    MaxCalls,    \* bound on the windows' calls
    MaxSwitches, \* bound on switching ways of labelling on or off
    MaxFaults    \* bound on failing requests and ends of the program

ASSUME LabelsAssumption == IsFiniteSet(Labels)
ASSUME SenderAssumption == Sender \in [Mails -> Senders]
ASSUME RuledAssumption == Ruled \subseteq Mails \X Labels
ASSUME NamesAssumption == Worker \notin Callers /\ Nobody \notin Mails \union Labels
ASSUME LogKeptAssumption == LogKept \in Nat \ {0}
ASSUME BoundsAssumption == OneByOne \in BOOLEAN /\ {MaxCalls, MaxSwitches, MaxFaults} \subseteq Nat

Runners == Callers \union {Worker}
AtMost == 2  \* labels a mail gets by itself

VARIABLES
    labels,   \* this device's labels
    server,   \* the labels on each mail, on its server
    here,     \* the same in the store
    arrived,  \* mail that came
    queue,    \* batches of new mail for the worker
    log,      \* labels put on by themselves, numbered as they came
    logged,   \* how many entries there were
    aged,     \* up to which entry they are too old to keep
    barred,   \* pairs <<label, sender>> counted below zero
    ways,     \* which ways are switched on: "ai", "cheap"
    run,      \* what labels a mail by itself
    call,     \* what a window does by hand
    calls, switches, faults,  \* how many there were
    \* read by no action
    byItself, \* pairs <<mail, label>> put on by themselves, not cut off and not touched since
    takenOff, \* pairs <<label, sender>> the person took off, undisturbed
    notes     \* the log with what it has forgotten

store == <<here, log, logged, barred, labels>>
history == <<byItself, takenOff, notes>>
bounds == <<calls, switches, faults>>
vars == <<labels, server, here, arrived, queue, log, logged, aged, barred, ways, run, call, bounds, history>>

\* `crossed` (another changed the mail, or it wasn't known as it is) and `unaware` (the mail was read before
\* a label was taken off) are history, too.
NoRun == [at |-> "idle", todo |-> {}, mail |-> Nobody, list |-> {}, may |-> {}, found |-> {}, room |-> 0,
          done |-> {}, ways |-> {}, crossed |-> FALSE, unaware |-> FALSE]
NoCall == [op |-> "none", at |-> "idle", mails |-> {}, label |-> Nobody, on |-> FALSE, had |-> FALSE, teaches |-> FALSE,
           entry |-> 0]
Run == [at : {"idle", "next", "ask", "put", "kept"}, todo : SUBSET Mails, mail : Mails \union {Nobody},
        list : SUBSET Labels, may : SUBSET Labels, found : SUBSET Labels, room : 0..AtMost, done : SUBSET Labels,
        ways : SUBSET {"ai", "cheap"}, crossed : BOOLEAN, unaware : BOOLEAN]
Hand == [op : {"none", "hand", "undo", "delete"}, at : {"idle", "send", "kept", "learn", "drop"}, mails : SUBSET Mails,
         label : Labels \union {Nobody}, on : BOOLEAN, had : BOOLEAN, teaches : BOOLEAN, entry : Nat]
Entry == [nr : Nat, mail : Mails, label : Labels, undone : BOOLEAN]

Free(c) == run[c] = NoRun /\ call[c] = NoCall /\ calls < MaxCalls /\ calls' = calls + 1 /\ UNCHANGED <<switches, faults>>
Fault == faults < MaxFaults /\ faults' = faults + 1 /\ UNCHANGED <<calls, switches>>

-----------------------------------------------------------------------------
\* Mail comes, several at once or alone, and a batch of it is queued.
Arrives(mails) ==
    /\ mails # {} /\ mails \cap arrived = {}
    /\ arrived' = arrived \union mails /\ queue' = queue \union {mails}
    /\ UNCHANGED <<store, server, aged, ways, run, call, bounds, history>>

\* The worker takes a batch, with the labels there are; without a provider it may use, it asks no model.
\* It leaves the batch if nothing is switched on, or the mailbox isn't known to be this device's to label.
TakesBatch ==
    /\ run[Worker] = NoRun
    /\ \E mails \in queue :
        /\ queue' = queue \ {mails}
        /\ \/ UNCHANGED run
           \/ /\ ways # {} /\ labels # {}
              /\ \E usable \in {ways, ways \ {"ai"}} :
                    run' = [run EXCEPT ![Worker] = [NoRun EXCEPT !.at = "next", !.todo = mails, !.list = labels,
                                                                 !.ways = usable]]
    /\ UNCHANGED <<store, aged, server, arrived, ways, call, bounds, history>>

\* "Label now": one mail, with the model, whatever the switches of new mail say.
Applies(c, m) ==
    /\ Free(c) /\ m \in arrived
    /\ run' = [run EXCEPT ![c] = [NoRun EXCEPT !.at = "next", !.todo = {m}, !.list = labels,
                                               !.ways = ways \union {"ai"}]]
    /\ UNCHANGED <<store, aged, server, arrived, queue, ways, call, switches, faults, history>>

-----------------------------------------------------------------------------
\* Mutant: what was taken off by hand is not looked at.
OpenToAll(r, m) == run[r].list \ here[m]
\* What may go on a mail: not what is on it, nor what was taken off its sender's mail, rules aside.
Open(r, m) == {l \in run[r].list \ here[m] : <<l, Sender[m]>> \notin barred}
Sure(r, m) == IF "cheap" \notin run[r].ways THEN {}
              ELSE Open(r, m) \union {l \in run[r].list \ here[m] : <<m, l>> \in Ruled}
\* Mutant: labels on the mail don't count.
RoomForTwo(r, m) == AtMost
\* How many more a mail may get.
Room(r, m) == LET on == Cardinality(here[m] \cap run[r].list) IN IF on < AtMost THEN AtMost - on ELSE 0

\* On to the next mail of the batch, if there is one.
Onward(r, mine) ==
    [run EXCEPT ![r] = IF mine.todo = {} THEN NoRun
                       ELSE [NoRun EXCEPT !.at = "next", !.todo = mine.todo, !.list = mine.list, !.ways = mine.ways]]

\* A mail is read, with what was learned of its sender; the cheap ways decide, and leave a doubt or not.
\* The day's limit may be reached; without a model and with the cheap ways off the worker stops.
Reads(r) ==
    /\ run[r].at = "next"
    /\ \E m \in run[r].todo, left \in BOOLEAN :
        LET still == IF left \/ r # Worker THEN run[r].ways ELSE run[r].ways \ {"ai"}
            mine == [run[r] EXCEPT !.todo = @ \ {m}, !.mail = m, !.ways = still, !.room = Room(r, m),
                                  !.crossed = here[m] # server[m]]
        IN  \/ still = {} /\ run' = [run EXCEPT ![r] = NoRun]
            \/ /\ still # {}
               /\ \E sure \in SUBSET Sure(r, m), doubt \in SUBSET Open(r, m) :
                    /\ Cardinality(sure) <= mine.room /\ doubt \cap sure = {}
                    /\ doubt # {} => "ai" \in still /\ Cardinality(sure) < mine.room
                    /\ run' = IF sure \union doubt = {} THEN Onward(r, mine)
                              ELSE [run EXCEPT ![r] = [mine EXCEPT !.at = IF doubt = {} THEN "put" ELSE "ask",
                                                                   !.found = sure, !.may = sure \union doubt]]
    /\ UNCHANGED <<store, aged, server, arrived, queue, ways, call, bounds, history>>

\* The model's answer: of the labels in doubt and the sure ones, as many as fit; a surer one may push another out.
Answers(r) ==
    /\ run[r].at = "ask"
    /\ \E found \in SUBSET run[r].may :
        /\ Cardinality(found) <= run[r].room /\ (run[r].found # {} => found # {})
        /\ run' = IF found = {} THEN Onward(r, run[r]) ELSE [run EXCEPT ![r].at = "put", ![r].found = found]
    /\ UNCHANGED <<store, aged, server, arrived, queue, ways, call, bounds, history>>

\* No answer, or the person no longer agrees to asking: what is sure goes on alone; else the mail is
\* skipped, and the rest of the batch asks no more unless it was the provider that failed.
AnswerFails(r) ==
    /\ run[r].at = "ask"
    /\ \/ run[r].found # {} /\ run' = [run EXCEPT ![r].at = "put"]
       \/ /\ run[r].found = {}
          /\ \E ways1 \in {run[r].ways, run[r].ways \ {"ai"}} : run' = Onward(r, [run[r] EXCEPT !.ways = ways1])
    /\ UNCHANGED <<store, aged, server, arrived, queue, ways, call, bounds, history>>

\* The runs whose mail is one of these, known to be crossed.
Crosses(mails) == [q \in Runners |-> IF run[q].mail \in mails THEN [run[q] EXCEPT !.crossed = TRUE] ELSE run[q]]

\* The server puts labels on: all in one request (JMAP), or one after the other (IMAP).
PutsOn(r) ==
    /\ run[r].at = "put"
    /\ \E ks \in SUBSET (run[r].found \ run[r].done) :
        LET m == run[r].mail
        IN  /\ IF OneByOne THEN Cardinality(ks) = 1 ELSE ks = run[r].found
            /\ server' = [server EXCEPT ![m] = @ \union ks]
            /\ run' = [Crosses({m}) EXCEPT
                           ![r] = [run[r] EXCEPT !.done = @ \union ks,
                                                 !.at = IF run[r].done \union ks = run[r].found THEN "kept" ELSE "put"]]
            /\ byItself' = byItself \union ({m} \X (ks \ server[m]))
    /\ UNCHANGED <<store, aged, arrived, queue, ways, call, bounds, takenOff, notes>>

\* What a run has put on the server of the mail it is at; what nobody will log if these runs end here.
Putting(r) == {run[r].mail} \X run[r].done
Unlogged(rs) == (UNION {Putting(r) : r \in rs}) \ (UNION {Putting(r) : r \in Runners \ rs})

\* A request fails, or its answer is lost: nothing is logged, and the batch asks no model any more.  A server
\* that keeps no keywords ends the batch.
PutFails(r) ==
    /\ run[r].at \in {"put", "kept"} /\ Fault
    /\ byItself' = byItself \ Unlogged({r})
    /\ \/ run' = Onward(r, [run[r] EXCEPT !.ways = @ \ {"ai"}])
       \/ run[r].at = "put" /\ run' = [run EXCEPT ![r] = NoRun]
    /\ UNCHANGED <<store, aged, server, arrived, queue, ways, call, takenOff, notes>>

\* Answered: the store follows and each label is logged, one after the other.  Each time the log forgets what
\* is too old and what came before the newest LogKept; of that, entries of the last one's second may stay.
Numbers(found) == Injection(found, logged + 1..logged + Cardinality(found))
Logged(m, found, nr) == {[nr |-> nr[l], mail |-> m, label |-> l, undone |-> FALSE] : l \in found}
Since(e) == {f \in log : f.nr > e.nr}
Forgets(n, before) == {e \in log : e.nr <= aged \/ (e.nr <= before /\ Cardinality(Since(e)) + n > LogKept)}
Logs(r) ==
    /\ run[r].at = "kept"
    /\ here' = [here EXCEPT ![run[r].mail] = @ \union run[r].found]
    /\ \E nr \in Numbers(run[r].found), before \in 0..logged :
        LET new == Logged(run[r].mail, run[r].found, nr)
        IN  /\ log' = (log \ Forgets(Cardinality(run[r].found), before)) \union new
            /\ notes' = notes \union new
    /\ logged' = logged + Cardinality(run[r].found)
    /\ run' = Onward(r, run[r])
    /\ UNCHANGED <<labels, server, arrived, queue, aged, barred, ways, call, bounds, byItself, takenOff>>

-----------------------------------------------------------------------------
\* A label is put on or taken off by hand ...
SetsKeyword(c, m, l, on) ==
    /\ Free(c) /\ m \in arrived /\ l \in labels
    /\ call' = [call EXCEPT ![c] = [NoCall EXCEPT !.op = "hand", !.at = "send", !.mails = {m}, !.label = l,
                                                  !.on = on, !.had = l \in here[m]]]
    /\ UNCHANGED <<store, aged, server, arrived, queue, ways, run, history>>

\* ... or taken back from the log, which counts as by hand.
Undoes(c, e) ==
    /\ Free(c) /\ e \in log /\ ~e.undone
    /\ call' = [call EXCEPT ![c] = [NoCall EXCEPT !.op = "undo", !.at = "send", !.mails = {e.mail}, !.label = e.label,
                                                  !.had = e.label \in here[e.mail], !.entry = e.nr]]
    /\ UNCHANGED <<store, aged, server, arrived, queue, ways, run, history>>

\* A label is to be deleted: it comes off the mail that has it here first.
Deletes(c, l) ==
    /\ Free(c) /\ l \in labels
    /\ LET mails == {m \in arrived : l \in here[m]}
       IN  call' = [call EXCEPT ![c] = [NoCall EXCEPT !.op = "delete", !.at = IF mails = {} THEN "drop" ELSE "send",
                                                      !.mails = mails, !.label = l]]
    /\ UNCHANGED <<store, aged, server, arrived, queue, ways, run, history>>

\* The server follows.
Sends(c) ==
    LET l == call[c].label
        with(set) == IF call[c].on THEN set \union {l} ELSE set \ {l}
    IN  /\ call[c].at = "send"
        /\ server' = [m \in Mails |-> IF m \in call[c].mails THEN with(server[m]) ELSE server[m]]
        /\ call' = [call EXCEPT ![c].at = "kept"]
        /\ byItself' = byItself \ (call[c].mails \X {l})
        /\ run' = Crosses(call[c].mails)
        /\ takenOff' = IF call[c].on THEN takenOff \ {<<l, Sender[m]>> : m \in call[c].mails} ELSE takenOff
        /\ UNCHANGED <<store, aged, arrived, queue, ways, bounds, notes>>

\* A request fails or its answer is lost: the call ends with an error, but a label goes all the same.
SendFails(c) ==
    /\ call[c].at \in {"send", "kept"} /\ Fault
    /\ call' = [call EXCEPT ![c] = IF call[c].op = "delete" THEN [call[c] EXCEPT !.at = "drop"] ELSE NoCall]
    /\ UNCHANGED <<store, aged, server, arrived, queue, ways, run, history>>

\* Answered: the store follows; what is to be learned from it depends on what is switched on now.
Stores(c) ==
    LET l == call[c].label
        with(set) == IF call[c].on THEN set \union {l} ELSE set \ {l}
    IN  /\ call[c].at = "kept"
        /\ here' = [m \in Mails |-> IF m \in call[c].mails THEN with(here[m]) ELSE here[m]]
        /\ call' = [call EXCEPT ![c].at = IF call[c].op = "delete" THEN "drop" ELSE "learn",
                                ![c].teaches = call[c].op # "delete" /\ l \in labels /\ "cheap" \in ways]
        /\ UNCHANGED <<labels, server, arrived, queue, log, logged, aged, barred, ways, run, bounds, history>>

\* Mutant: all entries of the label on the mail count as taken back.
UndoneByLabel(c, e) == call[c].op = "undo" /\ e.mail \in call[c].mails /\ e.label = call[c].label
\* The entry of the log that is taken back.
Undone(c, e) == call[c].op = "undo" /\ e.nr = call[c].entry
Marked(c, es) == {IF Undone(c, e) THEN [e EXCEPT !.undone = TRUE] ELSE e : e \in es}

\* Calls of the person that are changing a label.
Changing(l) == {c \in Callers : call[c].label = l}

\* Learned, if this device serves the mailbox: corrections for the model, and whom to leave alone.
Learns(c) ==
    /\ call[c].at = "learn"
    /\ \E m \in call[c].mails, serves \in BOOLEAN :
        LET l == call[c].label
            teaches == serves /\ call[c].teaches /\ call[c].had # call[c].on
            whom == <<l, Sender[m]>>
        IN  /\ barred' = IF ~teaches THEN barred
                         ELSE IF call[c].on THEN barred \ {whom} ELSE barred \union {whom}
            /\ log' = Marked(c, log) /\ notes' = Marked(c, notes)
            /\ IF teaches /\ ~call[c].on /\ Changing(l) = {c}
               THEN /\ takenOff' = takenOff \union {whom}
                    /\ run' = [q \in Runners |-> IF run[q].mail = Nobody THEN run[q]
                                                  ELSE [run[q] EXCEPT !.unaware = TRUE]]
               ELSE UNCHANGED <<takenOff, run>>
    /\ call' = [call EXCEPT ![c] = NoCall]
    /\ UNCHANGED <<labels, server, here, logged, aged, arrived, queue, ways, bounds, byItself>>

\* The label goes, with all that was learned and logged of it.
Drops(c) ==
    LET l == call[c].label
    IN  /\ call[c].at = "drop"
        /\ labels' = labels \ {l}
        /\ log' = {e \in log : e.label # l}
        /\ barred' = {b \in barred : b[1] # l}
        /\ byItself' = {p \in byItself : p[2] # l}
        /\ takenOff' = {t \in takenOff : t[1] # l}
        /\ call' = [call EXCEPT ![c] = NoCall]
        /\ UNCHANGED <<server, here, logged, aged, arrived, queue, ways, run, bounds, notes>>

-----------------------------------------------------------------------------
\* A way of labelling is switched on or off.
Switches(way) ==
    /\ switches < MaxSwitches /\ switches' = switches + 1
    /\ ways' = IF way \in ways THEN ways \ {way} ELSE ways \union {way}
    /\ UNCHANGED <<store, aged, server, arrived, queue, run, call, calls, faults, history>>

\* Time passes: up to this entry the log is too old.
Ages(n) ==
    /\ n > aged /\ n <= logged /\ aged' = n
    /\ UNCHANGED <<store, server, arrived, queue, ways, run, call, bounds, history>>

\* The sync brings the server's labels.
Syncs(m) ==
    /\ here[m] # server[m] /\ here' = [here EXCEPT ![m] = server[m]]
    /\ UNCHANGED <<labels, server, arrived, queue, log, logged, aged, barred, ways, run, call, bounds, history>>

\* UwUMail ends: the queue and what is under way are gone.
Quit ==
    /\ Fault
    /\ queue' = {} /\ run' = [r \in Runners |-> NoRun] /\ call' = [c \in Callers |-> NoCall]
    /\ byItself' = byItself \ Unlogged(Runners)
    /\ UNCHANGED <<store, aged, server, arrived, ways, takenOff, notes>>

-----------------------------------------------------------------------------
Init ==
    /\ labels = Labels /\ server = [m \in Mails |-> {}] /\ here = server
    /\ arrived = {} /\ queue = {} /\ log = {} /\ logged = 0 /\ aged = 0 /\ barred = {}
    /\ ways \in {{"cheap"}, {"ai", "cheap"}}
    /\ run = [r \in Runners |-> NoRun] /\ call = [c \in Callers |-> NoCall]
    /\ calls = 0 /\ switches = 0 /\ faults = 0
    /\ byItself = {} /\ takenOff = {} /\ notes = {}

Labelling(r) ==
    Reads(r) \/ Answers(r) \/ AnswerFails(r) \/ PutsOn(r) \/ PutFails(r) \/ Logs(r)
ByHand(c) ==
    \/ \E m \in Mails, l \in Labels, on \in BOOLEAN : SetsKeyword(c, m, l, on)
    \/ \E m \in Mails : Applies(c, m)
    \/ \E e \in log : Undoes(c, e)
    \/ \E l \in Labels : Deletes(c, l)
    \/ Sends(c) \/ SendFails(c) \/ Stores(c) \/ Learns(c) \/ Drops(c)
Next ==
    \/ \E mails \in SUBSET Mails : Arrives(mails)
    \/ TakesBatch
    \/ \E r \in Runners : Labelling(r)
    \/ \E c \in Callers : ByHand(c)
    \/ \E way \in {"ai", "cheap"} : Switches(way)
    \/ \E n \in 1..logged : Ages(n)
    \/ \E m \in Mails : Syncs(m)
    \/ Quit
Spec == Init /\ [][Next]_vars

-----------------------------------------------------------------------------
\* Types; a run puts on no more than it found and all of it before it is logged, nor finds more than there
\* is room for, and a change by hand is about a label.
TypeOK ==
    /\ labels \subseteq Labels /\ {server, here} \subseteq [Mails -> SUBSET Labels]
    /\ arrived \subseteq Mails /\ queue \subseteq SUBSET Mails
    /\ log \subseteq Entry /\ notes \subseteq Entry /\ {logged, aged} \subseteq Nat /\ barred \subseteq Labels \X Senders /\ ways \subseteq {"ai", "cheap"}
    /\ run \in [Runners -> Run] /\ call \in [Callers -> Hand] /\ {calls, switches, faults} \subseteq Nat
    /\ byItself \subseteq Mails \X Labels /\ takenOff \subseteq Labels \X Senders
    /\ \A r \in Runners :
          IF run[r].at \in {"idle", "next"} THEN run[r].mail = Nobody /\ run[r].found = {} /\ run[r].done = {}
          ELSE /\ run[r].mail \in Mails /\ run[r].found \subseteq run[r].may /\ run[r].done \subseteq run[r].found
               /\ run[r].at = "ask" => run[r].done = {}
               /\ run[r].at = "kept" => run[r].done = run[r].found
               /\ Cardinality(run[r].found) <= run[r].room
    /\ \A c \in Callers : call[c].at # "idle" => call[c].label \in Labels

\* "Logs each label set": a label that was put on by itself and not touched since stands in the log,
\* where it can be taken back, whatever else is put on, taken off, taken back or synced meanwhile; but for a
\* request that was cut off, for deleted labels, and for what is too old or came before the newest LogKept.
Outdated(e) == e.nr <= aged \/ logged - e.nr >= LogKept
LogTellsAll ==
    \A p \in byItself : p[2] \in labels =>
        \/ \E r \in Runners : p \in Putting(r)
        \/ \E e \in notes : e.mail = p[1] /\ e.label = p[2] /\ ~e.undone /\ (e \in log \/ Outdated(e))

\* "At most a main label and a second one; labels on the mail count against those two": a run leaves a
\* mail with more only if somebody else changed the mail's labels since the run read them.
AtMostTwo ==
    [][\A r \in Runners :
        run'[r].done \ run[r].done # {} /\ ~run[r].crossed =>
            Cardinality(server'[run[r].mail] \cap run[r].list) <= AtMost]_vars

\* "It no longer goes on their mail by itself, except by the label's rules, until it is put on their mail
\* by hand again": after the person took a label off a sender's mail, no run that reads a mail of the
\* sender later puts it on.
OffStaysOff ==
    [][\A r \in Runners : \A l \in run'[r].done \ run[r].done :
        LET m == run[r].mail
        IN  <<l, Sender[m]>> \in takenOff /\ <<m, l>> \notin Ruled => run[r].unaware]_vars
=============================================================================
