----------------------- MODULE ServerScheduledProofs -----------------------
(***************************************************************************)
(* Theorems about ServerScheduled: its types, and, for one client, that no  *)
(* mail goes twice and that what the person is told is so, for any number of *)
(* mails and submissions, with every fault and with the client stopping      *)
(* anywhere.                                                                *)
(***************************************************************************)
EXTENDS ServerScheduled, TLAPS

\* TypeOK without the observer's `cut`, which no step reads.
WellFormed == ServerOK /\ CallsOK /\ late \in SUBSET Request
CutOK == cut \subseteq Mails

\* Some answer, or none.
Reaction(r) == Answered(r) \/ Denied(r) \/ Refused \/ BreaksOff(r)

-----------------------------------------------------------------------------
(***************************************************************************)
(* Type correctness.                                                       *)
(***************************************************************************)

LEMMA NoCallIsCall == NoCall \in Call
  BY PoolsAssumption DEF NoCall, Call, Steps, Ops

\* What the server carries out leaves it well-formed.
LEMMA CarriesTypes ==
  ASSUME ServerOK, NEW r \in Request, Accepts(r), Carries(r)
  PROVE  ServerOK'
<1> USE DEF ServerOK, Request, Accepts, Carries, Puts, Turns, Places, Statuses
<1>1. CASE r.kind = "submit"
  BY <1>1
<1>2. CASE r.kind = "create"
  BY <1>2
<1>3. CASE r.kind = "cancel"
  BY <1>3
<1>4. CASE r.kind \in {"file", "undo", "destroy"}
  BY <1>4
<1> QED
  BY <1>1, <1>2, <1>3, <1>4

LEMMA ReactionTypes ==
  ASSUME ServerOK, late \in SUBSET Request, NEW r \in Request, Reaction(r)
  PROVE  ServerOK' /\ late' \in SUBSET Request
<1>1. CASE UNCHANGED server
  <2>1. ServerOK'
    BY <1>1 DEF server, ServerOK
  <2> QED
    BY <2>1 DEF Reaction, Answered, Denied, Refused, BreaksOff
<1>2. CASE Accepts(r) /\ Carries(r) /\ UNCHANGED late
  BY <1>2, CarriesTypes
<1> QED
  BY <1>1, <1>2 DEF Reaction, Answered, Denied, Refused, BreaksOff

LEMMA GoesTypes ==
  ASSUME CallsOK, NEW c \in Calls, NEW step \in Steps, step \in StepsOf(call[c].op), Goes(c, step)
  PROVE  CallsOK'
<1>1. [call[c] EXCEPT !.at = step] \in Call
  BY DEF CallsOK, Call
<1>2. call' = [call EXCEPT ![c] = [call[c] EXCEPT !.at = step]]
  BY DEF Goes
<1> QED
  BY <1>1, <1>2 DEF CallsOK, Goes, Call

LEMMA GoneTypes == ASSUME CallsOK, NEW c \in Calls, Gone(c), UNCHANGED told PROVE CallsOK'
<1>1. NoCall.at = "idle"
  BY DEF NoCall
<1> QED
  BY <1>1, NoCallIsCall DEF CallsOK, Gone

LEMMA EndsTypes == ASSUME CallsOK, NEW c \in Calls, NEW word \in Words, Ends(c, word) PROVE CallsOK'
<1>1. NoCall.at = "idle"
  BY DEF NoCall
<1> QED
  BY <1>1, NoCallIsCall DEF CallsOK, Ends, Gone, Call

LEMMA RequestsOfCalls ==
  ASSUME CallsOK, NEW c \in Calls,
         NEW kind \in {"submit", "undo", "cancel", "create", "file", "destroy"}, NEW s \in Subs
  PROVE  Of(c, kind, s) \in Request
  BY DEF CallsOK, Call, Of, Request

LEMMA InitTypes == Init => WellFormed
<1> SUFFICES ASSUME Init PROVE WellFormed
  OBVIOUS
<1>1. ServerOK
  BY NoCallIsCall DEF Init, ServerOK, Places, Statuses, Call
<1>2. CallsOK
  <2>1. NoCall.at = "idle"
    BY DEF NoCall
  <2> QED
    BY <2>1, NoCallIsCall DEF Init, CallsOK, Words
<1> QED
  BY <1>1, <1>2 DEF Init, WellFormed

LEMMA BeginTypes ==
  ASSUME WellFormed, NEW c \in Calls, NEW op \in Ops, NEW m \in Mails, NEW s \in Subs, NEW new \in Subs,
         NEW step \in Steps, step \in StepsOf(op), UNCHANGED <<server, late, told>>,
         call' = [call EXCEPT ![c] = [at |-> step, op |-> op, mail |-> m, sub |-> s, new |-> new]]
  PROVE  WellFormed'
<1>1. [at |-> step, op |-> op, mail |-> m, sub |-> s, new |-> new] \in Call
  BY DEF Call
<1> QED
  BY <1>1 DEF WellFormed, ServerOK, CallsOK, server

LEMMA CallStepTypes == ASSUME WellFormed, NEW c \in Calls, CallStep(c) PROVE WellFormed'
<1> USE DEF WellFormed
<1> DEFINE k == call[c]
<1>0. k \in Call
  BY DEF CallsOK
<1>m. k.mail \in Mails /\ k.sub \in Subs /\ k.new \in Subs /\ k.op \in Ops
  BY <1>0 DEF Call
<1>s. At(c, "idle") \/ k.at \in StepsOf(k.op)
  BY DEF CallsOK, At
<1> USE DEF At
<1>1. CASE Submit(c)
  <2>1. Of(c, "submit", k.new) \in Request /\ k.at = "submit"
    BY <1>1, <1>m, RequestsOfCalls DEF Submit
  <2>2. ServerOK' /\ late' \in SUBSET Request
    <3>1. CASE Reaction(Of(c, "submit", k.new))
      BY <2>1, <3>1, ReactionTypes
    <3>2. CASE place' = [place EXCEPT ![k.mail] = "sent"] /\ UNCHANGED <<status, of, late>>
      BY <3>2 DEF ServerOK, Places
    <3> QED
      BY <1>1, <3>1, <3>2 DEF Submit, Reaction, Of
  <2>3. "undo" \in StepsOf(k.op)
    BY <1>m, <1>s, <2>1 DEF StepsOf, Ops
  <2>4. CallsOK'
    BY <1>1, <2>3, GoesTypes, EndsTypes DEF Submit, Steps, Words
  <2> QED
    BY <2>2, <2>4
<1>2. CASE Undo(c)
  <2>1. Of(c, "undo", k.new) \in Request
    BY <1>m, RequestsOfCalls
  <2> QED
    BY <1>2, <2>1, ReactionTypes, EndsTypes DEF Undo, Reaction, Words
<1>3. CASE Look(c)
  <2>1. "cancel" \in StepsOf(k.op)
    BY <1>3, <1>m, <1>s DEF Look, StepsOf, Ops
  <2>2. CallsOK'
    BY <1>3, <2>1, GoesTypes, GoneTypes, EndsTypes DEF Look, Steps, Words
  <2> QED
    BY <1>3, <2>2 DEF Look, ReadFails, ServerOK, server
<1>4. CASE Cancel(c)
  <2>1. Of(c, "cancel", k.sub) \in Request
    BY <1>m, RequestsOfCalls
  <2>2. "check" \in StepsOf(k.op) /\ AfterStop(c) \in StepsOf(k.op) /\ AfterStop(c) \in Steps
    BY <1>4, <1>m, <1>s DEF Cancel, StepsOf, Ops, AfterStop, Steps
  <2>3. CallsOK'
    BY <1>4, <2>2, GoesTypes, EndsTypes DEF Cancel, Steps, Words
  <2> QED
    BY <1>4, <2>1, <2>3, ReactionTypes DEF Cancel, Reaction
<1>5. CASE Check(c)
  <2>1. AfterStop(c) \in StepsOf(k.op) /\ AfterStop(c) \in Steps
    BY <1>5, <1>m, <1>s DEF Check, StepsOf, Ops, AfterStop, Steps
  <2>2. CallsOK'
    BY <1>5, <2>1, GoesTypes, EndsTypes DEF Check, Words
  <2> QED
    BY <1>5, <2>2 DEF Check, ReadFails, ServerOK, server
<1>6. CASE Create(c)
  <2>1. Of(c, "create", k.new) \in Request
    BY <1>m, RequestsOfCalls
  <2>2. "file" \in StepsOf(k.op) /\ "lookup" \in StepsOf(k.op)
    BY <1>6, <1>m, <1>s DEF Create, StepsOf, Ops
  <2>3. CallsOK'
    BY <1>6, <2>2, GoesTypes, EndsTypes DEF Create, Steps, Words
  <2> QED
    BY <1>6, <2>1, <2>3, ReactionTypes DEF Create, Reaction
<1>7. CASE Lookup(c)
  <2>1. "file" \in StepsOf(k.op)
    BY <1>7, <1>m, <1>s DEF Lookup, StepsOf, Ops
  <2>2. CallsOK'
    BY <1>7, <2>1, GoesTypes, EndsTypes DEF Lookup, Steps, Words
  <2> QED
    BY <1>7, <2>2 DEF Lookup, ReadFails, ServerOK, server
<1>8. CASE Download(c)
  <2>1. "file" \in StepsOf(k.op) /\ "destroy" \in StepsOf(k.op)
    BY <1>8, <1>m, <1>s DEF Download, StepsOf, Ops
  <2>2. CallsOK'
    BY <1>8, <2>1, GoesTypes DEF Download, Steps
  <2> QED
    BY <1>8, <2>2 DEF Download, ReadFails, ServerOK, server
<1>9. CASE Destroy(c)
  <2>1. Of(c, "destroy", k.sub) \in Request
    BY <1>m, RequestsOfCalls
  <2> QED
    BY <1>9, <2>1, ReactionTypes, EndsTypes DEF Destroy, Reaction, Words
<1>10. CASE File(c)
  <2>1. Of(c, "file", k.sub) \in Request
    BY <1>m, RequestsOfCalls
  <2>2. Outcome(c, "stopped", "drafts") \in Words /\ Outcome(c, "unsure", "stopped") \in Words
    BY DEF Outcome, Words
  <2> QED
    BY <1>10, <2>1, <2>2, ReactionTypes, EndsTypes DEF File, Reaction
<1> QED
  BY <1>1, <1>2, <1>3, <1>4, <1>5, <1>6, <1>7, <1>8, <1>9, <1>10 DEF CallStep

\* Every step keeps it.
LEMMA StaysWellFormed == Spec => []WellFormed
<1>1. WellFormed /\ [Next]_vars => WellFormed'
  <2> SUFFICES ASSUME WellFormed, [Next]_vars PROVE WellFormed'
    OBVIOUS
  <2>1. ASSUME NEW c \in Calls, NEW m \in Mails, NEW new \in Subs, Schedule(c, m, new) PROVE WellFormed'
    BY <2>1, BeginTypes DEF Schedule, Ops, Steps, StepsOf
  <2>2. ASSUME NEW c \in Calls, NEW op \in Ops, NEW s \in Subs, NEW new \in Subs, Begin(c, op, s, new) PROVE WellFormed'
    <3>1. of[s] \in Mails
      BY DEF WellFormed, ServerOK
    <3>2. "look" \in Steps /\ "look" \in StepsOf(op)
      BY <2>2 DEF Begin, Steps, StepsOf, Ops
    <3> QED
      BY <2>2, <3>1, <3>2, BeginTypes DEF Begin
  <2>3. ASSUME NEW c \in Calls, Stops(c) PROVE WellFormed'
    BY <2>3, GoneTypes DEF Stops, WellFormed, ServerOK, server
  <2>4. ASSUME NEW s \in Subs, Fires(s) PROVE WellFormed'
    BY <2>4 DEF Fires, Waits, WellFormed, ServerOK, CallsOK, Statuses
  <2>5. ASSUME NEW r \in late, LateArrives(r) PROVE WellFormed'
    <3>1. r \in Request /\ late' \in SUBSET Request
      BY <2>5 DEF LateArrives, WellFormed
    <3>2. ServerOK'
      BY <2>5, <3>1, CarriesTypes DEF LateArrives, WellFormed, ServerOK, server
    <3> QED
      BY <2>5, <3>1, <3>2 DEF LateArrives, WellFormed, CallsOK
  <2>6. UNCHANGED vars => WellFormed'
    BY DEF vars, WellFormed, ServerOK, CallsOK
  <2> QED
    BY <2>1, <2>2, <2>3, <2>4, <2>5, <2>6, CallStepTypes DEF Next
<1> QED
  BY <1>1, InitTypes, PTL DEF Spec

\* Type correctness in every reachable state: a call is at a step of its own operation, and only
\* a stored mail has submissions.
THEOREM TypesHold == Spec => []TypeOK
<1>1. Init => CutOK
  BY DEF Init, CutOK
<1>2. WellFormed /\ CutOK /\ [Next]_vars => CutOK'
  <2> SUFFICES ASSUME WellFormed, CutOK, [Next]_vars PROVE CutOK'
    OBVIOUS
  <2>1. ASSUME NEW c \in Calls, Stops(c) PROVE CutOK'
    BY <2>1 DEF Stops, WellFormed, CallsOK, Call, CutOK
  <2>2. ASSUME NEW r \in late, LateArrives(r) PROVE CutOK'
    BY <2>2 DEF LateArrives, WellFormed, Request, CutOK
  <2>3. (\A c \in Calls : ~Stops(c)) /\ (\A r \in late : ~LateArrives(r)) => UNCHANGED cut
    BY DEF Next, vars, Schedule, Begin, Fires
  <2> QED
    BY <2>1, <2>2, <2>3 DEF CutOK
<1>3. WellFormed /\ CutOK => TypeOK
  BY DEF WellFormed, CutOK, TypeOK
<1> QED
  BY <1>1, <1>2, <1>3, StaysWellFormed, PTL DEF Spec

-----------------------------------------------------------------------------
(***************************************************************************)
(* What the server and the requests on their way to it look like when no    *)
(* mail can go twice.                                                       *)
(***************************************************************************)

Makes(r) == r.kind \in {"submit", "create"}

\* A submission id is given out once: no two requests that may still arrive share it, and the
\* server hasn't seen it.
LateIdsAreFree ==
    /\ \A r \in late : Makes(r) => status[r.sub] = "none"
    /\ \A r, q \in late : Makes(r) /\ Makes(q) /\ r.sub = q.sub => r = q

NothingComes(m) == \A r \in late : r.kind = "create" => r.mail # m

\* While a new submission may still arrive, its mail has no other, on the server or on its way.
LateOnesAreAlone ==
    /\ \A r \in late : r.kind = "create" => place[r.mail] # "none" /\ ~HasLive(r.mail)
    /\ \A r, q \in late : r.kind = "create" /\ q.kind = "create" /\ r.mail = q.mail => r = q

Sound == NeverTwice /\ LateIdsAreFree /\ LateOnesAreAlone

\* What a call knows: its new id is its own; its submission is of its mail; once it has seen
\* that wait, it is the mail's only one; and before it makes a new one, there is none.
Informed(k) ==
    /\ k.at \in {"submit", "look", "cancel", "check", "create"} =>
          status[k.new] = "none" /\ \A r \in late : Makes(r) => r.sub # k.new
    /\ k.at \in {"look", "cancel", "check", "create"} => of[k.sub] = k.mail /\ status[k.sub] # "none"
    /\ k.at \in {"cancel", "check"} =>
          NothingComes(k.mail) /\ \A s \in Subs : of[s] = k.mail /\ Live(s) => s = k.sub
    /\ k.at = "create" => NothingComes(k.mail) /\ ~HasLive(k.mail)

OneAtATime == Sound /\ \A c \in Calls : Informed(call[c])

\* A call at any other step knows nothing that matters here.
LEMMA OthersAreInformed ==
  ASSUME NEW k, k.at \notin {"submit", "look", "cancel", "check", "create"}
  PROVE  Informed(k)
  BY DEF Informed

(***************************************************************************)
(* Most steps make no submission: they may end some, and move mails.        *)
(***************************************************************************)
Calm ==
    /\ of' = of
    /\ \A s \in Subs : (status'[s] = "none") = (status[s] = "none") /\ (Live(s)' => Live(s))
    /\ \A m \in Mails : place[m] # "none" => place'[m] # "none"
    /\ \A r : Makes(r) => (r \in late') = (r \in late)

LEMMA CalmKeeps ==
  ASSUME WellFormed, Sound, Calm
  PROVE  /\ Sound'
         /\ \A k \in Call : Informed(k) => Informed(k)'
<1>1. NeverTwice'
  BY DEF Sound, Calm, NeverTwice
<1>2. \A r : r.kind = "create" => Makes(r)
  BY DEF Makes
<1>3. \A r \in late : Makes(r) => r.sub \in Subs /\ r.mail \in Mails
  BY DEF WellFormed, Request
<1>4. LateIdsAreFree'
  BY <1>3 DEF Sound, Calm, LateIdsAreFree, Makes
<1>5. \A m \in Mails : HasLive(m)' => HasLive(m)
  BY DEF Calm, HasLive
<1>6. LateOnesAreAlone'
  BY <1>2, <1>3, <1>5 DEF Sound, Calm, LateOnesAreAlone
<1>7. ASSUME NEW k \in Call, Informed(k) PROVE Informed(k)'
  <2>1. k.mail \in Mails /\ k.sub \in Subs /\ k.new \in Subs
    BY DEF Call
  <2>2. NothingComes(k.mail) => NothingComes(k.mail)'
    BY <1>2 DEF Calm, NothingComes
  <2> QED
    BY <1>5, <1>7, <2>1, <2>2 DEF Calm, Informed, Makes
<1> QED
  BY <1>1, <1>4, <1>6, <1>7 DEF Sound

\* A request that makes none is calm, whether it is answered, breaks off or comes late.
LEMMA CarriesCalmly ==
  ASSUME WellFormed, NEW r \in Request, ~Makes(r), Accepts(r), Carries(r),
         \A q : Makes(q) => (q \in late') = (q \in late)
  PROVE  Calm
  BY DEF WellFormed, ServerOK, Request, Makes, Accepts, Carries, Puts, Turns, Calm, Live

LEMMA StillIsCalm ==
  ASSUME UNCHANGED server, \A q : Makes(q) => (q \in late') = (q \in late)
  PROVE  Calm
  BY DEF server, Calm, Live

LEMMA ReactsCalmly ==
  ASSUME WellFormed, NEW r \in Request, ~Makes(r), Reaction(r)
  PROVE  Calm
<1>1. \A q : Makes(q) => (q \in late') = (q \in late)
  BY DEF Reaction, Answered, Denied, Refused, BreaksOff, Makes
<1> QED
  BY <1>1, CarriesCalmly, StillIsCalm DEF Reaction, Answered, Denied, Refused, BreaksOff

(***************************************************************************)
(* The steps that make a submission.                                       *)
(***************************************************************************)

\* A request that makes the first live submission of its mail, under an id nobody else has.
MayMake(r) ==
    /\ status[r.sub] = "none"
    /\ \A q \in late : Makes(q) /\ q.sub = r.sub => q = r
    /\ r.kind = "create" =>
          ~HasLive(r.mail) /\ \A q \in late : q.kind = "create" /\ q.mail = r.mail => q = r

LEMMA MakingIsSound ==
  ASSUME WellFormed, Sound, NEW r \in Request, Makes(r), MayMake(r), Accepts(r), Carries(r), late' = late \ {r}
  PROVE  Sound'
<1>1. /\ status' = [status EXCEPT ![r.sub] = "pending"] /\ of' = [of EXCEPT ![r.sub] = r.mail]
      /\ r.sub \in Subs /\ r.mail \in Mails
  BY DEF Makes, Carries, Turns, Request
<1>2. ~HasLive(r.mail)
  <2>1. CASE r.kind = "create"
    BY <2>1 DEF MayMake
  <2>2. CASE r.kind = "submit"
    BY <2>2 DEF Accepts, WellFormed, ServerOK, HasLive, Live
  <2> QED
    BY <2>1, <2>2 DEF Makes
<1>3. \A s \in Subs : Live(s)' => s = r.sub \/ (Live(s) /\ of'[s] = of[s])
  BY <1>1 DEF WellFormed, ServerOK, Live
<1>4. NeverTwice'
  BY <1>1, <1>2, <1>3 DEF Sound, NeverTwice, HasLive, WellFormed, ServerOK
<1>5. LateIdsAreFree'
  <2>1. \A q \in late' : Makes(q) => q \in late /\ q.sub # r.sub /\ q.sub \in Subs
    BY DEF MayMake, WellFormed, Request
  <2> QED
    BY <1>1, <2>1 DEF Sound, LateIdsAreFree, WellFormed, ServerOK, Makes
<1>6. ASSUME NEW q \in late', q.kind = "create" PROVE place'[q.mail] # "none" /\ ~HasLive(q.mail)'
  <2>1. q \in late /\ q # r /\ q.mail \in Mails
    BY DEF WellFormed, Request
  <2>2. place[q.mail] # "none" /\ ~HasLive(q.mail)
    BY <1>6, <2>1 DEF Sound, LateOnesAreAlone
  <2>3. q.mail # r.mail
    <3>1. CASE r.kind = "create"
      BY <1>6, <2>1, <3>1 DEF MayMake
    <3>2. CASE r.kind = "submit"
      BY <2>2, <3>2 DEF Accepts
    <3> QED
      BY <3>1, <3>2 DEF Makes
  <2>4. place'[q.mail] # "none"
    BY <1>1, <2>1, <2>2, <2>3 DEF Makes, Carries, Puts, WellFormed, ServerOK
  <2>5. ~HasLive(q.mail)'
    BY <1>1, <1>3, <2>2, <2>3 DEF HasLive, WellFormed, ServerOK
  <2> QED
    BY <2>4, <2>5
<1>7. LateOnesAreAlone'
  BY <1>6 DEF Sound, LateOnesAreAlone
<1> QED
  BY <1>4, <1>5, <1>7 DEF Sound

\* What arrives late makes nobody's knowledge wrong: its mail is none that a call is about to
\* submit, and its id is nobody else's.
LEMMA ArrivingKeepsInformed ==
  ASSUME WellFormed, Sound, NEW r \in late, Makes(r), Accepts(r), Carries(r), late' = late \ {r},
         NEW k \in Call, Informed(k)
  PROVE  Informed(k)'
<1>1. /\ status' = [status EXCEPT ![r.sub] = "pending"] /\ of' = [of EXCEPT ![r.sub] = r.mail]
      /\ r.sub \in Subs /\ r.mail \in Mails
  BY DEF Makes, Carries, Turns, Request, WellFormed
<1>2. status[r.sub] = "none"
  BY DEF Sound, LateIdsAreFree
<1>k. k.sub \in Subs /\ k.new \in Subs /\ k.mail \in Mails
  BY DEF Call
<1>3. ASSUME k.at \in {"submit", "look", "cancel", "check", "create"}
      PROVE  status'[k.new] = "none" /\ \A q \in late' : Makes(q) => q.sub # k.new
  BY <1>1, <1>3, <1>k DEF Informed, WellFormed, ServerOK
<1>4. ASSUME k.at \in {"look", "cancel", "check", "create"}
      PROVE  of'[k.sub] = k.mail /\ status'[k.sub] # "none"
  BY <1>1, <1>2, <1>4, <1>k DEF Informed, WellFormed, ServerOK
<1>5. ASSUME k.at \in {"cancel", "check", "create"} PROVE r.mail # k.mail
  <2>1. CASE r.kind = "create"
    BY <1>5, <2>1 DEF Informed, NothingComes
  <2>2. CASE r.kind = "submit"
    <3>1. of[k.sub] = k.mail /\ status[k.sub] # "none"
      BY <1>5 DEF Informed
    <3> QED
      BY <1>k, <2>2, <3>1 DEF Accepts, WellFormed, ServerOK
  <2> QED
    BY <2>1, <2>2 DEF Makes
<1>6. \A s \in Subs : Live(s)' => s = r.sub \/ (Live(s) /\ of'[s] = of[s])
  BY <1>1 DEF WellFormed, ServerOK, Live
<1>7. ASSUME k.at \in {"cancel", "check"}
      PROVE  NothingComes(k.mail)' /\ \A s \in Subs : of'[s] = k.mail /\ Live(s)' => s = k.sub
  <2>1. NothingComes(k.mail) /\ \A s \in Subs : of[s] = k.mail /\ Live(s) => s = k.sub
    BY <1>7 DEF Informed
  <2>2. NothingComes(k.mail)'
    BY <2>1 DEF NothingComes
  <2>3. of'[r.sub] # k.mail
    BY <1>1, <1>5, <1>7 DEF WellFormed, ServerOK
  <2> QED
    BY <1>6, <2>1, <2>2, <2>3
<1>8. ASSUME k.at = "create" PROVE NothingComes(k.mail)' /\ ~HasLive(k.mail)'
  <2>1. NothingComes(k.mail) /\ ~HasLive(k.mail)
    BY <1>8 DEF Informed
  <2>2. NothingComes(k.mail)'
    BY <2>1 DEF NothingComes
  <2>3. of'[r.sub] # k.mail
    BY <1>1, <1>5, <1>8 DEF WellFormed, ServerOK
  <2> QED
    BY <1>6, <2>1, <2>2, <2>3 DEF HasLive
<1> QED
  BY <1>3, <1>4, <1>7, <1>8 DEF Informed

\* A request that makes one may also be left on its way.
LEMMA LeavingIsSound ==
  ASSUME WellFormed, Sound, NEW r \in Request, Makes(r), MayMake(r), r.kind = "create" => place[r.mail] # "none",
         UNCHANGED server, late' = late \union {r}
  PROVE  Sound'
<1>1. NeverTwice'
  BY DEF server, Sound, NeverTwice, Live
<1>2. LateIdsAreFree'
  BY DEF server, Sound, LateIdsAreFree, MayMake
<1>3. LateOnesAreAlone'
  BY DEF server, Sound, LateOnesAreAlone, MayMake, HasLive, Live
<1> QED
  BY <1>1, <1>2, <1>3 DEF Sound

LEMMA MakerReactsSoundly ==
  ASSUME WellFormed, Sound, NEW r \in Request, r \notin late, Makes(r), MayMake(r),
         r.kind = "create" => place[r.mail] # "none", Reaction(r)
  PROVE  Sound'
<1>1. CASE UNCHANGED <<server, late>>
  BY <1>1, StillIsCalm, CalmKeeps
<1>2. CASE Accepts(r) /\ Carries(r) /\ UNCHANGED late
  BY <1>2, MakingIsSound
<1>3. CASE late' = late \union {r} /\ UNCHANGED server
  BY <1>3, LeavingIsSound
<1> QED
  BY <1>1, <1>2, <1>3 DEF Reaction, Answered, Denied, Refused, BreaksOff

-----------------------------------------------------------------------------
(***************************************************************************)
(* One client: a mail never goes twice.                                    *)
(***************************************************************************)

OneClient == \A c, d \in Calls : c = d

\* The only call went on to k: the others aren't.
LEMMA OneCallGoes ==
  ASSUME OneClient, CallsOK, NEW c \in Calls, NEW k, call' = [call EXCEPT ![c] = k], Informed(k)',
         Sound'
  PROVE  OneAtATime'
<1>1. call'[c] = k
  BY DEF CallsOK
<1>2. \A d \in Calls : d = c
  BY DEF OneClient
<1> QED
  BY <1>1, <1>2 DEF OneAtATime, Informed, NothingComes, HasLive, Live

LEMMA EndedKeeps ==
  ASSUME OneClient, WellFormed, NEW c \in Calls, Gone(c), Sound'
  PROVE  OneAtATime'
<1>1. NoCall.at = "idle"
  BY DEF NoCall
<1>2. Informed(NoCall)'
  BY <1>1 DEF Informed
<1> QED
  BY <1>2, OneCallGoes DEF Gone, WellFormed

\* Steps after which a call knows nothing any more.
LEMMA GoesOnUninformed ==
  ASSUME OneClient, WellFormed, NEW c \in Calls, NEW step \in {"undo", "lookup", "download", "destroy", "file"},
         Goes(c, step), Sound'
  PROVE  OneAtATime'
<1>0. PICK k : k = [call[c] EXCEPT !.at = step]
  OBVIOUS
<1>1. call' = [call EXCEPT ![c] = k]
  BY <1>0 DEF Goes
<1>2. k.at = step
  BY <1>0 DEF WellFormed, CallsOK, Call
<1>3. Informed(k)'
  BY <1>2 DEF Informed
<1> QED
  BY <1>1, <1>3, OneCallGoes DEF WellFormed

\* Once the submission is certainly cancelled, nothing of the mail is left.
LEMMA CancelledGoesOn ==
  ASSUME OneClient, WellFormed, OneAtATime, Calm, NEW c \in Calls, call[c].at \in {"cancel", "check"},
         status'[call[c].sub] = "canceled", Goes(c, AfterStop(c))
  PROVE  OneAtATime'
<1>0. PICK k \in Call : k = call[c]
  BY DEF WellFormed, CallsOK
<1>1. Sound' /\ Informed(k)'
  BY <1>0, CalmKeeps DEF OneAtATime
<1>k. k.mail \in Mails /\ k.sub \in Subs /\ k.at \in {"cancel", "check"} /\ ~Live(k.sub)'
  BY <1>0 DEF Call, Live
<1>2. CASE k.op = "move"
  <2> DEFINE n == [k EXCEPT !.at = "create"]
  <2>1. /\ n.at = "create" /\ n.mail = k.mail /\ n.sub = k.sub /\ n.new = k.new
        /\ call' = [call EXCEPT ![c] = n]
    BY <1>0, <1>2 DEF Call, Goes, AfterStop
  <2>2. NothingComes(k.mail)' /\ ~HasLive(k.mail)'
    BY <1>1, <1>k DEF Informed, HasLive
  <2>3. /\ status'[k.new] = "none" /\ \A r \in late' : Makes(r) => r.sub # k.new
        /\ of'[k.sub] = k.mail /\ status'[k.sub] # "none"
    BY <1>1, <1>k DEF Informed
  <2>4. Informed(n)'
    BY <2>1, <2>2, <2>3 DEF Informed
  <2> HIDE DEF n
  <2> QED
    BY <1>1, <2>1, <2>4, OneCallGoes DEF WellFormed
<1>3. CASE k.op # "move"
  <2>1. AfterStop(c) \in {"file", "download"}
    BY <1>0, <1>3 DEF AfterStop
  <2> QED
    BY <1>1, <2>1, GoesOnUninformed
<1> QED
  BY <1>2, <1>3

LEMMA CallStepKeeps ==
  ASSUME OneClient, WellFormed, OneAtATime, NEW c \in Calls, CallStep(c)
  PROVE  OneAtATime'
<1>k. PICK k \in Call : k = call[c]
  BY DEF WellFormed, CallsOK
<1>0. k.mail \in Mails /\ k.sub \in Subs /\ k.new \in Subs /\ Sound /\ Informed(k)
  BY <1>k DEF OneAtATime, Call
<1> USE <1>k
<1>c. Calm => Sound' /\ Informed(k)'
  BY <1>0, CalmKeeps
<1>u. UNCHANGED <<server, late>> => Calm
  BY StillIsCalm
<1>1. CASE Submit(c)
  <2> DEFINE r == Of(c, "submit", k.new)
  <2>1. /\ r \in Request /\ r.kind = "submit" /\ r.sub = k.new /\ r.mail = k.mail
    BY <1>0, RequestsOfCalls DEF Of, WellFormed
  <2>2. MayMake(r) /\ r \notin late
    BY <1>0, <1>1, <2>1 DEF Submit, At, Informed, MayMake, Makes
  <2>3. Reaction(r) => Sound'
    BY <1>0, <2>1, <2>2, MakerReactsSoundly DEF Makes
  <2>4. place' = [place EXCEPT ![k.mail] = "sent"] /\ UNCHANGED <<status, of, late>> => Calm
    BY <1>0 DEF Calm, WellFormed, ServerOK, Live
  <2> HIDE DEF r
  <2>5. (Reaction(r) /\ Gone(c)) \/ (Calm /\ Goes(c, "undo"))
    BY <1>1, <2>1, <2>4 DEF Submit, Reaction, Ends, r
  <2> QED
    BY <1>c, <2>3, <2>5, EndedKeeps, GoesOnUninformed
<1>2. CASE Undo(c)
  <2>1. Of(c, "undo", k.new) \in Request /\ ~Makes(Of(c, "undo", k.new))
    BY <1>0, RequestsOfCalls DEF Of, WellFormed, Makes
  <2>2. Reaction(Of(c, "undo", k.new)) /\ Gone(c)
    BY <1>2 DEF Undo, Reaction, Ends
  <2> QED
    BY <1>c, <2>1, <2>2, ReactsCalmly, EndedKeeps
<1>3. CASE Look(c)
  <2>1. Calm
    BY <1>3, <1>u DEF Look, ReadFails
  <2>2. CASE Gone(c)
    BY <1>c, <2>1, <2>2, EndedKeeps
  <2>3. CASE Waits(k.sub) /\ Goes(c, "cancel") /\ UNCHANGED <<server, late>>
    <3> DEFINE n == [k EXCEPT !.at = "cancel"]
    <3>1. /\ n.at = "cancel" /\ n.mail = k.mail /\ n.sub = k.sub /\ n.new = k.new /\ n \in Call
          /\ call' = [call EXCEPT ![c] = n]
      BY <1>0, <2>3 DEF Call, Goes, Steps
    <3>2. k.at = "look" /\ of[k.sub] = k.mail /\ Live(k.sub)
      BY <1>0, <1>3, <2>3 DEF Look, At, Informed, Waits, Live
    <3>3. NothingComes(k.mail)
      BY <1>0, <3>2 DEF Sound, LateOnesAreAlone, NothingComes, HasLive
    <3>4. \A s \in Subs : of[s] = k.mail /\ Live(s) => s = k.sub
      BY <1>0, <3>2 DEF Sound, NeverTwice
    <3>5. status[k.new] = "none" /\ (\A r \in late : Makes(r) => r.sub # k.new) /\ status[k.sub] # "none"
      BY <1>0, <3>2 DEF Informed
    <3>6. Informed(n)
      BY <3>1, <3>2, <3>3, <3>4, <3>5 DEF Informed
    <3> HIDE DEF n
    <3> QED
      BY <1>0, <2>1, <3>1, <3>6, CalmKeeps, OneCallGoes DEF WellFormed
  <2> QED
    BY <1>3, <2>2, <2>3 DEF Look, Ends
<1>4. CASE Cancel(c)
  <2> DEFINE r == Of(c, "cancel", k.sub)
  <2>1. r \in Request /\ ~Makes(r) /\ r.kind = "cancel" /\ r.sub = k.sub
    BY <1>0, RequestsOfCalls DEF Of, WellFormed, Makes
  <2> HIDE DEF r
  <2>2. Calm
    BY <1>4, <2>1, ReactsCalmly DEF Cancel, Reaction, r
  <2>3. CASE Answered(r) /\ Goes(c, AfterStop(c))
    <3>1. status'[k.sub] = "canceled"
      BY <1>0, <2>1, <2>3 DEF Answered, Carries, Turns, WellFormed, ServerOK
    <3> QED
      BY <1>4, <2>2, <2>3, <3>1, CancelledGoesOn DEF Cancel, At
  <2>4. CASE Gone(c)
    BY <1>c, <2>2, <2>4, EndedKeeps
  <2>5. CASE Goes(c, "check")
    <3> DEFINE n == [k EXCEPT !.at = "check"]
    <3>1. /\ n.at = "check" /\ n.mail = k.mail /\ n.sub = k.sub /\ n.new = k.new /\ n \in Call
          /\ call' = [call EXCEPT ![c] = n] /\ k.at = "cancel"
      BY <1>0, <1>4, <2>5 DEF Call, Goes, Steps, Cancel, At
    <3>2. Informed(n)
      BY <1>0, <3>1 DEF Informed
    <3> HIDE DEF n
    <3> QED
      BY <1>0, <2>2, <3>1, <3>2, CalmKeeps, OneCallGoes DEF WellFormed
  <2> QED
    BY <1>4, <2>3, <2>4, <2>5 DEF Cancel, Ends, r
<1>5. CASE Check(c)
  <2>1. Calm
    BY <1>5, <1>u DEF Check, ReadFails
  <2>2. CASE Gone(c)
    BY <1>c, <2>1, <2>2, EndedKeeps
  <2>3. CASE status[k.sub] = "canceled" /\ Goes(c, AfterStop(c)) /\ UNCHANGED <<server, late>>
    <3>1. status'[k.sub] = "canceled"
      BY <2>3 DEF server
    <3> QED
      BY <1>5, <2>1, <2>3, <3>1, CancelledGoesOn DEF Check, At
  <2> QED
    BY <1>5, <2>2, <2>3 DEF Check, Ends
<1>6. CASE Create(c)
  <2> DEFINE r == Of(c, "create", k.new)
  <2>1. r \in Request /\ r.kind = "create" /\ r.sub = k.new /\ r.mail = k.mail
    BY <1>0, RequestsOfCalls DEF Of, WellFormed
  <2>2. k.at = "create"
    BY <1>6 DEF Create, At
  <2>3. MayMake(r) /\ r \notin late
    BY <1>0, <2>1, <2>2 DEF Informed, MayMake, Makes, NothingComes
  <2>4. place[r.mail] # "none"
    BY <1>0, <2>1, <2>2 DEF Informed, WellFormed, ServerOK
  <2> HIDE DEF r
  <2>5. Reaction(r) /\ (Gone(c) \/ Goes(c, "file") \/ Goes(c, "lookup"))
    BY <1>6 DEF Create, Reaction, Ends, r
  <2>6. Sound'
    BY <1>0, <2>1, <2>3, <2>4, <2>5, MakerReactsSoundly DEF Makes
  <2> QED
    BY <2>5, <2>6, EndedKeeps, GoesOnUninformed
<1>7. CASE Lookup(c) \/ Download(c)
  <2>1. Calm /\ (Gone(c) \/ Goes(c, "file") \/ Goes(c, "destroy"))
    BY <1>7, <1>u DEF Lookup, Download, ReadFails, Ends
  <2> QED
    BY <1>c, <2>1, EndedKeeps, GoesOnUninformed
<1>8. CASE Destroy(c)
  <2>1. Of(c, "destroy", k.sub) \in Request /\ ~Makes(Of(c, "destroy", k.sub))
    BY <1>0, RequestsOfCalls DEF Of, WellFormed, Makes
  <2>2. Reaction(Of(c, "destroy", k.sub)) /\ Gone(c)
    BY <1>8 DEF Destroy, Reaction, Ends
  <2> QED
    BY <1>c, <2>1, <2>2, ReactsCalmly, EndedKeeps
<1>9. CASE File(c)
  <2>1. Of(c, "file", k.sub) \in Request /\ ~Makes(Of(c, "file", k.sub))
    BY <1>0, RequestsOfCalls DEF Of, WellFormed, Makes
  <2>2. Reaction(Of(c, "file", k.sub)) /\ Gone(c)
    BY <1>9 DEF File, Reaction, Ends
  <2> QED
    BY <1>c, <2>1, <2>2, ReactsCalmly, EndedKeeps
<1> QED
  BY <1>1, <1>2, <1>3, <1>4, <1>5, <1>6, <1>7, <1>8, <1>9 DEF CallStep

\* What happens without the call: the server sends, or an old request arrives.
LEMMA ServerStepKeeps ==
  ASSUME WellFormed, OneAtATime, UNCHANGED call,
         (\E s \in Subs : Fires(s)) \/ (\E r \in late : LateArrives(r)) \/ UNCHANGED vars
  PROVE  OneAtATime'
<1>1. \A c \in Calls : call[c] \in Call /\ Informed(call[c])
  BY DEF WellFormed, CallsOK, OneAtATime
<1>2. CASE Calm
  <2>1. \A c \in Calls : \A k \in Call : k = call[c] => Informed(k)'
    BY <1>1, <1>2, CalmKeeps DEF OneAtATime
  <2> QED
    BY <1>1, <1>2, <2>1, CalmKeeps DEF OneAtATime, Informed, NothingComes, HasLive, Live
<1>3. ASSUME NEW s \in Subs, Fires(s) PROVE Calm
  BY <1>3 DEF Fires, Waits, Calm, Live, WellFormed, ServerOK
<1>4. ASSUME NEW r \in late, LateArrives(r), ~Calm PROVE OneAtATime'
  <2>1. r \in Request /\ late' = late \ {r}
    BY <1>4 DEF WellFormed, LateArrives
  <2>2. Makes(r)
    <3> SUFFICES ASSUME ~Makes(r) PROVE FALSE
      OBVIOUS
    <3>1. \A q : Makes(q) => (q \in late') = (q \in late)
      BY <2>1
    <3> QED
      BY <1>4, <2>1, <3>1, CarriesCalmly, StillIsCalm DEF LateArrives
  <2>3. CASE Accepts(r) /\ Carries(r)
    <3>1. MayMake(r)
      BY <1>4, <2>2 DEF OneAtATime, Sound, LateIdsAreFree, LateOnesAreAlone, MayMake
    <3>2. Sound'
      BY <2>1, <2>2, <2>3, <3>1, MakingIsSound DEF OneAtATime
    <3>3. \A c \in Calls : \A k \in Call : k = call[c] => Informed(k)'
      BY <1>1, <1>4, <2>1, <2>2, <2>3, ArrivingKeepsInformed DEF OneAtATime
    <3> QED
      BY <1>1, <3>2, <3>3 DEF OneAtATime, Informed, NothingComes, HasLive, Live
  <2>4. CASE UNCHANGED server
    <3>1. Sound'
      BY <2>1, <2>4 DEF server, OneAtATime, Sound, NeverTwice, LateIdsAreFree, LateOnesAreAlone, HasLive, Live
    <3>2. \A c \in Calls : Informed(call[c])'
      BY <1>1, <2>1, <2>4 DEF server, Informed, NothingComes, HasLive, Live
    <3> QED
      BY <3>1, <3>2 DEF OneAtATime
  <2> QED
    BY <1>4, <2>3, <2>4 DEF LateArrives
<1>5. UNCHANGED vars => Calm
  BY StillIsCalm DEF vars, server
<1> QED
  BY <1>2, <1>3, <1>4, <1>5

LEMMA BeginKeeps ==
  ASSUME OneClient, WellFormed, OneAtATime, NEW c \in Calls, NEW new \in Subs,
         (\E m \in Mails : Schedule(c, m, new)) \/ (\E op \in Ops, s \in Subs : Begin(c, op, s, new))
  PROVE  OneAtATime'
<1>1. status[new] = "none" /\ \A r \in late : r.sub # new
  BY DEF Schedule, Begin, Fresh
<1>2. Sound'
  BY StillIsCalm, CalmKeeps DEF OneAtATime, Schedule, Begin
<1>3. ASSUME NEW m \in Mails, Schedule(c, m, new) PROVE OneAtATime'
  <2> DEFINE k == [at |-> "submit", op |-> "submit", mail |-> m, sub |-> new, new |-> new]
  <2>1. k.at = "submit" /\ k.new = new /\ call' = [call EXCEPT ![c] = k]
    BY <1>3 DEF Schedule
  <2>2. UNCHANGED <<server, late>>
    BY <1>3 DEF Schedule
  <2> HIDE DEF k
  <2>3. Informed(k)'
    BY <1>1, <2>1, <2>2 DEF Informed, server
  <2> QED
    BY <1>2, <2>1, <2>3, OneCallGoes DEF WellFormed
<1>4. ASSUME NEW op \in Ops, NEW s \in Subs, Begin(c, op, s, new) PROVE OneAtATime'
  <2>0. PICK m : m = of[s]
    OBVIOUS
  <2> DEFINE k == [at |-> "look", op |-> op, mail |-> m, sub |-> s, new |-> new]
  <2>1. /\ k.at = "look" /\ k.new = new /\ k.sub = s /\ k.mail = of[s]
        /\ call' = [call EXCEPT ![c] = k] /\ status[s] # "none"
    BY <1>4, <2>0 DEF Begin
  <2>2. UNCHANGED <<server, late>>
    BY <1>4 DEF Begin
  <2> HIDE DEF k
  <2>3. Informed(k)'
    BY <1>1, <2>1, <2>2 DEF Informed, server
  <2> QED
    BY <1>2, <2>1, <2>3, OneCallGoes DEF WellFormed
<1> QED
  BY <1>3, <1>4

LEMMA InitOneAtATime == Init => OneAtATime
<1> SUFFICES ASSUME Init PROVE OneAtATime
  OBVIOUS
<1>1. Sound
  BY DEF Init, Sound, NeverTwice, Live, LateIdsAreFree, LateOnesAreAlone
<1>2. NoCall.at = "idle"
  BY DEF NoCall
<1> QED
  BY <1>1, <1>2 DEF Init, OneAtATime, Informed

LEMMA OneAtATimeStep == ASSUME OneClient, WellFormed, OneAtATime, [Next]_vars PROVE OneAtATime'
<1>1. ASSUME NEW c \in Calls, Stops(c) PROVE OneAtATime'
  BY <1>1, StillIsCalm, CalmKeeps, EndedKeeps DEF Stops, OneAtATime
<1>2. ASSUME (\E s \in Subs : Fires(s)) \/ (\E r \in late : LateArrives(r)) \/ UNCHANGED vars PROVE OneAtATime'
  BY <1>2, ServerStepKeeps DEF Fires, LateArrives, vars
<1> QED
  BY <1>1, <1>2, BeginKeeps, CallStepKeeps DEF Next

\* Of the submissions the server ever has of a mail, at most one waits or went out, for one
\* client, whatever of its requests get lost, are answered with silence, come late, or are
\* followed by nothing because it stopped.
THEOREM OneClientNeverSendsTwice == ASSUME OneClient PROVE Spec => []NeverTwice
<1>1. Init => OneAtATime
  BY InitOneAtATime
<1>2. WellFormed /\ OneAtATime /\ [Next]_vars => OneAtATime'
  BY OneAtATimeStep
<1>3. OneAtATime => NeverTwice
  BY DEF OneAtATime, Sound
<1> QED
  BY <1>1, <1>2, <1>3, StaysWellFormed, PTL DEF Spec

-----------------------------------------------------------------------------
(***************************************************************************)
(* Theorems about what the person is told of mail the server holds: for one *)
(* client, any number of mails and submissions, with every fault, the word  *)
(* the person has is true of the server, unless a call was cut off.         *)
(***************************************************************************)

(***************************************************************************)
(* What holds of a mail, of a call and of what may come late.               *)
(***************************************************************************)

\* A mail that was put away is not going out.
PutAway(m) == place[m] \in {"drafts", "gone"} => ~HasLive(m)

\* A word is true of the mail.
Fits(m, word) ==
    /\ word = "scheduled" => HasLive(m)
    /\ word = "stopped" => ~HasLive(m)
    /\ place[m] = "sent" /\ ~HasLive(m) => word \notin {"nothing", "scheduled"}

\* A call has asked for something and not yet told what came of it.
Works(k) == k.at \notin {"idle", "look"}
Heard(m) == (\A c \in Calls : Works(call[c]) => call[c].mail # m) => Fits(m, told[m])

\* What a call has made sure of: its mail lies in Sent until it is moved, and when it is moved nothing
\* of it goes out.
StandsAt(m, s, step) ==
    /\ step \in {"cancel", "check", "create"} => place[m] = "sent"
    /\ step \in {"submit", "undo", "create", "file", "download", "destroy"} => ~HasLive(m)
    /\ step = "lookup" => status[s] # "none" /\ ~Live(s)
Stands(k) == k.mail \notin cut => StandsAt(k.mail, k.sub, k.at)

\* A cancellation that comes late is of the mail it says.
LateCancels == \A r \in late : r.kind = "cancel" => of[r.sub] = r.mail /\ status[r.sub] # "none"

Told ==
    /\ LateCancels
    /\ \A m \in Mails \ cut : PutAway(m) /\ Heard(m)
    /\ \A c \in Calls : Stands(call[c])

\* A step that has to do with one mail only.
OnlyTouches(x) == \A m \in Mails \ {x} : place'[m] = place[m] /\ (HasLive(m)' <=> HasLive(m))

\* Nothing that makes a promise fits anything.
LEMMA PlainFits == ASSUME NEW m, NEW word \in {"unsure", "late", "drafts"} PROVE Fits(m, word)'
  BY DEF Fits

LEMMA StillTouches == ASSUME UNCHANGED server, NEW x PROVE OnlyTouches(x)
  BY DEF server, OnlyTouches, HasLive, Live

LEMMA RequestTouches ==
  ASSUME WellFormed, LateCancels, NEW r \in Request, Makes(r) => status[r.sub] = "none",
         r.kind = "cancel" => of[r.sub] = r.mail /\ status[r.sub] # "none",
         (Accepts(r) /\ Carries(r)) \/ UNCHANGED server, late' \subseteq late \union {r}
  PROVE  OnlyTouches(r.mail) /\ LateCancels'
<1>0. r.mail \in Mails /\ r.sub \in Subs /\ ServerOK /\ \A q \in late : q \in Request
  BY DEF Request, WellFormed
<1>1. CASE UNCHANGED server
  BY <1>1, StillTouches DEF server, LateCancels
<1>2. CASE Accepts(r) /\ Carries(r)
  <2>1. CASE Makes(r)
    <3>1. /\ \A m \in Mails \ {r.mail} : place'[m] = place[m]
          /\ \A s \in Subs \ {r.sub} : status'[s] = status[s] /\ of'[s] = of[s]
          /\ of'[r.sub] = r.mail /\ status[r.sub] = "none"
      BY <1>0, <1>2, <2>1 DEF Makes, Carries, Puts, Turns, ServerOK
    <3>2. OnlyTouches(r.mail)
      BY <1>0, <3>1 DEF OnlyTouches, HasLive, Live
    <3>3. LateCancels'
      BY <1>0, <2>1, <3>1 DEF LateCancels, Makes, Request
    <3> QED
      BY <3>2, <3>3
  <2>2. CASE r.kind = "cancel"
    <3>1. /\ place' = place /\ of' = of /\ \A s \in Subs \ {r.sub} : status'[s] = status[s]
          /\ status'[r.sub] = "canceled" /\ of[r.sub] = r.mail
      BY <1>0, <1>2, <2>2 DEF Carries, Turns, ServerOK
    <3>2. OnlyTouches(r.mail)
      BY <1>0, <3>1 DEF OnlyTouches, HasLive, Live
    <3>3. LateCancels'
      BY <1>0, <3>1 DEF LateCancels, Request
    <3> QED
      BY <3>2, <3>3
  <2>3. CASE r.kind \in {"file", "undo", "destroy"}
    <3>1. status' = status /\ of' = of /\ \A m \in Mails \ {r.mail} : place'[m] = place[m]
      BY <1>0, <1>2, <2>3 DEF Carries, Puts, ServerOK
    <3>2. OnlyTouches(r.mail)
      BY <3>1 DEF OnlyTouches, HasLive, Live
    <3>3. LateCancels'
      BY <2>3, <3>1 DEF LateCancels
    <3> QED
      BY <3>2, <3>3
  <2> QED
    BY <2>1, <2>2, <2>3 DEF Makes, Request
<1> QED
  BY <1>1, <1>2

LEMMA ReactionTouches ==
  ASSUME WellFormed, LateCancels, NEW r \in Request, Makes(r) => status[r.sub] = "none",
         r.kind = "cancel" => of[r.sub] = r.mail /\ status[r.sub] # "none", Reaction(r)
  PROVE  OnlyTouches(r.mail) /\ LateCancels'
<1>1. ((Accepts(r) /\ Carries(r)) \/ UNCHANGED server) /\ late' \subseteq late \union {r}
  BY DEF Reaction, Answered, Denied, Refused, BreaksOff
<1> QED
  BY <1>1, RequestTouches

\* Without anything new, what isn't going out isn't later.
LEMMA CalmIsQuiet == ASSUME Calm, NEW m \in Mails, ~HasLive(m) PROVE ~HasLive(m)'
  BY DEF Calm, HasLive

(***************************************************************************)
(* The only call goes on: what has to be shown is about its mail only.      *)
(***************************************************************************)
LEMMA CallTells ==
  ASSUME OneClient, WellFormed, Told, NEW c \in Calls, NEW m \in Mails, NEW n,
         call[c].at # "idle", call[c].mail = m, n.at = "idle" \/ n.mail = m, call' = [call EXCEPT ![c] = n],
         LateCancels', cut' = cut, OnlyTouches(m), \A x \in Mails \ {m} : told'[x] = told[x],
         m \notin cut => /\ PutAway(m)' /\ (~Works(n) => Fits(m, told[m])')
                         /\ n.at # "idle" => StandsAt(m, n.sub, n.at)'
  PROVE  Told'
<1>1. call'[c] = n /\ \A d \in Calls : d = c
  BY DEF OneClient, WellFormed, CallsOK
<1>2. Stands(call[c])'
  BY <1>1 DEF Stands, StandsAt
<1>3. ASSUME NEW x \in Mails \ cut PROVE PutAway(x)' /\ Heard(x)'
  <2>1. CASE x = m
    BY <1>1, <1>3, <2>1 DEF Heard, Works
  <2>2. CASE x # m
    <3>1. PutAway(x) /\ Fits(x, told[x])
      BY <1>1, <1>3, <2>2 DEF Told, Heard
    <3>2. place'[x] = place[x] /\ (HasLive(x)' <=> HasLive(x)) /\ told'[x] = told[x]
      BY <2>2 DEF OnlyTouches
    <3> QED
      BY <3>1, <3>2 DEF PutAway, Heard, Fits
  <2> QED
    BY <2>1, <2>2
<1> QED
  BY <1>1, <1>2, <1>3 DEF Told

LEMMA EndTells ==
  ASSUME OneClient, WellFormed, Told, NEW c \in Calls, NEW m \in Mails, NEW word \in Words,
         call[c].at # "idle", call[c].mail = m, Ends(c, word),
         LateCancels', cut' = cut, OnlyTouches(m), m \notin cut => PutAway(m)' /\ Fits(m, word)'
  PROVE  Told'
<1>1. call' = [call EXCEPT ![c] = NoCall] /\ NoCall.at = "idle"
  BY DEF Ends, Gone, NoCall
<1>2. told'[m] = word /\ \A x \in Mails \ {m} : told'[x] = told[x]
  BY DEF Ends, WellFormed, CallsOK
<1>3. m \notin cut => Fits(m, told[m])'
  BY <1>2 DEF Fits
<1> QED
  BY <1>1, <1>2, <1>3, CallTells

LEMMA GoTells ==
  ASSUME OneClient, WellFormed, Told, NEW c \in Calls, NEW m \in Mails, NEW s, NEW step \in Steps \ {"idle", "look"},
         call[c].at # "idle", call[c].mail = m, call[c].sub = s, Goes(c, step),
         LateCancels', cut' = cut, OnlyTouches(m), m \notin cut => PutAway(m)' /\ StandsAt(m, s, step)'
  PROVE  Told'
<1>0. PICK n : n = [call[c] EXCEPT !.at = step]
  OBVIOUS
<1>1. n.at = step /\ n.mail = m /\ n.sub = s /\ call' = [call EXCEPT ![c] = n] /\ told' = told
  BY <1>0 DEF Goes, WellFormed, CallsOK, Call
<1>2. Works(n)
  BY <1>1 DEF Works
<1>3. m \notin cut => StandsAt(m, n.sub, n.at)'
  BY <1>1 DEF StandsAt
<1> QED
  BY <1>1, <1>2, <1>3, CallTells

(***************************************************************************)
(* The steps of a call.                                                    *)
(***************************************************************************)
LEMMA SubmitTells ==
  ASSUME OneClient, WellFormed, OneAtATime, Told, NEW c \in Calls, Submit(c) \/ Undo(c), cut' = cut PROVE Told'
<1>k. PICK k \in Call : k = call[c]
  BY DEF WellFormed, CallsOK
<1> DEFINE m == k.mail
<1>0. k.mail \in Mails /\ k.sub \in Subs /\ k.new \in Subs /\ Informed(k) /\ k.at \in {"submit", "undo"}
  BY <1>k DEF OneAtATime, Call, Submit, Undo, At
<1>1. m \notin cut => ~HasLive(m) /\ PutAway(m)
  BY <1>0, <1>k DEF Told, Stands, StandsAt
<1>2. CASE Submit(c)
  <2> DEFINE r == Of(c, "submit", k.new)
  <2>1. r \in Request /\ r.kind = "submit" /\ r.sub = k.new /\ r.mail = m
    BY <1>0, <1>k, RequestsOfCalls DEF Of, WellFormed
  <2> HIDE DEF r
  <2>2. k.at = "submit" /\ status[r.sub] = "none" /\ LateCancels
    BY <1>0, <1>2, <1>k, <2>1 DEF Submit, At, Informed, Told
  <2>3. Accepts(r) /\ Carries(r) => place'[m] = "sent" /\ HasLive(m)'
    BY <1>0, <2>1 DEF Carries, Puts, Turns, HasLive, Live, WellFormed, ServerOK
  <2>4. UNCHANGED server => (HasLive(m)' <=> HasLive(m)) /\ (PutAway(m) => PutAway(m)')
    BY DEF server, HasLive, Live, PutAway
  <2>5. CASE Answered(r) /\ Ends(c, "scheduled")
    <3>1. PutAway(m)' /\ Fits(m, "scheduled")'
      BY <2>3, <2>5 DEF Answered, PutAway, Fits
    <3>2. OnlyTouches(m) /\ LateCancels'
      BY <2>1, <2>2, <2>5, ReactionTouches DEF Reaction
    <3> QED
      BY <1>0, <1>k, <2>2, <2>5, <3>1, <3>2, EndTells DEF Words
  <2>6. CASE (Denied(r) \/ Refused \/ BreaksOff(r)) /\ Ends(c, "unsure")
    <3>1. m \notin cut => PutAway(m)'
      <4>1. UNCHANGED server \/ (Accepts(r) /\ Carries(r))
        BY <2>6 DEF Denied, Refused, BreaksOff
      <4> QED
        BY <1>1, <2>3, <2>4, <4>1 DEF PutAway
    <3>2. OnlyTouches(m) /\ LateCancels'
      BY <2>1, <2>2, <2>6, ReactionTouches DEF Reaction
    <3> QED
      BY <1>0, <1>k, <2>2, <2>6, <3>1, <3>2, PlainFits, EndTells DEF Words
  <2>7. CASE place' = [place EXCEPT ![r.mail] = "sent"] /\ Goes(c, "undo") /\ UNCHANGED <<status, of, late>>
    <3>1. OnlyTouches(m) /\ LateCancels'
      BY <2>1, <2>2, <2>7 DEF OnlyTouches, HasLive, Live, LateCancels, WellFormed, ServerOK
    <3>2. place'[m] = "sent" /\ (HasLive(m)' <=> HasLive(m))
      BY <1>0, <2>1, <2>7 DEF HasLive, Live, WellFormed, ServerOK
    <3>3. m \notin cut => PutAway(m)' /\ StandsAt(m, k.sub, "undo")'
      BY <1>1, <3>2 DEF PutAway, StandsAt
    <3> QED
      BY <1>0, <1>k, <2>2, <2>7, <3>1, <3>3, GoTells DEF Steps
  <2> QED
    BY <1>2, <1>k, <2>5, <2>6, <2>7 DEF Submit, r
<1>3. CASE Undo(c)
  <2> DEFINE r == Of(c, "undo", k.new)
  <2>1. r \in Request /\ r.kind = "undo" /\ r.mail = m /\ ~Makes(r)
    BY <1>0, <1>k, RequestsOfCalls DEF Of, WellFormed, Makes
  <2> HIDE DEF r
  <2>2. Reaction(r) /\ Ends(c, "unsure") /\ LateCancels
    BY <1>3, <1>k DEF Undo, Reaction, r, Told
  <2>3. OnlyTouches(m) /\ LateCancels'
    BY <2>1, <2>2, ReactionTouches
  <2>4. m \notin cut => PutAway(m)'
    BY <1>0, <1>1, <2>1, <2>2, ReactsCalmly, CalmIsQuiet DEF PutAway
  <2> QED
    BY <1>0, <1>k, <2>2, <2>3, <2>4, PlainFits, EndTells DEF Words
<1> QED
  BY <1>2, <1>3

\* What a mail's submission waits for lies in Sent.
LEMMA WaitingIsSent ==
  ASSUME WellFormed, Told, NEW s \in Subs, Live(s), NEW m \in Mails \ cut, of[s] = m PROVE place[m] = "sent"
<1>1. HasLive(m) /\ PutAway(m) /\ place[m] # "none" /\ place[m] \in Places
  BY DEF HasLive, Told, WellFormed, ServerOK, Live
<1> QED
  BY <1>1 DEF PutAway, Places

LEMMA LookTells ==
  ASSUME OneClient, WellFormed, OneAtATime, Told, NEW c \in Calls, Look(c), cut' = cut PROVE Told'
<1>k. PICK k \in Call : k = call[c]
  BY DEF WellFormed, CallsOK
<1> DEFINE m == k.mail
<1>0. k.mail \in Mails /\ k.sub \in Subs /\ Informed(k) /\ k.at = "look"
  BY <1>k DEF OneAtATime, Call, Look, At
<1>1. UNCHANGED <<server, late>> /\ LateCancels'
  BY DEF Look, ReadFails, Told, LateCancels, server
<1>2. OnlyTouches(m) /\ (HasLive(m)' <=> HasLive(m)) /\ place' = place
  BY <1>1, StillTouches DEF server, HasLive, Live
<1>3. m \notin cut => PutAway(m) /\ PutAway(m)'
  BY <1>0, <1>2 DEF Told, PutAway
<1>4. CASE Waits(k.sub) /\ Goes(c, "cancel")
  <2>1. m \notin cut => place[m] = "sent"
    BY <1>0, <1>4, WaitingIsSent DEF Informed, Waits, Live
  <2>2. m \notin cut => StandsAt(m, k.sub, "cancel")'
    BY <1>2, <2>1 DEF StandsAt
  <2> QED
    BY <1>0, <1>1, <1>2, <1>3, <1>4, <1>k, <2>2, GoTells DEF Steps
<1>5. CASE Ends(c, "late")
  BY <1>0, <1>1, <1>2, <1>3, <1>5, <1>k, PlainFits, EndTells DEF Words
<1>6. CASE Gone(c) /\ UNCHANGED told
  <2>1. call' = [call EXCEPT ![c] = NoCall] /\ NoCall.at = "idle"
    BY <1>6 DEF Gone, NoCall
  <2>2. m \notin cut => Fits(m, told[m])
    <3>1. \A d \in Calls : d = c
      BY DEF OneClient
    <3> QED
      BY <1>0, <1>k, <3>1 DEF Told, Heard, Works
  <2>3. m \notin cut => Fits(m, told[m])'
    BY <1>2, <1>6, <2>2 DEF Fits
  <2> QED
    BY <1>0, <1>1, <1>2, <1>3, <1>6, <1>k, <2>1, <2>3, CallTells
<1> QED
  BY <1>4, <1>5, <1>6, <1>k DEF Look

\* Once nothing of a mail goes out, a call may go on to what moves it.
LEMMA AfterStopTells ==
  ASSUME OneClient, WellFormed, Told, NEW c \in Calls, NEW k \in Call, k = call[c],
         k.at \in {"cancel", "check"}, Goes(c, AfterStop(c)), place' = place,
         LateCancels', cut' = cut, OnlyTouches(k.mail), ~HasLive(k.mail)'
  PROVE  Told'
<1>0. k.mail \in Mails /\ k.sub \in Subs
  BY DEF Call
<1>1. k.mail \notin cut => place[k.mail] = "sent"
  BY DEF Told, Stands, StandsAt
<1>2. PICK step : step = AfterStop(c)
  OBVIOUS
<1>3. step \in {"create", "file", "download"}
  BY <1>2 DEF AfterStop
<1>4. k.mail \notin cut => PutAway(k.mail)' /\ StandsAt(k.mail, k.sub, step)'
  BY <1>1, <1>3 DEF PutAway, StandsAt
<1> QED
  BY <1>0, <1>2, <1>3, <1>4, GoTells DEF Steps

LEMMA CancelTells ==
  ASSUME OneClient, WellFormed, OneAtATime, Told, NEW c \in Calls, Cancel(c) \/ Check(c), cut' = cut PROVE Told'
<1>k. PICK k \in Call : k = call[c]
  BY DEF WellFormed, CallsOK
<1> DEFINE m == k.mail
<1>0. k.mail \in Mails /\ k.sub \in Subs /\ Informed(k) /\ k.at \in {"cancel", "check"} /\ LateCancels
  BY <1>k DEF OneAtATime, Call, Cancel, Check, At, Told
<1>1. m \notin cut => place[m] = "sent"
  BY <1>0, <1>k DEF Told, Stands, StandsAt
<1>2. of[k.sub] = m /\ status[k.sub] # "none" /\ \A s \in Subs : of[s] = m /\ Live(s) => s = k.sub
  BY <1>0 DEF Informed
<1>3. CASE Cancel(c)
  <2> DEFINE r == Of(c, "cancel", k.sub)
  <2>1. r \in Request /\ r.kind = "cancel" /\ r.sub = k.sub /\ r.mail = m /\ ~Makes(r)
    BY <1>0, <1>k, RequestsOfCalls DEF Of, WellFormed, Makes
  <2> HIDE DEF r
  <2>2. Reaction(r)
    BY <1>3, <1>k DEF Cancel, Reaction, r
  <2>3. OnlyTouches(m) /\ LateCancels'
    BY <1>0, <1>2, <2>1, <2>2, ReactionTouches
  <2>4. place' = place
    BY <2>1, <2>2 DEF Reaction, Answered, Denied, Refused, BreaksOff, Carries, server
  <2>5. m \notin cut => PutAway(m)'
    BY <1>1, <2>4 DEF PutAway
  <2>6. CASE Answered(r) /\ Goes(c, AfterStop(c))
    <3>1. of' = of /\ \A s \in Subs : status'[s] = IF s = k.sub THEN "canceled" ELSE status[s]
      BY <2>1, <2>6 DEF Answered, Carries, Turns, WellFormed, ServerOK
    <3>2. ~HasLive(m)'
      BY <1>2, <3>1 DEF HasLive, Live
    <3> QED
      BY <1>0, <1>k, <2>3, <2>4, <2>6, <3>2, AfterStopTells
  <2>7. CASE Ends(c, "late")
    BY <1>0, <1>k, <2>3, <2>5, <2>7, PlainFits, EndTells DEF Words
  <2>8. CASE Goes(c, "check")
    <3>1. m \notin cut => StandsAt(m, k.sub, "check")'
      BY <1>1, <2>4 DEF StandsAt
    <3> QED
      BY <1>0, <1>k, <2>3, <2>5, <2>8, <3>1, GoTells DEF Steps
  <2> QED
    BY <1>3, <1>k, <2>6, <2>7, <2>8 DEF Cancel, r
<1>4. CASE Check(c)
  <2>1. UNCHANGED <<server, late>>
    BY <1>4 DEF Check, ReadFails
  <2>2. place' = place /\ OnlyTouches(m) /\ LateCancels'
    BY <1>0, <2>1, StillTouches DEF server, LateCancels
  <2>3. m \notin cut => PutAway(m)'
    BY <1>1, <2>2 DEF PutAway
  <2>4. CASE status[k.sub] = "canceled" /\ Goes(c, AfterStop(c))
    <3>1. ~HasLive(m)'
      BY <1>2, <2>1, <2>4 DEF server, HasLive, Live
    <3> QED
      BY <1>0, <1>k, <2>2, <2>4, <3>1, AfterStopTells
  <2>5. ASSUME NEW word \in {"unsure", "late"}, Ends(c, word) PROVE Told'
    BY <1>0, <1>k, <2>2, <2>3, <2>5, PlainFits, EndTells DEF Words
  <2> QED
    BY <1>4, <1>k, <2>4, <2>5 DEF Check
<1> QED
  BY <1>3, <1>4

LEMMA CreateTells ==
  ASSUME OneClient, WellFormed, OneAtATime, Told, NEW c \in Calls, Create(c), cut' = cut PROVE Told'
<1>k. PICK k \in Call : k = call[c]
  BY DEF WellFormed, CallsOK
<1> DEFINE m == k.mail
           r == Of(c, "create", k.new)
<1>0. k.mail \in Mails /\ k.sub \in Subs /\ k.new \in Subs /\ Informed(k) /\ k.at = "create" /\ LateCancels
  BY <1>k DEF OneAtATime, Call, Create, At, Told
<1>1. m \notin cut => place[m] = "sent" /\ ~HasLive(m)
  BY <1>0, <1>k DEF Told, Stands, StandsAt
<1>2. r \in Request /\ r.kind = "create" /\ r.sub = k.new /\ r.mail = m
  BY <1>0, <1>k, RequestsOfCalls DEF Of, WellFormed
<1> HIDE DEF r
<1>3. Reaction(r) /\ status[r.sub] = "none"
  BY <1>0, <1>2, <1>k DEF Create, Reaction, Informed, r
<1>4. OnlyTouches(m) /\ LateCancels'
  BY <1>0, <1>2, <1>3, ReactionTouches
<1>5. place' = place
  BY <1>2, <1>3 DEF Reaction, Answered, Denied, Refused, BreaksOff, Carries, server
<1>6. m \notin cut => PutAway(m)'
  BY <1>1, <1>5 DEF PutAway
<1>7. CASE Answered(r) /\ Ends(c, "scheduled")
  <2>1. HasLive(m)'
    BY <1>0, <1>2, <1>7 DEF Answered, Carries, Turns, HasLive, Live, WellFormed, ServerOK
  <2>2. Fits(m, "scheduled")'
    BY <2>1 DEF Fits
  <2> QED
    BY <1>0, <1>4, <1>6, <1>7, <1>k, <2>2, EndTells DEF Words
<1>8. CASE (Denied(r) \/ Refused) /\ Goes(c, "file")
  <2>1. HasLive(m)' <=> HasLive(m)
    BY <1>8 DEF Denied, Refused, server, HasLive, Live
  <2>2. m \notin cut => StandsAt(m, k.sub, "file")'
    BY <1>1, <2>1 DEF StandsAt
  <2> QED
    BY <1>0, <1>4, <1>6, <1>8, <1>k, <2>2, GoTells DEF Steps
<1>9. CASE Goes(c, "lookup")
  <2>1. ~Live(k.sub) /\ k.sub # k.new /\ status[k.sub] # "none"
    BY <1>0 DEF Informed, HasLive
  <2>2. status'[k.sub] = status[k.sub]
    BY <1>0, <1>2, <1>3, <2>1
       DEF Reaction, Answered, Denied, Refused, BreaksOff, Carries, Turns, server, WellFormed, ServerOK
  <2>3. StandsAt(m, k.sub, "lookup")'
    BY <2>1, <2>2 DEF StandsAt, Live
  <2> QED
    BY <1>0, <1>4, <1>6, <1>9, <1>k, <2>3, GoTells DEF Steps
<1> QED
  BY <1>7, <1>8, <1>9, <1>k DEF Create, r

LEMMA ReadTells ==
  ASSUME OneClient, WellFormed, OneAtATime, Told, NEW c \in Calls, Lookup(c) \/ Download(c), cut' = cut PROVE Told'
<1>k. PICK k \in Call : k = call[c]
  BY DEF WellFormed, CallsOK
<1> DEFINE m == k.mail
<1>0. k.mail \in Mails /\ k.sub \in Subs /\ k.at \in {"lookup", "download"}
  BY <1>k DEF Call, Lookup, Download, At
<1>1. UNCHANGED <<server, late>> /\ LateCancels'
  BY DEF Lookup, Download, ReadFails, Told, LateCancels, server
<1>2. OnlyTouches(m) /\ (HasLive(m)' <=> HasLive(m)) /\ place' = place
  BY <1>1, StillTouches DEF server, HasLive, Live
<1>3. m \notin cut => PutAway(m)'
  BY <1>0, <1>2 DEF Told, PutAway
<1>4. m \notin cut => StandsAt(m, k.sub, k.at)
  BY <1>0, <1>k DEF Told, Stands
<1>5. CASE Lookup(c)
  <2> DEFINE others == {s \in Subs : of[s] = call[c].mail /\ s # call[c].sub /\ Live(s)}
  <2>1. k.at = "lookup"
    BY <1>5, <1>k DEF Lookup, At
  <2>2. m \notin cut => (others = {} <=> ~HasLive(m))
    BY <1>0, <1>4, <1>k, <2>1 DEF StandsAt, HasLive
  <2>3. CASE others # {} /\ Ends(c, "scheduled")
    <3>1. m \notin cut => Fits(m, "scheduled")'
      BY <1>2, <2>2, <2>3 DEF Fits
    <3> QED
      BY <1>0, <1>1, <1>2, <1>3, <1>k, <2>3, <3>1, EndTells DEF Words
  <2>4. CASE others = {} /\ Goes(c, "file")
    <3>1. m \notin cut => StandsAt(m, k.sub, "file")'
      BY <1>2, <2>2, <2>4 DEF StandsAt
    <3> QED
      BY <1>0, <1>1, <1>2, <1>3, <1>k, <2>4, <3>1, GoTells DEF Steps
  <2>5. CASE Ends(c, "unsure")
    BY <1>0, <1>1, <1>2, <1>3, <1>k, <2>5, PlainFits, EndTells DEF Words
  <2> QED
    BY <1>5, <2>3, <2>4, <2>5 DEF Lookup
<1>6. CASE Download(c)
  <2>1. k.at = "download"
    BY <1>6, <1>k DEF Download, At
  <2>2. ASSUME NEW step \in {"destroy", "file"}, Goes(c, step) PROVE Told'
    <3>1. m \notin cut => StandsAt(m, k.sub, step)'
      BY <1>2, <1>4, <2>1 DEF StandsAt
    <3> QED
      BY <1>0, <1>1, <1>2, <1>3, <1>k, <2>2, <3>1, GoTells DEF Steps
  <2> QED
    BY <1>6, <2>2 DEF Download
<1> QED
  BY <1>5, <1>6

LEMMA PutAwayTells ==
  ASSUME OneClient, WellFormed, OneAtATime, Told, NEW c \in Calls, Destroy(c) \/ File(c), cut' = cut PROVE Told'
<1>k. PICK k \in Call : k = call[c]
  BY DEF WellFormed, CallsOK
<1> DEFINE m == k.mail
<1>0. k.mail \in Mails /\ k.sub \in Subs /\ k.at \in {"destroy", "file"} /\ LateCancels
  BY <1>k DEF Call, Destroy, File, At, Told
<1>1. m \notin cut => ~HasLive(m)
  BY <1>0, <1>k DEF Told, Stands, StandsAt
<1>2. PICK kind \in {"destroy", "file"} : Reaction(Of(c, kind, k.sub))
  BY <1>k DEF Destroy, File, Reaction
<1> DEFINE r == Of(c, kind, k.sub)
<1>3. r \in Request /\ r.kind = kind /\ r.mail = m /\ ~Makes(r)
  BY <1>0, <1>k, RequestsOfCalls DEF Of, WellFormed, Makes
<1> HIDE DEF r
<1>4. Reaction(r)
  BY <1>2 DEF r
<1>5. OnlyTouches(m) /\ LateCancels'
  BY <1>0, <1>3, <1>4, ReactionTouches
<1>6. m \notin cut => ~HasLive(m)'
  BY <1>0, <1>1, <1>3, <1>4, ReactsCalmly, CalmIsQuiet
<1>7. PICK word \in {"stopped", "drafts", "unsure"} : Ends(c, word)
  BY DEF Destroy, File, Outcome
<1>8. m \notin cut => PutAway(m)' /\ Fits(m, word)'
  BY <1>6, <1>7 DEF PutAway, Fits
<1> QED
  BY <1>0, <1>5, <1>7, <1>8, <1>k, EndTells DEF Words

(***************************************************************************)
(* Everything else.                                                        *)
(***************************************************************************)

\* A call begins with a mail of which the person heard the truth.
LEMMA BeginTells ==
  ASSUME OneClient, WellFormed, OneAtATime, Told, NEW c \in Calls, NEW new \in Subs,
         (\E m \in Mails : Schedule(c, m, new)) \/ (\E op \in Ops, s \in Subs : Begin(c, op, s, new))
  PROVE  Told'
<1>1. UNCHANGED <<server, late, told, cut>> /\ call[c].at = "idle"
  BY DEF Schedule, Begin, At
<1>2. PICK n : call' = [call EXCEPT ![c] = n] /\ n.at \in {"look", "submit"}
               /\ (n.at = "submit" => n.mail \in Mails /\ place[n.mail] = "none")
  <2>1. ASSUME NEW m \in Mails, Schedule(c, m, new)
        PROVE  \E n : call' = [call EXCEPT ![c] = n] /\ n.at \in {"look", "submit"}
                      /\ (n.at = "submit" => n.mail \in Mails /\ place[n.mail] = "none")
    <3> DEFINE n == [at |-> "submit", op |-> "submit", mail |-> m, sub |-> new, new |-> new]
    <3>1. n.at = "submit" /\ n.mail = m /\ call' = [call EXCEPT ![c] = n] /\ place[m] = "none"
      BY <2>1 DEF Schedule
    <3> HIDE DEF n
    <3> QED
      BY <3>1
  <2>2. ASSUME NEW op \in Ops, NEW s \in Subs, Begin(c, op, s, new)
        PROVE  \E n : call' = [call EXCEPT ![c] = n] /\ n.at \in {"look", "submit"}
                      /\ (n.at = "submit" => n.mail \in Mails /\ place[n.mail] = "none")
    <3> DEFINE n == [at |-> "look", op |-> op, mail |-> of[s], sub |-> s, new |-> new]
    <3>1. n.at = "look" /\ call' = [call EXCEPT ![c] = n]
      BY <2>2 DEF Begin
    <3> HIDE DEF n
    <3> QED
      BY <3>1
  <2> QED
    BY <2>1, <2>2
<1>3. call'[c] = n /\ \A d \in Calls : d = c
  BY <1>2 DEF OneClient, WellFormed, CallsOK
<1>4. /\ place' = place /\ \A m \in Mails : HasLive(m)' <=> HasLive(m)
      /\ LateCancels'
  BY <1>1 DEF server, HasLive, Live, Told, LateCancels
<1>5. Stands(call[c])'
  <2>1. CASE n.at = "look"
    BY <1>3, <2>1 DEF Stands, StandsAt
  <2>2. CASE n.at = "submit"
    <3>1. n.mail \in Mails /\ ~HasLive(n.mail)
      BY <1>2, <2>2 DEF WellFormed, ServerOK, HasLive, Live
    <3> QED
      BY <1>3, <1>4, <2>2, <3>1 DEF Stands, StandsAt
  <2> QED
    BY <1>2, <2>1, <2>2
<1>6. ASSUME NEW m \in Mails \ cut PROVE PutAway(m)' /\ Heard(m)'
  <2>1. PutAway(m) /\ Fits(m, told[m])
    BY <1>1, <1>3, <1>6 DEF Told, Heard, Works
  <2> QED
    BY <1>1, <1>4, <1>6, <2>1 DEF PutAway, Heard, Fits
<1> QED
  BY <1>1, <1>3, <1>4, <1>5, <1>6 DEF Told

\* A call that is cut off leaves its mail out of what is promised.
LEMMA StopTells == ASSUME OneClient, WellFormed, Told, NEW c \in Calls, Stops(c) PROVE Told'
<1>1. UNCHANGED <<server, late, told>> /\ cut' = cut \union {call[c].mail}
  BY DEF Stops
<1>2. call'[c].at = "idle" /\ \A d \in Calls : d = c
  BY DEF Stops, Gone, NoCall, OneClient, WellFormed, CallsOK
<1>3. /\ place' = place /\ \A m \in Mails : HasLive(m)' <=> HasLive(m)
      /\ LateCancels'
  BY <1>1 DEF server, HasLive, Live, Told, LateCancels
<1>4. Stands(call[c])'
  BY <1>2 DEF Stands, StandsAt
<1>5. ASSUME NEW m \in Mails \ cut' PROVE PutAway(m)' /\ Heard(m)'
  <2>1. PutAway(m) /\ Fits(m, told[m])
    BY <1>1, <1>2, <1>5 DEF Told, Heard
  <2> QED
    BY <1>1, <1>3, <1>5, <2>1 DEF PutAway, Heard, Fits
<1> QED
  BY <1>2, <1>3, <1>4, <1>5 DEF Told

\* The server sends what waits: that is what was promised.
LEMMA FireTells == ASSUME WellFormed, Told, NEW s \in Subs, Fires(s) PROVE Told'
<1>1. UNCHANGED <<place, of, call, late, told, cut>> /\ \A t \in Subs : (Live(t)' <=> Live(t)) /\ (status'[t] = "none" <=> status[t] = "none")
  BY DEF Fires, Waits, Live, WellFormed, ServerOK
<1>2. \A m \in Mails : HasLive(m)' <=> HasLive(m)
  BY <1>1 DEF HasLive
<1>3. LateCancels'
  BY <1>1 DEF Told, LateCancels, WellFormed, Request
<1>4. \A m \in Mails \ cut : PutAway(m)' /\ Heard(m)'
  BY <1>1, <1>2 DEF Told, PutAway, Heard, Fits
<1>5. ASSUME NEW c \in Calls PROVE Stands(call[c])'
  <2>1. call[c].mail \in Mails /\ call[c].sub \in Subs /\ Stands(call[c])
    BY DEF WellFormed, CallsOK, Call, Told
  <2> QED
    BY <1>1, <1>2, <2>1 DEF Stands, StandsAt
<1> QED
  BY <1>1, <1>3, <1>4, <1>5 DEF Told

\* What comes late is about a mail of which nothing is promised any more.
LEMMA LateTells == ASSUME WellFormed, OneAtATime, Told, NEW r \in late, LateArrives(r) PROVE Told'
<1>1. r \in Request /\ LateCancels /\ UNCHANGED <<call, told>> /\ cut' = cut \union {r.mail}
      /\ ((Accepts(r) /\ Carries(r)) \/ UNCHANGED server) /\ late' \subseteq late \union {r}
  BY DEF WellFormed, Told, LateArrives
<1>2. Makes(r) => status[r.sub] = "none"
  BY DEF OneAtATime, Sound, LateIdsAreFree
<1>3. r.kind = "cancel" => of[r.sub] = r.mail /\ status[r.sub] # "none"
  BY <1>1 DEF LateCancels
<1>4. OnlyTouches(r.mail) /\ LateCancels'
  BY <1>1, <1>2, <1>3, RequestTouches
<1>5. \A m \in Mails \ cut' : PutAway(m)' /\ Heard(m)'
  BY <1>1, <1>4 DEF Told, OnlyTouches, PutAway, Heard, Fits
<1>6. ASSUME NEW c \in Calls, call[c].mail \notin cut' PROVE StandsAt(call[c].mail, call[c].sub, call[c].at)'
  <2>0. PICK k \in Call : k = call[c]
    BY DEF WellFormed, CallsOK
  <2>1. k.mail \in Mails \ {r.mail} /\ k.mail \notin cut /\ k.sub \in Subs /\ StandsAt(k.mail, k.sub, k.at) /\ call'[c] = k
    BY <1>1, <1>6, <2>0 DEF Told, Stands, Call
  <2>2. place'[k.mail] = place[k.mail] /\ (HasLive(k.mail)' <=> HasLive(k.mail))
    BY <1>4, <2>1 DEF OnlyTouches
  <2>3. k.at = "lookup" => status'[k.sub] # "none" /\ ~Live(k.sub)'
    <3>1. CASE UNCHANGED server
      BY <2>1, <3>1 DEF StandsAt, server, Live
    <3>2. CASE Accepts(r) /\ Carries(r)
      <4>1. r.sub \in Subs /\ status \in [Subs -> Statuses]
        BY <1>1 DEF Request, WellFormed, ServerOK
      <4>2. status' = status \/ (Makes(r) /\ Turns(r.sub, "pending")) \/ Turns(r.sub, "canceled")
        BY <3>2 DEF Carries, Makes
      <4> QED
        BY <1>2, <2>1, <4>1, <4>2 DEF StandsAt, Turns, Live
    <3> QED
      BY <1>1, <3>1, <3>2
  <2> QED
    BY <2>1, <2>2, <2>3 DEF StandsAt
<1> QED
  BY <1>1, <1>4, <1>5, <1>6 DEF Told, Stands

LEMMA InitTold == Init => Told
<1> SUFFICES ASSUME Init PROVE Told
  OBVIOUS
<1>1. \A m \in Mails : ~HasLive(m) /\ place[m] = "none" /\ told[m] = "nothing"
  BY DEF Init, HasLive, Live
<1>2. \A c \in Calls : call[c].at = "idle"
  BY DEF Init, NoCall
<1> QED
  BY <1>1, <1>2 DEF Init, Told, LateCancels, PutAway, Heard, Fits, Stands, StandsAt

LEMMA ToldStays == ASSUME Told, UNCHANGED vars PROVE Told'
  BY DEF vars, Told, LateCancels, PutAway, Heard, Works, Fits, Stands, StandsAt, HasLive, Live

LEMMA ToldStep == ASSUME OneClient, WellFormed, OneAtATime, Told, [Next]_vars PROVE Told'
<1>1. ASSUME NEW c \in Calls, CallStep(c), UNCHANGED cut PROVE Told'
  BY <1>1, SubmitTells, LookTells, CancelTells, CreateTells, ReadTells, PutAwayTells DEF CallStep
<1> QED
  BY <1>1, BeginTells, StopTells, FireTells, LateTells, ToldStays DEF Next

LEMMA AlwaysTold == ASSUME OneClient PROVE Spec => [](WellFormed /\ Told)
<1>1. Init => OneAtATime /\ Told
  BY InitTold, InitOneAtATime
<1>2. WellFormed /\ OneAtATime /\ Told /\ [Next]_vars => OneAtATime' /\ Told'
  BY ToldStep, OneAtATimeStep
<1> QED
  BY <1>1, <1>2, StaysWellFormed, PTL DEF Spec

-----------------------------------------------------------------------------
(***************************************************************************)
(* What the person can rely on.                                            *)
(***************************************************************************)

\* With no call at it, the word about a mail fits it.
LEMMA QuietIsTrue == ASSUME WellFormed, Told, NEW m \in Mails \ cut, ~Busy(m) PROVE Fits(m, told[m])
<1>1. \A c \in Calls : Works(call[c]) => call[c].mail # m
  BY DEF Busy, Works
<1> QED
  BY <1>1 DEF Told, Heard

\* A mail that was said to be scheduled has a submission that waits or went out
\* (send_later's receipt, a new time that was taken).
THEOREM ScheduledWillGo == ASSUME OneClient PROVE Spec => []ToldScheduledWillGo
<1>1. WellFormed /\ Told => ToldScheduledWillGo
  BY QuietIsTrue DEF ToldScheduledWillGo, Fits
<1> QED
  BY <1>1, AlwaysTold, PTL

\* A mail that was said to be stopped doesn't go any more (stop, and Check behind it).
THEOREM StoppedStays == ASSUME OneClient PROVE Spec => []StoppedNeverGoes
<1>1. WellFormed /\ Told => StoppedNeverGoes
  BY QuietIsTrue DEF StoppedNeverGoes, Fits
<1> QED
  BY <1>1, AlwaysTold, PTL

\* What was put into Drafts, or handed to the composer and removed, isn't going out as well
\* (other_submission_for: only "no other submission" means it didn't take).
THEOREM PutAwayStays == ASSUME OneClient PROVE Spec => []PutAwayNeverGoes
<1>1. WellFormed /\ Told => PutAwayNeverGoes
  BY DEF PutAwayNeverGoes, Told, PutAway
<1> QED
  BY <1>1, AlwaysTold, PTL

\* Of a mail that lies in Sent and won't go the person heard (to_drafts failing says so).
THEOREM UnsentIsHeardOf == ASSUME OneClient PROVE Spec => []UnsentIsTold
<1>1. WellFormed /\ Told => UnsentIsTold
  BY QuietIsTrue DEF UnsentIsTold, Fits
<1> QED
  BY <1>1, AlwaysTold, PTL

=============================================================================
