----------------------------- MODULE SignInProofs -----------------------------
(***************************************************************************)
(* Theorems about SignIn, for any number of shared mailboxes and calls: its *)
(* types, that the newest refresh token is kept and nobody redeems an older *)
(* one, that every mailbox opens, that calendars follow a new sign-in, and  *)
(* that a refresh replaces what it redeemed.                                *)
(***************************************************************************)
EXTENDS SignIn, FiniteSetTheorems, TLAPS

Is(c, steps) == call[c].at \in steps

\* A token the provider has given.
Given(t) == t \in Token /\ t.grant <= issued /\ t.turn <= turn[t.grant]

\* The newest of its sign-in, or nobody can tell any more.
Good(t) == t.turn = turn[t.grant] \/ t.grant \in spoiled

Saved(a, g) == secret[a] # None /\ secret[a].grant = g

\* Ids that the store has had.
Known == exists \union removed

\* Steps at which the lock is held, a removal goes on, and a token is kept for later.
Locks(r) == r.at \in {"asks", "answers"} \/ (r.at \in {"notes", "nests"} /\ r.used # None)
RemovalSteps == {"remove", "keep", "copied", "kept", "tokens", "row", "secret"}
KeepSteps == {"keep", "copied", "kept"}
UsingSteps == {"asks", "answers"} \union KeepSteps

\* What the calls hold.
HoldsOK(c) ==
    /\ Is(c, UsingSteps) => Given(call[c].used)
    /\ Is(c, {"answers", "granted"}) => Given(call[c].got)
    /\ Is(c, {"granted", "adds"}) => call[c].used = None
    /\ Is(c, {"waits", "asks", "answers", "copied", "tokens", "row"}) => call[c].holder \in Known
    /\ Is(c, RemovalSteps) => call[c].account \in Known
    /\ At(c, "secret") => call[c].holder \in removed
    /\ At(c, "found") => call[c].holder \in Shared
    /\ call[c].todo \union call[c].done \subseteq Known

\* An account that is being added has its sign-in, and is nowhere else yet.
AddsOK(c) ==
    At(c, "adds") =>
        /\ call[c].holder \notin Known /\ secret[call[c].holder] # None
        /\ \A d \in Calls : At(d, "adds") /\ call[d].holder = call[c].holder => d = c

\* A sign-in that was made and isn't saved yet is nobody else's.
GrantedOK(c) ==
    At(c, "granted") =>
        /\ turn[call[c].got.grant] = 0
        /\ \A a \in Accounts : ~Saved(a, call[c].got.grant)
        /\ \A d \in Calls : Is(d, UsingSteps) => call[d].used.grant # call[c].got.grant
        /\ \A d \in Calls \ {c} : At(d, "granted") => call[d].got.grant # call[c].got.grant

\* Who redeems a token redeems the newest; it is still saved where it was, and nowhere else.
RedeemingOK(c) ==
    At(c, "asks") \/ At(c, "answers") =>
        LET h == call[c].holder
            g == call[c].used.grant
        IN
        /\ \A a \in Accounts \ {h} : Saved(a, g) => g \in spoiled
        /\ secret[h] # None => secret[h] = call[c].used \/ secret[h].grant \in spoiled
AsksOK(c) == At(c, "asks") => Good(call[c].used)

\* What the provider answered is the newest; where it replaced nothing, every saved one is.
AnswersOK(c) ==
    At(c, "answers") =>
        LET g == call[c].used.grant IN
        /\ call[c].got.grant = g /\ Good(call[c].got)
        /\ call[c].got = call[c].used => \A a \in Accounts : Saved(a, g) => Good(secret[a])

TurnsOK == \A g \in Grants : g > issued => turn[g] = 0

\* A mailbox that isn't nested has a sign-in of its own, or is one of the exceptions.
Inserting(a) == \E c \in Calls : At(c, "found") /\ call[c].holder = a
OwnOK == \A a \in exists : parent[a] = None => secret[a] # None \/ a \in bare \/ Inserting(a)

\* A copy given to a mailbox that is kept is there, or was deleted late.
CopiedOK(c) == At(c, "copied") /\ call[c].holder \in exists => secret[call[c].holder] # None \/ call[c].holder \in bare
Own == OwnOK /\ \A c \in Calls : CopiedOK(c)

\* Two mailboxes with one sign-in: it counts as spoiled.
AloneOK == \A a, b \in Accounts : a # b /\ secret[a] # None /\ Saved(b, secret[a].grant) => secret[a].grant \in spoiled

\* A calendar token in memory is of the sign-in that is saved, and of the one that is redeemed.
CalendarOK(a) ==
    cloud[a] # None =>
        /\ a \in Known
        /\ secret[a] # None => cloud[a] = secret[a].grant \/ secret[a].grant \in spoiled \/ Forgetting(a)
        /\ \A c \in Asking : call[c].holder = a =>
               cloud[a] = call[c].used.grant \/ call[c].used.grant \in spoiled \/ Forgetting(a)
CalendarsOK == \A a \in Accounts : CalendarOK(a)

\* TypeOK, in the parts a step disturbs.
ProviderOK == issued \in 0..MaxGrants /\ turn \in [Grants -> 0..MaxTurns]
StoreOK ==
    /\ exists \subseteq Accounts /\ removed \subseteq Accounts \ exists /\ noted \subseteq exists
    /\ parent \in [Accounts -> {Main, None}] /\ parent[Main] = None
SecretsOK ==
    /\ secret \in [Accounts -> Token \union {None}]
    /\ \A a \in Accounts : secret[a] # None => secret[a].grant <= issued /\ secret[a].turn <= turn[secret[a].grant]
MemoryOK == mail \subseteq Accounts /\ cloud \in [Accounts -> 1..issued \union {None}]
HistoryOK == spoiled \subseteq Grants /\ bare \subseteq Shared
Call == [at : Steps, kind : Kinds, account : Accounts, holder : Accounts,
         used : Token \union {None}, got : Token \union {None}, todo : SUBSET Shared, done : SUBSET Shared]
CallsOK == call \in [Calls -> Call]
OneRedeems == \A c, d \in Redeeming : c = d

Base ==
    /\ ProviderOK /\ TurnsOK /\ StoreOK /\ SecretsOK /\ MemoryOK /\ HistoryOK
    /\ CallsOK /\ OneRedeems
    /\ \A c \in Calls : HoldsOK(c) /\ AddsOK(c)
Tokens == NewestIsKept /\ AloneOK /\ \A c \in Calls : GrantedOK(c) /\ RedeemingOK(c) /\ AsksOK(c) /\ AnswersOK(c)

\* A step that leaves the ids alone, and takes no secret from one that isn't in the store yet.
Spares ==
    /\ Known' = Known /\ removed \subseteq removed'
    /\ \A b \in Accounts \ Known : secret[b] # None => secret'[b] # None

-----------------------------------------------------------------------------
(***************************************************************************)
(* Types, and what the calls hold.                                         *)
(***************************************************************************)

LEMMA NoCallIsCall ==
  /\ NoCall \in Call /\ NoCall.at = "idle" /\ NoCall.todo = {} /\ NoCall.done = {}
  /\ NoCall.used = None /\ NoCall.got = None /\ NoCall.holder = Main
  BY AccountsAssumption DEF NoCall, Call, Steps, Kinds, Accounts

LEMMA StepsAre ==
  /\ {"idle", "waits", "asks", "answers", "notes", "nests", "granted", "forgets", "adds", "found", "adopted",
      "tokens", "row", "secret", "search", "remove", "keep", "copied", "kept"} \subseteq Steps
  /\ UsingSteps = {"asks", "answers", "keep", "copied", "kept"}
  BY DEF Steps, Ops, UsingSteps, KeepSteps

LEMMA RedeemingLocks == \A c \in Calls : c \in Redeeming <=> Locks(call[c])
  BY DEF Redeeming, Asking, Locks, At

\* One call changes, and it takes the lock only when it is free.
LEMMA CallChanges ==
  ASSUME CallsOK, OneRedeems, NEW c \in Calls, NEW r \in Call, call' = [call EXCEPT ![c] = r],
         Locks(r) => Free \/ c \in Redeeming
  PROVE  CallsOK' /\ OneRedeems'
<1>1. CallsOK' /\ call'[c] = r /\ \A d \in Calls \ {c} : call'[d] = call[d]
  BY DEF CallsOK
<1>2. \A d \in Calls : d \in Redeeming' <=> Locks(call'[d])
  BY DEF Redeeming, Asking, Locks, At
<1>3. \A d \in Calls \ {c} : d \in Redeeming' => d \in Redeeming
  BY <1>1, <1>2, RedeemingLocks
<1>4. Redeeming' \subseteq Calls
  BY DEF Redeeming, Asking
<1> QED
  BY <1>1, <1>2, <1>3, <1>4 DEF OneRedeems, Free

\* Tokens stay the provider's, who only goes on.
LEMMA GivenStays ==
  ASSUME ProviderOK, ProviderOK', issued <= issued', \A g \in Grants : turn[g] <= turn'[g],
         NEW t, Given(t)
  PROVE  t \in Token /\ t.grant <= issued' /\ t.turn <= turn'[t.grant]
  BY BoundsAssumption DEF Given, ProviderOK, Token, Grants

LEMMA InitBase == Init => Base /\ Own
<1> SUFFICES ASSUME Init PROVE Base /\ Own
  OBVIOUS
<1>1. PICK alone \in SUBSET Accounts :
        \E nested \in IF Main \in alone THEN SUBSET (Shared \ alone) ELSE {{}} :
            \E grant \in [alone -> 1..Cardinality(alone)] : Starts(alone, nested, grant)
  BY DEF Init
<1>2. PICK nested \in IF Main \in alone THEN SUBSET (Shared \ alone) ELSE {{}} :
        \E grant \in [alone -> 1..Cardinality(alone)] : Starts(alone, nested, grant)
  BY <1>1
<1>3. PICK grant \in [alone -> 1..Cardinality(alone)] : Starts(alone, nested, grant)
  BY <1>2
<1> USE <1>3 DEF Starts
<1>4. issued \in Nat /\ issued = MaxGrants - 1 /\ issued \in 0..MaxGrants
  BY BoundsAssumption
<1>5. IsFiniteSet(alone) /\ Cardinality(alone) \in Nat
  <2>1. IsFiniteSet({Main})
    BY FS_Singleton
  <2>2. IsFiniteSet(Accounts)
    BY <2>1, AccountsAssumption, FS_Union DEF Accounts
  <2> QED
    BY <2>2, FS_Subset, FS_CardinalityType
<1>6. ProviderOK /\ TurnsOK
  BY <1>4, BoundsAssumption DEF ProviderOK, TurnsOK
<1>7. StoreOK
  BY AccountsAssumption DEF StoreOK, Accounts
<1>8. SecretsOK /\ \A a \in alone : secret[a] \in Token
  <2>1. \A a \in alone : grant[a] \in Grants /\ grant[a] <= issued
    BY <1>4, <1>5, BoundsAssumption DEF Grants
  <2>2. \A a \in alone : [grant |-> grant[a], turn |-> 0] \in Token
    BY <2>1, BoundsAssumption DEF Token
  <2>3. \A a \in alone : secret[a] \in Token
    BY <2>2
  <2> QED
    BY <2>1, <2>2, <2>3, BoundsAssumption DEF SecretsOK, Grants
<1>9. MemoryOK /\ HistoryOK
  BY DEF MemoryOK, HistoryOK
<1>10. CallsOK /\ OneRedeems /\ \A c \in Calls : HoldsOK(c) /\ AddsOK(c) /\ CopiedOK(c)
  <2>1. \A c \in Calls : call[c] = NoCall
    OBVIOUS
  <2>2. CallsOK
    BY NoCallIsCall DEF CallsOK
  <2>3. \A c \in Calls : c \notin Redeeming /\ HoldsOK(c) /\ AddsOK(c) /\ CopiedOK(c)
    BY <2>1, NoCallIsCall, RedeemingLocks, StepsAre DEF Locks, HoldsOK, AddsOK, CopiedOK, At, Is, RemovalSteps
  <2> QED
    BY <2>2, <2>3 DEF OneRedeems, Redeeming, Asking
<1>11. OwnOK
  <2>1. \A a \in exists : a \in Accounts /\ (a \in nested => parent[a] = Main)
    BY <1>7 DEF StoreOK
  <2>2. \A a \in exists : parent[a] = None => a \in alone
    BY <2>1, AccountsAssumption
  <2> QED
    BY <1>8, <2>2, NoneAssumption DEF OwnOK
<1> QED
  BY <1>6, <1>7, <1>8, <1>9, <1>10, <1>11 DEF Base, Own

\* A call that stays as it is goes on holding what it should.
LEMMA HoldsStays ==
  ASSUME ProviderOK, ProviderOK', issued <= issued', \A g \in Grants : turn[g] <= turn'[g],
         Known \subseteq Known', removed \subseteq removed',
         NEW d \in Calls, HoldsOK(d), call'[d] = call[d]
  PROVE  HoldsOK(d)'
<1>1. \A t : Given(t) => t \in Token /\ t.grant <= issued' /\ t.turn <= turn'[t.grant]
  BY GivenStays
<1> QED
  BY <1>1 DEF HoldsOK, Is, At, Given

\* One at a step where nothing much matters.
RestSteps == {"idle", "search", "notes", "nests", "forgets", "adopted"}
LEMMA RestHolds ==
  ASSUME NEW d \in Calls, call'[d].at \in RestSteps, call'[d].todo \union call'[d].done \subseteq Known'
  PROVE  HoldsOK(d)'
  BY StepsAre DEF HoldsOK, Is, At, RestSteps, RemovalSteps

LEMMA AddsStay ==
  ASSUME CallsOK, \A d \in Calls : AddsOK(d), Spares, \A d \in Calls : call'[d] = call[d] \/ call'[d].at # "adds"
  PROVE  \A d \in Calls : AddsOK(d)'
<1> SUFFICES ASSUME NEW d \in Calls, call'[d].at = "adds" PROVE AddsOK(d)'
  BY DEF AddsOK, At
<1>1. call'[d] = call[d] /\ At(d, "adds") /\ call[d].holder \in Accounts
  BY DEF At, CallsOK, Call
<1>2. /\ call[d].holder \notin Known /\ secret[call[d].holder] # None
      /\ \A e \in Calls : At(e, "adds") /\ call[e].holder = call[d].holder => e = d
  BY <1>1 DEF AddsOK
<1>3. call'[d].holder \notin Known' /\ secret'[call'[d].holder] # None
  BY <1>1, <1>2 DEF Spares
<1>4. \A e \in Calls : call'[e].at = "adds" => call'[e] = call[e] /\ At(e, "adds")
  BY DEF At
<1> QED
  BY <1>1, <1>2, <1>3, <1>4 DEF AddsOK, At

\* One call changes, and the provider only goes on.
LEMMA OneCall ==
  ASSUME Base, NEW c \in Calls, NEW r \in Call, call' = [call EXCEPT ![c] = r],
         Locks(r) => Free \/ c \in Redeeming,
         HoldsOK(c)', \A d \in Calls : AddsOK(d)',
         ProviderOK', TurnsOK', issued <= issued', \A g \in Grants : turn[g] <= turn'[g],
         StoreOK', Known \subseteq Known', removed \subseteq removed', SecretsOK', MemoryOK', HistoryOK'
  PROVE  Base'
<1>1. CallsOK' /\ OneRedeems'
  BY CallChanges DEF Base
<1>2. ASSUME NEW d \in Calls PROVE HoldsOK(d)'
  <2>1. CASE d = c
    BY <2>1
  <2>2. CASE d # c
    BY <2>2, HoldsStays DEF Base, CallsOK
  <2> QED
    BY <2>1, <2>2
<1> QED
  BY <1>1, <1>2 DEF Base

LEMMA ProviderStays ==
  ASSUME ProviderOK, TurnsOK, UNCHANGED provider
  PROVE  ProviderOK' /\ TurnsOK' /\ issued <= issued' /\ \A g \in Grants : turn[g] <= turn'[g]
  BY BoundsAssumption DEF provider, ProviderOK, TurnsOK

\* One call changes, the provider and the ids don't.
LEMMA CallMoves ==
  ASSUME Base, NEW c \in Calls, NEW r \in Call, call' = [call EXCEPT ![c] = r], r.at # "adds",
         Locks(r) => Free \/ c \in Redeeming, HoldsOK(c)', UNCHANGED provider,
         Spares, StoreOK', SecretsOK', MemoryOK', HistoryOK'
  PROVE  Base'
<1>1. ProviderOK' /\ TurnsOK' /\ issued <= issued' /\ \A g \in Grants : turn[g] <= turn'[g]
  BY ProviderStays DEF Base
<1>2. \A d \in Calls : call'[d] = call[d] \/ call'[d].at # "adds"
  BY DEF Base, CallsOK
<1>3. \A d \in Calls : AddsOK(d)'
  BY <1>2, AddsStay DEF Base
<1> QED
  BY <1>1, <1>3, OneCall DEF Spares

\* The call ends, and neither provider nor ids change.
LEMMA CallEnds ==
  ASSUME Base, NEW c \in Calls, Ends(c), UNCHANGED provider, Spares, StoreOK', SecretsOK', MemoryOK', HistoryOK'
  PROVE  Base'
<1>1. call'[c] = NoCall
  BY DEF Ends, Base, CallsOK
<1>2. HoldsOK(c)'
  BY <1>1, NoCallIsCall, RestHolds DEF RestSteps
<1> QED
  BY <1>2, CallMoves, NoCallIsCall DEF Ends, Locks

LEMMA DataStays ==
  ASSUME Base, UNCHANGED <<provider, store, secret, memory>>
  PROVE  Spares /\ StoreOK' /\ SecretsOK' /\ MemoryOK'
  BY DEF Base, provider, store, memory, StoreOK, SecretsOK, MemoryOK, Spares, Known

\* Only the call changes.
LEMMA CallGoesOn ==
  ASSUME Base, NEW c \in Calls, NEW r \in Call, call' = [call EXCEPT ![c] = r], r.at # "adds",
         Locks(r) => Free \/ c \in Redeeming, HoldsOK(c)',
         UNCHANGED <<provider, store, secret, memory, history>>
  PROVE  Base'
<1>1. HistoryOK'
  BY DEF history, HistoryOK, Base
<1> QED
  BY <1>1, CallMoves, DataStays

LEMMA HolderIsThere == ASSUME StoreOK, NEW a \in exists PROVE Holder(a) \in exists /\ Holder(a) \in Accounts
  BY DEF Holder, StoreOK

\* A token that the provider gave may be saved, and one may go.
LEMMA SavesTypes ==
  ASSUME SecretsOK, UNCHANGED provider, NEW a \in Accounts, NEW t, Given(t) \/ t = None,
         secret' = [secret EXCEPT ![a] = t]
  PROVE  SecretsOK'
  BY DEF SecretsOK, Given, provider

LEMMA BaseRedeems ==
  ASSUME Base, NEW c \in Calls, Redeems(c)
  PROVE  Base'
<1> DEFINE k == call[c]
<1>0. k \in Call /\ HoldsOK(c)
  BY DEF Base, CallsOK
<1>1. k.at = "asks" /\ c \in Redeeming /\ Given(k.used) /\ k.holder \in Known
  BY <1>0 DEF Redeems, At, Redeeming, Asking, HoldsOK, Is, UsingSteps
<1>2. CASE call' = [call EXCEPT ![c].at = "answers", ![c].got = k.used] /\ UNCHANGED provider
  <2> DEFINE r == [k EXCEPT !.at = "answers", !.got = k.used]
  <2>1. /\ r \in Call /\ r.at = "answers" /\ r.holder = k.holder /\ r.used = k.used /\ r.got = k.used
        /\ r.todo = k.todo /\ r.done = k.done
    BY <1>0, <1>1, StepsAre DEF Call, Given
  <2>2. call' = [call EXCEPT ![c] = r] /\ UNCHANGED <<provider, store, secret, memory, history>>
    BY <1>2 DEF Redeems
  <2> HIDE DEF r
  <2>3. HoldsOK(c)'
    BY <1>0, <1>1, <2>1, <2>2
    DEF HoldsOK, Is, At, Given, Base, CallsOK, store, provider, Known, RemovalSteps
  <2> QED
    BY <1>1, <2>1, <2>2, <2>3, CallGoesOn
<1>3. ASSUME turn[k.used.grant] < MaxTurns, turn' = [turn EXCEPT ![k.used.grant] = @ + 1],
             call' = [call EXCEPT ![c].at = "answers",
                                  ![c].got = [grant |-> k.used.grant, turn |-> turn[k.used.grant] + 1]],
             UNCHANGED issued
      PROVE  Base'
  <2> DEFINE new == [grant |-> k.used.grant, turn |-> turn[k.used.grant] + 1]
             r == [k EXCEPT !.at = "answers", !.got = new]
  <2>0. k.used.grant \in Grants /\ k.used.grant <= issued /\ turn[k.used.grant] \in 0..MaxTurns
    BY <1>1 DEF Given, Token, Base, ProviderOK
  <2>1. /\ ProviderOK' /\ TurnsOK' /\ issued <= issued' /\ turn' \in [Grants -> 0..MaxTurns]
        /\ \A g \in Grants : turn[g] <= turn'[g]
    BY <1>3, <2>0, BoundsAssumption DEF Base, ProviderOK, TurnsOK, Grants
  <2>2. new \in Token /\ new.grant = k.used.grant /\ new.turn = turn'[k.used.grant]
    BY <1>3, <2>0, BoundsAssumption DEF Token, Base, ProviderOK
  <2> HIDE DEF new
  <2>3. /\ r \in Call /\ r.at = "answers" /\ r.holder = k.holder /\ r.used = k.used /\ r.got = new
        /\ r.todo = k.todo /\ r.done = k.done
    BY <1>0, <2>2, StepsAre DEF Call
  <2>4. call' = [call EXCEPT ![c] = r] /\ UNCHANGED <<store, secret, memory, history>>
    BY <1>3 DEF Redeems, new
  <2> HIDE DEF r
  <2>5. call'[c] = r /\ UNCHANGED <<exists, removed>>
    BY <2>4 DEF Base, CallsOK, store
  <2>6. /\ call'[c].used \in Token /\ call'[c].used.grant <= issued'
        /\ call'[c].used.turn <= turn'[call'[c].used.grant]
    BY <1>1, <2>1, <2>3, <2>5, GivenStays DEF Base
  <2>7. /\ call'[c].got \in Token /\ call'[c].got.grant <= issued'
        /\ call'[c].got.turn <= turn'[call'[c].got.grant]
    <3>1. turn'[k.used.grant] <= turn'[k.used.grant] /\ k.used.grant <= issued'
      BY <1>3, <2>0, <2>1, BoundsAssumption
    <3> QED
      BY <2>2, <2>3, <2>5, <3>1
  <2>8. HoldsOK(c)'
    BY <1>0, <1>1, <2>3, <2>5, <2>6, <2>7 DEF HoldsOK, Is, At, Given, Known, RemovalSteps
  <2>9. SecretsOK'
    <3>1. ASSUME NEW a \in Accounts, secret[a] # None
          PROVE  secret[a].grant <= issued' /\ secret[a].turn <= turn'[secret[a].grant]
      BY <2>1, <3>1, GivenStays DEF Base, SecretsOK, Given
    <3> QED
      BY <2>4, <3>1 DEF Base, SecretsOK
  <2>10. StoreOK' /\ MemoryOK' /\ HistoryOK' /\ Spares
    BY <1>3, <2>4 DEF Base, store, memory, history, StoreOK, MemoryOK, HistoryOK, Spares, Known
  <2>11. \A d \in Calls : AddsOK(d)'
    <3>1. \A d \in Calls : call'[d] = call[d] \/ call'[d].at # "adds"
      BY <2>3, <2>4, <2>5 DEF Base, CallsOK
    <3> QED
      BY <2>10, <3>1, AddsStay DEF Base
  <2> QED
    BY <1>1, <2>1, <2>3, <2>4, <2>8, <2>9, <2>10, <2>11, OneCall DEF Spares
<1> QED
  BY <1>2, <1>3 DEF Redeems

\* The other steps of a refresh: only the call changes, or the token it got is saved.
LEMMA BaseRefreshes ==
  ASSUME Base, NEW c \in Calls,
         \/ \E a \in Accounts, kind \in Kinds : Begins(c, a, kind)
         \/ NothingToDo(c) \/ TakesLock(c) \/ IsRefused(c) \/ Saves(c) \/ AnswerLost(c)
  PROVE  Base'
<1> DEFINE k == call[c]
<1>0. k \in Call /\ HoldsOK(c)
  BY DEF Base, CallsOK
<1>h. k.holder \in Accounts
  BY <1>0 DEF Call
<1>1. ASSUME NEW a \in Accounts, NEW kind \in Kinds, Begins(c, a, kind) PROVE Base'
  <2> DEFINE r == [NoCall EXCEPT !.at = "waits", !.kind = kind, !.account = a, !.holder = Holder(a)]
  <2>1. Holder(a) \in exists /\ Holder(a) \in Accounts
    BY <1>1, HolderIsThere DEF Begins, Base
  <2>2. r \in Call /\ r.at = "waits" /\ r.holder = Holder(a) /\ r.todo = {} /\ r.done = {}
    BY <2>1, NoCallIsCall, StepsAre DEF Call, NoCall
  <2>3. call' = [call EXCEPT ![c] = r] /\ UNCHANGED <<provider, store, secret, memory, history>>
    BY <1>1 DEF Begins
  <2> HIDE DEF r
  <2>4. HoldsOK(c)'
    BY <2>1, <2>2, <2>3, StepsAre DEF HoldsOK, Is, At, Base, CallsOK, store, Known, RemovalSteps
  <2> QED
    BY <2>2, <2>3, <2>4, CallGoesOn DEF Locks
<1>2. CASE NothingToDo(c) \/ IsRefused(c)
  <2>1. Ends(c) /\ UNCHANGED <<provider, store, secret, memory, history>>
    BY <1>2 DEF NothingToDo, IsRefused
  <2>2. HistoryOK'
    BY <2>1 DEF history, HistoryOK, Base
  <2> QED
    BY <2>1, <2>2, CallEnds, DataStays
<1>3. CASE TakesLock(c)
  <2> DEFINE r == [k EXCEPT !.at = "asks", !.used = secret[k.holder]]
  <2>1. secret[k.holder] # None /\ Given(secret[k.holder]) /\ Free
    BY <1>3, <1>h DEF TakesLock, Base, SecretsOK, Given
  <2>2. /\ r \in Call /\ r.at = "asks" /\ r.holder = k.holder /\ r.used = secret[k.holder]
        /\ r.todo = k.todo /\ r.done = k.done
    BY <1>0, <2>1, StepsAre DEF Call, Given
  <2>3. call' = [call EXCEPT ![c] = r] /\ UNCHANGED <<provider, store, secret, memory, history>>
    BY <1>3 DEF TakesLock
  <2> HIDE DEF r
  <2>4. HoldsOK(c)'
    BY <1>0, <1>3, <2>1, <2>2, <2>3
    DEF TakesLock, At, HoldsOK, Is, Given, Base, CallsOK, store, provider, Known, RemovalSteps
  <2> QED
    BY <2>1, <2>2, <2>3, <2>4, CallGoesOn
<1>5. CASE Saves(c)
  <2>1. Given(k.got) /\ Given(k.used) /\ k.holder \in Known /\ k.at = "answers" /\ c \in Redeeming
    BY <1>0, <1>5 DEF Saves, At, HoldsOK, Is, UsingSteps, Redeeming, Asking
  <2>2. PICK r \in {NoCall, [k EXCEPT !.at = "notes"]} : call' = [call EXCEPT ![c] = r]
    BY <1>5 DEF Saves, Ends
  <2>3. r \in Call /\ r.at \in {"idle", "notes"} /\ r.todo \subseteq k.todo /\ r.done \subseteq k.done
    BY <1>0, <2>2, NoCallIsCall, StepsAre DEF Call
  <2>4. UNCHANGED <<provider, exists, removed, parent, noted, spoiled, bare>>
    BY <1>5 DEF Saves, store, history
  <2>5. SecretsOK' /\ \A b \in Accounts : secret[b] # None => secret'[b] # None
    <3>1. secret' = secret \/ secret' = [secret EXCEPT ![k.holder] = k.got]
      BY <1>5 DEF Saves
    <3>2. k.got # None
      BY <2>1, NoneAssumption DEF Given
    <3>3. CASE secret' = secret
      BY <2>4, <3>3 DEF Base, SecretsOK, provider
    <3>4. CASE secret' = [secret EXCEPT ![k.holder] = k.got]
      BY <1>h, <2>1, <2>4, <3>2, <3>4, SavesTypes DEF Base, SecretsOK
    <3> QED
      BY <3>1, <3>3, <3>4
  <2>6. MemoryOK'
    <3>1. k.used.grant \in 1..issued
      BY <2>1 DEF Given, Token, Grants, Base, ProviderOK
    <3>2. \/ cloud' = [cloud EXCEPT ![k.holder] = k.used.grant] /\ UNCHANGED mail
          \/ mail' = mail \union {k.holder} /\ UNCHANGED cloud
      BY <1>5 DEF Saves
    <3> QED
      BY <1>h, <2>4, <3>1, <3>2 DEF Base, MemoryOK, provider
  <2>7. StoreOK' /\ HistoryOK' /\ Spares
    BY <2>4, <2>5 DEF Base, StoreOK, HistoryOK, Spares, Known
  <2>8. HoldsOK(c)'
    BY <1>0, <2>2, <2>3, <2>4, RestHolds DEF HoldsOK, Known, RestSteps, Base, CallsOK
  <2> QED
    BY <2>1, <2>2, <2>3, <2>4, <2>5, <2>6, <2>7, <2>8, CallMoves
<1>6. CASE AnswerLost(c)
  <2>1. HistoryOK'
    <3>1. Lost({c}) \subseteq Grants
      BY <1>0 DEF Lost, At, HoldsOK, Is, Given, Token
    <3> QED
      BY <1>6, <3>1 DEF AnswerLost, Base, HistoryOK
  <2> QED
    BY <1>6, <2>1, CallEnds, DataStays DEF AnswerLost
<1> QED
  BY <1>1, <1>2, <1>3, <1>5, <1>6

\* Where nesting leads when it is done.
LEMMA GoesOnTo ==
  ASSUME CallsOK, NEW c \in Calls, GoesOn(c)
  PROVE  \E r \in Call :
            /\ call' = [call EXCEPT ![c] = r] /\ r.at \in {"idle", "forgets"} /\ ~Locks(r)
            /\ r.todo \subseteq call[c].todo /\ r.done = {}
            /\ r.at = "forgets" => r.holder = call[c].holder /\ r.used = call[c].used /\ r.got = call[c].got
            /\ AfterAgain(c) => r.at = "forgets"
<1> DEFINE r == [call[c] EXCEPT !.at = "forgets", !.done = {}]
<1>0. call[c] \in Call
  BY DEF CallsOK
<1>1. CASE AfterAgain(c)
  <2>1. call' = [call EXCEPT ![c] = r]
    BY <1>1 DEF GoesOn
  <2>2. /\ r \in Call /\ r.at = "forgets" /\ r.todo = call[c].todo /\ r.done = {}
        /\ r.holder = call[c].holder /\ r.used = call[c].used /\ r.got = call[c].got
    BY <1>0, StepsAre DEF Call
  <2> HIDE DEF r
  <2> QED
    BY <2>1, <2>2 DEF Locks
<1>2. CASE ~AfterAgain(c)
  BY <1>2, NoCallIsCall DEF GoesOn, Ends, Locks
<1> QED
  BY <1>1, <1>2

LEMMA BaseNests ==
  ASSUME Base, NEW c \in Calls, Notes(c) \/ \E b \in Accounts : Nests(c, b) \/ Drops(c, b)
  PROVE  Base'
<1> DEFINE k == call[c]
<1>0. k \in Call /\ HoldsOK(c) /\ CallsOK
  BY DEF Base, CallsOK
<1>t. k.todo \subseteq Shared /\ k.done \subseteq Shared /\ k.todo \union k.done \subseteq Known /\ Shared \subseteq Accounts
      /\ Main \notin Shared /\ k.holder \in Accounts
  BY <1>0, AccountsAssumption DEF Call, HoldsOK, Accounts
<1>l. k.at \in {"notes", "nests"} /\ k.used # None => c \in Redeeming
  BY RedeemingLocks DEF Locks
<1>1. CASE Notes(c)
  <2>1. k.at = "notes"
    BY <1>1 DEF Notes, At
  <2> DEFINE known == noted \union ({k.holder} \intersect exists)
  <2>2. Nestable(known) \subseteq Shared \intersect exists
    BY DEF Nestable, Base, StoreOK, Accounts
  <2>3. PICK r \in Call : /\ call' = [call EXCEPT ![c] = r] /\ r.at \in {"idle", "forgets", "nests"}
                          /\ (Locks(r) => c \in Redeeming) /\ r.todo \union r.done \subseteq Known
    <3>1. CASE GoesOn(c)
      BY <1>0, <1>t, <3>1, GoesOnTo
    <3>2. CASE ~GoesOn(c)
      <4> DEFINE r == [k EXCEPT !.at = "nests", !.todo = Nestable(known)]
      <4>1. call' = [call EXCEPT ![c] = r]
        BY <1>1, <3>2 DEF Notes
      <4>2. r \in Call /\ r.at = "nests" /\ r.used = k.used /\ r.todo = Nestable(known) /\ r.done = k.done
        BY <1>0, <2>2, StepsAre DEF Call
      <4>3. r.todo \union r.done \subseteq Known /\ (Locks(r) => c \in Redeeming)
        BY <1>l, <1>t, <2>1, <2>2, <4>2 DEF Known, Locks
      <4> HIDE DEF r
      <4> QED
        BY <4>1, <4>2, <4>3
    <3> QED
      BY <3>1, <3>2
  <2>4. noted' = known /\ UNCHANGED <<provider, exists, removed, parent, secret, memory, history>>
    BY <1>1 DEF Notes
  <2>5. StoreOK' /\ SecretsOK' /\ MemoryOK' /\ HistoryOK' /\ Spares
    BY <2>4 DEF Base, StoreOK, SecretsOK, MemoryOK, HistoryOK, Spares, Known, provider, memory, history
  <2>6. HoldsOK(c)'
    <3>1. call'[c] = r /\ Known' = Known
      BY <1>0, <2>3, <2>4 DEF CallsOK, Known
    <3>2. CASE r.at \in RestSteps
      BY <2>3, <3>1, <3>2, RestHolds
    <3> QED
      BY <2>3, <3>2 DEF RestSteps
  <2> QED
    BY <2>3, <2>4, <2>5, <2>6, CallMoves
<1>2. ASSUME NEW b \in Accounts, Nests(c, b) PROVE Base'
  <2> DEFINE r == [k EXCEPT !.todo = @ \ {b}, !.done = @ \union {b}]
  <2>1. k.at = "nests" /\ b \in k.todo
    BY <1>2 DEF Nests, At
  <2>2. r \in Call /\ r.at = "nests" /\ r.used = k.used /\ r.todo = k.todo \ {b} /\ r.done = k.done \union {b}
    BY <1>0, <1>t, <2>1 DEF Call
  <2>3. call' = [call EXCEPT ![c] = r]
    BY <1>2 DEF Nests
  <2>4. Locks(r) => c \in Redeeming
    BY <1>l, <2>1, <2>2 DEF Locks
  <2> HIDE DEF r
  <2>5. /\ parent' = [parent EXCEPT ![b] = IF b \in exists THEN Main ELSE @] /\ b # Main
        /\ UNCHANGED <<provider, exists, removed, noted, secret, memory, history>>
    BY <1>2, <1>t, <2>1 DEF Nests
  <2>6. StoreOK' /\ SecretsOK' /\ MemoryOK' /\ HistoryOK' /\ Spares
    BY <2>5 DEF Base, StoreOK, SecretsOK, MemoryOK, HistoryOK, Spares, Known, provider, memory, history
  <2>7. HoldsOK(c)'
    <3>1. call'[c] = r /\ Known' = Known
      BY <1>0, <2>3, <2>5 DEF CallsOK, Known
    <3> QED
      BY <1>t, <2>1, <2>2, <3>1, RestHolds DEF RestSteps
  <2> QED
    BY <2>2, <2>3, <2>4, <2>5, <2>6, <2>7, CallMoves
<1>3. ASSUME NEW b \in Accounts, Drops(c, b) PROVE Base'
  <2>1. k.at \in {"nests", "adopted"} /\ b \in k.done
    BY <1>3 DEF Drops, At
  <2>2. PICK r \in Call : /\ call' = [call EXCEPT ![c] = r] /\ r.at \in {"idle", "forgets", "nests", "adopted"}
                          /\ (Locks(r) => c \in Redeeming) /\ r.todo \union r.done \subseteq Known
    <3>1. CASE GoesOn(c)
      BY <1>0, <1>t, <3>1, GoesOnTo
    <3>2. CASE ~GoesOn(c)
      <4> DEFINE r == [k EXCEPT !.done = @ \ {b}]
      <4>1. call' = [call EXCEPT ![c] = r]
        BY <1>3, <3>2 DEF Drops
      <4>2. r \in Call /\ r.at = k.at /\ r.used = k.used /\ r.todo = k.todo /\ r.done = k.done \ {b}
        BY <1>0 DEF Call
      <4>3. r.todo \union r.done \subseteq Known /\ (Locks(r) => c \in Redeeming)
        BY <1>l, <1>t, <2>1, <4>2 DEF Locks
      <4> HIDE DEF r
      <4> QED
        BY <2>1, <4>1, <4>2, <4>3
    <3> QED
      BY <3>1, <3>2
  <2>3. /\ secret' = [secret EXCEPT ![b] = None] /\ mail' \subseteq mail /\ bare' \subseteq bare \union {b}
        /\ UNCHANGED <<provider, store, cloud, spoiled>>
    BY <1>3 DEF Drops
  <2>4. SecretsOK'
    BY <2>3, SavesTypes DEF Base
  <2>5. StoreOK' /\ MemoryOK' /\ HistoryOK' /\ Spares
    BY <1>t, <2>1, <2>3 DEF Base, StoreOK, MemoryOK, HistoryOK, Spares, Known, provider, store, SecretsOK
  <2>6. HoldsOK(c)'
    <3>1. call'[c] = r /\ Known' = Known
      BY <1>0, <2>2, <2>3 DEF CallsOK, Known, store
    <3> QED
      BY <2>2, <3>1, RestHolds DEF RestSteps
  <2> QED
    BY <2>2, <2>3, <2>4, <2>5, <2>6, CallMoves
<1> QED
  BY <1>1, <1>2, <1>3

LEMMA BaseAgain ==
  ASSUME Base, NEW c \in Calls, NEW a \in Accounts, Again(c, a)
  PROVE  Base'
<1> DEFINE r == [NoCall EXCEPT !.at = "granted", !.account = a, !.holder = Holder(a), !.got = NewToken]
<1>1. /\ issued < MaxGrants /\ issued' = issued + 1 /\ UNCHANGED turn /\ issued \in Nat
      /\ UNCHANGED <<store, secret, memory, history>> /\ call' = [call EXCEPT ![c] = r]
  BY BoundsAssumption DEF Again, Browser, Base, ProviderOK
<1>2. NewToken \in Token /\ NewToken.grant = issued' /\ NewToken.turn = 0 /\ turn[issued'] = 0
  BY <1>1, BoundsAssumption DEF NewToken, Token, Grants, Base, TurnsOK
<1>3. Holder(a) \in Accounts
  BY HolderIsThere DEF Again, Base
<1>4. r \in Call /\ r.at = "granted" /\ r.used = None /\ r.got = NewToken /\ r.todo = {} /\ r.done = {}
  BY <1>2, <1>3, NoCallIsCall, StepsAre DEF Call, NoCall
<1> HIDE DEF r
<1>5. HoldsOK(c)'
  BY <1>1, <1>2, <1>4, StepsAre, BoundsAssumption DEF HoldsOK, Is, At, Given, RemovalSteps, Base, CallsOK
<1>6. Spares /\ StoreOK'
  BY <1>1 DEF Base, store, StoreOK, Spares, Known
<1>7. HistoryOK' /\ ProviderOK' /\ TurnsOK'
  <2>1. HistoryOK'
    BY <1>1 DEF Base, history, HistoryOK
  <2>2. ProviderOK'
    BY <1>1, BoundsAssumption DEF Base, ProviderOK
  <2>3. \A g \in Grants : g > issued' => g > issued
    BY <1>1, BoundsAssumption DEF Grants
  <2> QED
    BY <1>1, <2>1, <2>2, <2>3 DEF Base, TurnsOK
<1>8. SecretsOK'
  BY <1>1 DEF Base, SecretsOK, Token, Grants
<1>9. MemoryOK'
  BY <1>1 DEF Base, MemoryOK, memory
<1>10. \A d \in Calls : AddsOK(d)'
  <2>1. \A d \in Calls : call'[d] = call[d] \/ call'[d].at # "adds"
    BY <1>1, <1>4 DEF Base, CallsOK
  <2> QED
    BY <1>6, <2>1, AddsStay DEF Base
<1>11. issued <= issued' /\ \A g \in Grants : turn[g] <= turn'[g]
  BY <1>1, BoundsAssumption DEF Base, ProviderOK
<1>12. ~Locks(r)
  BY <1>4 DEF Locks
<1> QED
  BY <1>1, <1>4, <1>5, <1>6, <1>7, <1>8, <1>9, <1>10, <1>11, <1>12, OneCall DEF Spares

LEMMA BaseAdd ==
  ASSUME Base, NEW c \in Calls, NEW a \in Accounts, Add(c, a)
  PROVE  Base'
<1> DEFINE r == [NoCall EXCEPT !.at = "adds", !.account = a, !.holder = a]
<1>1. /\ issued < MaxGrants /\ issued' = issued + 1 /\ UNCHANGED turn /\ issued \in Nat
      /\ UNCHANGED <<store, cloud, history>> /\ call' = [call EXCEPT ![c] = r]
      /\ mail' = mail \union {a} /\ secret' = [secret EXCEPT ![a] = NewToken]
      /\ a \notin Known /\ secret[a] = None
  BY BoundsAssumption DEF Add, Browser, Base, ProviderOK, New, Known
<1>2. NewToken \in Token /\ NewToken.grant = issued' /\ NewToken.turn = 0 /\ turn[issued'] = 0
  BY <1>1, BoundsAssumption DEF NewToken, Token, Grants, Base, TurnsOK
<1>4. r \in Call /\ r.at = "adds" /\ r.used = None /\ r.holder = a /\ r.todo = {} /\ r.done = {}
  BY NoCallIsCall, StepsAre DEF Call, NoCall
<1> HIDE DEF r
<1>5. HoldsOK(c)'
  BY <1>1, <1>4, StepsAre DEF HoldsOK, Is, At, RemovalSteps, Base, CallsOK
<1>6. StoreOK' /\ Known' = Known /\ removed' = removed
  BY <1>1 DEF Base, store, StoreOK, Known
<1>7. HistoryOK' /\ ProviderOK' /\ TurnsOK'
  <2>1. HistoryOK'
    BY <1>1 DEF Base, history, HistoryOK
  <2>2. ProviderOK'
    BY <1>1, BoundsAssumption DEF Base, ProviderOK
  <2>3. \A g \in Grants : g > issued' => g > issued
    BY <1>1, BoundsAssumption DEF Grants
  <2> QED
    BY <1>1, <2>1, <2>2, <2>3 DEF Base, TurnsOK
<1>8. SecretsOK'
  BY <1>1, <1>2, BoundsAssumption DEF Base, SecretsOK, Token, Grants
<1>9. MemoryOK'
  BY <1>1 DEF Base, MemoryOK
<1>10. \A d \in Calls : AddsOK(d)'
  <2>1. call'[c] = r /\ \A d \in Calls \ {c} : call'[d] = call[d]
    BY <1>1 DEF Base, CallsOK
  <2>2. \A d \in Calls \ {c} : At(d, "adds") => call[d].holder # a /\ call[d].holder \in Accounts
    BY <1>1 DEF Base, AddsOK, CallsOK, Call
  <2>3. secret'[a] # None /\ \A b \in Accounts \ {a} : secret'[b] = secret[b]
    BY <1>1, <1>2, NoneAssumption DEF Base, SecretsOK
  <2>4. AddsOK(c)'
    BY <1>1, <1>4, <1>6, <2>1, <2>2, <2>3 DEF AddsOK, At
  <2>5. ASSUME NEW d \in Calls \ {c} PROVE AddsOK(d)'
    BY <1>4, <1>6, <2>1, <2>2, <2>3 DEF AddsOK, At, Base
  <2> QED
    BY <2>4, <2>5
<1>11. issued <= issued' /\ \A g \in Grants : turn[g] <= turn'[g]
  BY <1>1, BoundsAssumption DEF Base, ProviderOK
<1>12. ~Locks(r)
  BY <1>4 DEF Locks
<1> QED
  BY <1>1, <1>4, <1>5, <1>6, <1>7, <1>8, <1>9, <1>10, <1>11, <1>12, OneCall

\* A new id: of one that is being added, or of a mailbox that a search found.
LEMMA BaseInserts ==
  ASSUME Base, NEW c \in Calls, NEW b \in Accounts, NEW r \in Call, call' = [call EXCEPT ![c] = r], ~Locks(r),
         exists' = exists \union {b}, b \notin removed, r.at \in {"notes", "found"},
         r.at = "found" => r.holder \in Shared, r.todo \union r.done \subseteq Known,
         \A d \in Calls \ {c} : At(d, "adds") => call[d].holder # b,
         UNCHANGED <<provider, removed, parent, noted, secret, memory, history>>
  PROVE  Base'
<1>1. call'[c] = r /\ \A d \in Calls \ {c} : call'[d] = call[d]
  BY DEF Base, CallsOK
<1>2. ProviderOK' /\ TurnsOK' /\ issued <= issued' /\ \A g \in Grants : turn[g] <= turn'[g]
  BY ProviderStays DEF Base
<1>3. StoreOK' /\ SecretsOK' /\ MemoryOK' /\ HistoryOK'
  BY DEF Base, StoreOK, SecretsOK, MemoryOK, HistoryOK, provider, memory, history
<1>4. Known' = Known \union {b} /\ Known \subseteq Known' /\ removed' = removed
  BY DEF Known
<1>5. HoldsOK(c)'
  BY <1>1, <1>4, StepsAre DEF HoldsOK, Is, At, RemovalSteps
<1>6. \A d \in Calls : AddsOK(d)'
  BY <1>1, <1>4 DEF AddsOK, At, Base
<1> QED
  BY <1>1, <1>2, <1>3, <1>4, <1>5, <1>6, OneCall

LEMMA BaseSignsIn ==
  ASSUME Base, NEW c \in Calls,
         \/ AgainSaves(c) \/ AgainForgets(c) \/ AddsRow(c)
         \/ Search(c) \/ FoundNests(c) \/ FindsNothing(c) \/ \E b \in Accounts : Finds(c, b) \/ Adopts(c, b)
  PROVE  Base'
<1> DEFINE k == call[c]
<1>0. k \in Call /\ HoldsOK(c) /\ AddsOK(c)
  BY DEF Base, CallsOK
<1>h. k.holder \in Accounts /\ k.todo \union k.done \subseteq Known
  BY <1>0 DEF Call, HoldsOK
<1>1. CASE AgainSaves(c)
  <2>1. Given(k.got) /\ k.used = None /\ k.got # None
    BY <1>0, <1>1, NoneAssumption DEF AgainSaves, At, HoldsOK, Is, Given
  <2>2. PICK r : /\ r \in Call /\ call' = [call EXCEPT ![c] = r] /\ r.at \in {"notes", "forgets"} /\ r.used = None
                 /\ r.todo = k.todo /\ r.done = k.done
    <3> DEFINE r == [k EXCEPT !.at = IF k.holder \in noted THEN "forgets" ELSE "notes"]
    <3>1. call' = [call EXCEPT ![c] = r]
      BY <1>1 DEF AgainSaves
    <3>2. r \in Call /\ r.at \in {"notes", "forgets"} /\ r.used = None /\ r.todo = k.todo /\ r.done = k.done
      BY <1>0, <2>1, StepsAre DEF Call
    <3> HIDE DEF r
    <3> QED
      BY <3>1, <3>2
  <2>3. /\ secret' = [secret EXCEPT ![k.holder] = k.got] /\ mail' = mail \union {k.holder}
        /\ bare' = bare \ {k.holder} /\ UNCHANGED <<provider, store, cloud, spoiled>>
    BY <1>1 DEF AgainSaves
  <2>4. SecretsOK'
    BY <1>h, <2>1, <2>3, SavesTypes DEF Base
  <2>5. StoreOK' /\ MemoryOK' /\ HistoryOK' /\ Spares
    BY <1>h, <2>1, <2>3 DEF Base, StoreOK, MemoryOK, HistoryOK, Spares, Known, provider, store, SecretsOK
  <2>6. call'[c] = r /\ Known' = Known
    BY <2>2, <2>3 DEF Base, CallsOK, store, Known
  <2>7. HoldsOK(c)' /\ ~Locks(r)
    BY <1>h, <2>2, <2>6, RestHolds DEF RestSteps, Locks
  <2> QED
    BY <2>2, <2>3, <2>4, <2>5, <2>7, CallMoves
<1>2. CASE AgainForgets(c)
  <2>1. Ends(c) /\ UNCHANGED <<provider, store, secret, mail, history>>
    BY <1>2 DEF AgainForgets
  <2>2. \A a \in Accounts : cloud'[a] \in {None, cloud[a]}
    BY <1>2 DEF AgainForgets
  <2>3. cloud' \in [Accounts -> 1..issued \union {None}]
    <3>1. \A a \in Accounts : cloud'[a] \in 1..issued \union {None}
      BY <2>2 DEF Base, MemoryOK
    <3>2. cloud' = [a \in Accounts |-> cloud'[a]]
      BY <1>2 DEF AgainForgets
    <3> HIDE DEF k
    <3> QED
      BY <3>1, <3>2
  <2>4. Spares /\ StoreOK' /\ SecretsOK' /\ MemoryOK' /\ HistoryOK'
    BY <2>1, <2>3 DEF Base, provider, store, StoreOK, SecretsOK, MemoryOK, history, HistoryOK, Spares, Known
  <2> QED
    BY <2>1, <2>4, CallEnds
<1>3. CASE AddsRow(c)
  <2> DEFINE r == [k EXCEPT !.at = "notes"]
  <2>1. At(c, "adds") /\ k.at = "adds" /\ k.used = None /\ k.holder \notin Known
    BY <1>0, <1>3 DEF AddsRow, At, AddsOK, HoldsOK, Is
  <2>2. r \in Call /\ r.at = "notes" /\ r.used = None /\ r.todo = k.todo /\ r.done = k.done /\ r.holder = k.holder
    BY <1>0, <2>1, StepsAre DEF Call
  <2>3. /\ call' = [call EXCEPT ![c] = r] /\ exists' = exists \union {k.holder}
        /\ UNCHANGED <<provider, removed, parent, noted, secret, memory, history>>
    BY <1>3 DEF AddsRow
  <2> HIDE DEF r
  <2>4. \A d \in Calls \ {c} : At(d, "adds") => call[d].holder # k.holder
    BY <1>0, <2>1 DEF AddsOK
  <2>5. ~Locks(r) /\ k.holder \notin removed
    BY <2>1, <2>2 DEF Locks, Known
  <2> QED
    BY <1>h, <2>2, <2>3, <2>4, <2>5, BaseInserts
<1>4. CASE Search(c)
  <2> DEFINE r == [NoCall EXCEPT !.at = "search"]
  <2>1. r \in Call /\ r.at = "search" /\ r.todo = {} /\ r.done = {}
    BY NoCallIsCall, StepsAre DEF Call, NoCall
  <2>2. call' = [call EXCEPT ![c] = r] /\ UNCHANGED <<provider, store, secret, memory, history>>
    BY <1>4 DEF Search
  <2> HIDE DEF r
  <2>3. HoldsOK(c)' /\ ~Locks(r)
    BY <2>1, <2>2, RestHolds DEF RestSteps, Base, CallsOK, Locks
  <2> QED
    BY <2>1, <2>2, <2>3, CallGoesOn
<1>5. CASE FoundNests(c)
  <2>1. k.holder \in Shared
    BY <1>0, <1>5 DEF FoundNests, At, HoldsOK
  <2>2. /\ Ends(c) /\ parent' = [parent EXCEPT ![k.holder] = IF k.holder \in exists THEN Main ELSE @]
        /\ UNCHANGED <<provider, exists, removed, noted, secret, memory, history>>
    BY <1>5 DEF FoundNests
  <2>3. StoreOK'
    <3>1. PICK b \in Shared : b = k.holder
      BY <2>1
    <3>2. b \in Accounts /\ b # Main
      BY AccountsAssumption DEF Accounts
    <3>3. parent' = [parent EXCEPT ![b] = IF b \in exists THEN Main ELSE @]
      BY <2>2, <3>1
    <3>4. parent' \in [Accounts -> {Main, None}] /\ parent'[Main] = None
      BY <3>2, <3>3 DEF Base, StoreOK
    <3> QED
      BY <2>2, <3>4 DEF Base, StoreOK
  <2>4. Spares /\ SecretsOK' /\ MemoryOK' /\ HistoryOK'
    BY <2>2 DEF Base, provider, SecretsOK, MemoryOK, HistoryOK, memory, history, Spares, Known
  <2> QED
    BY <2>2, <2>3, <2>4, CallEnds
<1>6. CASE FindsNothing(c)
  <2>1. Ends(c) /\ UNCHANGED <<provider, store, secret, memory, history>>
    BY <1>6 DEF FindsNothing
  <2>2. HistoryOK'
    BY <2>1 DEF history, HistoryOK, Base
  <2> QED
    BY <2>1, <2>2, CallEnds, DataStays
<1>7. ASSUME NEW b \in Accounts, Finds(c, b) PROVE Base'
  <2> DEFINE r == [k EXCEPT !.at = "found", !.holder = b]
  <2>1. b \in Shared /\ b \notin removed /\ secret[b] = None
    BY <1>7 DEF Finds, New
  <2>2. r \in Call /\ r.at = "found" /\ r.todo = k.todo /\ r.done = k.done /\ r.holder = b
    BY <1>0, StepsAre DEF Call
  <2>3. /\ call' = [call EXCEPT ![c] = r] /\ exists' = exists \union {b}
        /\ UNCHANGED <<provider, removed, parent, noted, secret, memory, history>>
    BY <1>7 DEF Finds
  <2> HIDE DEF r
  <2>4. \A d \in Calls \ {c} : At(d, "adds") => call[d].holder # b
    BY <2>1 DEF Base, AddsOK
  <2>5. ~Locks(r)
    BY <2>2 DEF Locks
  <2> QED
    BY <1>h, <2>1, <2>2, <2>3, <2>4, <2>5, BaseInserts
<1>8. ASSUME NEW b \in Accounts, Adopts(c, b) PROVE Base'
  <2> DEFINE r == [k EXCEPT !.at = "adopted", !.done = {b}]
  <2>1. b \in Shared \intersect exists /\ b # Main
    BY <1>8, AccountsAssumption DEF Adopts
  <2>2. r \in Call /\ r.at = "adopted" /\ r.todo = k.todo /\ r.done = {b}
    BY <1>0, <2>1, StepsAre DEF Call
  <2>3. /\ call' = [call EXCEPT ![c] = r] /\ parent' = [parent EXCEPT ![b] = Main]
        /\ UNCHANGED <<provider, exists, removed, noted, secret, memory, history>>
    BY <1>8 DEF Adopts
  <2> HIDE DEF r
  <2>4. Spares /\ StoreOK' /\ SecretsOK' /\ MemoryOK' /\ HistoryOK'
    BY <2>1, <2>3 DEF Base, provider, StoreOK, SecretsOK, MemoryOK, HistoryOK, memory, history, Spares, Known
  <2>5. HoldsOK(c)'
    BY <1>h, <2>1, <2>2, <2>3, RestHolds DEF RestSteps, Base, CallsOK, Known
  <2>6. ~Locks(r)
    BY <2>2 DEF Locks
  <2> QED
    BY <2>2, <2>3, <2>4, <2>5, <2>6, CallMoves
<1> QED
  BY <1>1, <1>2, <1>3, <1>4, <1>5, <1>6, <1>7, <1>8

LEMMA BaseRemoves ==
  ASSUME Base, NEW c \in Calls,
         \/ \E a \in Accounts : Copies(c, a) \/ \E op \in {"remove", "keep"} : Remove(c, a, op)
         \/ Keeps(c) \/ KeptForgets(c) \/ RemovesTokens(c) \/ RemovesRow(c) \/ RemovesSecret(c)
  PROVE  Base'
<1> DEFINE k == call[c]
<1>0. k \in Call /\ HoldsOK(c)
  BY DEF Base, CallsOK
<1>h. /\ k.holder \in Accounts /\ k.account \in Accounts /\ k.todo \subseteq Shared /\ k.done \subseteq Shared
      /\ Shared \subseteq Accounts /\ Main \notin Shared /\ Main \in Accounts /\ k.todo \union k.done \subseteq Known
  BY <1>0, AccountsAssumption DEF Call, HoldsOK, Accounts
<1>1. ASSUME NEW a \in Accounts, NEW op \in {"remove", "keep"}, Remove(c, a, op) PROVE Base'
  <2> DEFINE children == {b \in exists : parent[b] = a}
             r == [NoCall EXCEPT !.at = op, !.account = a, !.todo = children, !.used = secret[a]]
  <2>1. children \subseteq Shared /\ children \subseteq Known /\ a \in Known
    BY <1>1, AccountsAssumption DEF Remove, Base, StoreOK, Accounts, Known
  <2>2. secret[a] \in Token \union {None}
    BY DEF Base, SecretsOK
  <2>3. r \in Call /\ r.at = op /\ r.used = secret[a] /\ r.account = a /\ r.todo = children /\ r.done = {}
    BY <1>1, <2>1, <2>2, NoCallIsCall, StepsAre DEF Call, NoCall
  <2>4. call' = [call EXCEPT ![c] = r] /\ UNCHANGED <<provider, store, secret, memory, history>>
    BY <1>1 DEF Remove
  <2>5. op = "keep" => Given(secret[a])
    BY <1>1 DEF Remove, Base, SecretsOK, Given
  <2> HIDE DEF r, children
  <2>6. call'[c] = r /\ Known' = Known
    BY <2>4 DEF Base, CallsOK, store, Known
  <2>7. HoldsOK(c)' /\ ~Locks(r)
    BY <2>1, <2>3, <2>4, <2>5, <2>6, StepsAre DEF HoldsOK, Is, At, Given, provider, RemovalSteps, Locks
  <2> QED
    BY <2>3, <2>4, <2>7, CallGoesOn
<1>2. ASSUME NEW b \in Accounts, Copies(c, b) PROVE Base'
  <2> DEFINE r == [k EXCEPT !.at = "copied", !.holder = b, !.todo = @ \ {b}]
  <2>1. k.at = "keep" /\ Given(k.used) /\ b \in Shared \intersect Known /\ k.account \in Known
    BY <1>0, <1>2, <1>h, StepsAre DEF Copies, At, HoldsOK, Is, RemovalSteps
  <2>2. /\ r \in Call /\ r.at = "copied" /\ r.used = k.used /\ r.account = k.account /\ r.holder = b
        /\ r.todo = k.todo \ {b} /\ r.done = k.done
    BY <1>0, StepsAre DEF Call
  <2>3. /\ call' = [call EXCEPT ![c] = r] /\ secret' = [secret EXCEPT ![b] = k.used]
        /\ spoiled' = spoiled \union {k.used.grant} /\ UNCHANGED <<provider, store, memory, bare>>
    BY <1>2 DEF Copies
  <2> HIDE DEF r
  <2>4. call'[c] = r /\ Known' = Known
    BY <2>3 DEF Base, CallsOK, store, Known
  <2>5. HoldsOK(c)' /\ ~Locks(r)
    BY <1>h, <2>1, <2>2, <2>3, <2>4, StepsAre DEF HoldsOK, Is, At, Given, provider, RemovalSteps, Locks
  <2>6. SecretsOK'
    BY <2>1, <2>3, SavesTypes DEF Base
  <2>7. StoreOK' /\ MemoryOK' /\ HistoryOK' /\ Spares
    BY <2>1, <2>3, NoneAssumption
    DEF Base, StoreOK, MemoryOK, HistoryOK, SecretsOK, Spares, Known, store, memory, provider, Given, Token
  <2> QED
    BY <2>2, <2>3, <2>5, <2>6, <2>7, CallMoves
<1>3. CASE Keeps(c)
  <2> DEFINE r == [k EXCEPT !.at = "kept"]
  <2>1. k.at = "copied" /\ Given(k.used) /\ k.account \in Known
    BY <1>0, <1>3, StepsAre DEF Keeps, At, HoldsOK, Is, RemovalSteps
  <2>2. /\ r \in Call /\ r.at = "kept" /\ r.used = k.used /\ r.account = k.account
        /\ r.todo = k.todo /\ r.done = k.done
    BY <1>0, StepsAre DEF Call
  <2>3. /\ call' = [call EXCEPT ![c] = r] /\ parent' = [parent EXCEPT ![k.holder] = None]
        /\ UNCHANGED <<provider, exists, removed, noted, secret, memory, history>>
    BY <1>3 DEF Keeps
  <2> HIDE DEF r
  <2>4. call'[c] = r /\ Known' = Known
    BY <2>3 DEF Base, CallsOK, Known
  <2>5. HoldsOK(c)' /\ ~Locks(r)
    BY <1>h, <2>1, <2>2, <2>3, <2>4, StepsAre DEF HoldsOK, Is, At, Given, provider, RemovalSteps, Locks
  <2>6. StoreOK'
    <3>1. parent' \in [Accounts -> {Main, None}] /\ parent'[Main] = None
      BY <1>h, <2>3 DEF Base, StoreOK
    <3> QED
      BY <2>3, <3>1 DEF Base, StoreOK
  <2>7. SecretsOK' /\ MemoryOK' /\ HistoryOK' /\ Spares
    BY <2>3 DEF Base, SecretsOK, MemoryOK, HistoryOK, Spares, Known, memory, history, provider
  <2> QED
    BY <2>2, <2>3, <2>5, <2>6, <2>7, CallMoves
<1>4. CASE KeptForgets(c)
  <2> DEFINE r == [k EXCEPT !.at = IF k.todo = {} THEN "remove" ELSE "keep", !.holder = Main]
  <2>1. k.at = "kept" /\ Given(k.used) /\ k.account \in Known
    BY <1>0, <1>4, StepsAre DEF KeptForgets, At, HoldsOK, Is, RemovalSteps
  <2>2. /\ r \in Call /\ r.at \in {"remove", "keep"} /\ r.used = k.used /\ r.account = k.account
        /\ r.todo = k.todo /\ r.done = k.done
    BY <1>0, <1>h, StepsAre DEF Call
  <2>3. /\ call' = [call EXCEPT ![c] = r] /\ cloud' = [cloud EXCEPT ![k.holder] = None]
        /\ noted' = noted \union ({k.holder} \intersect exists)
        /\ UNCHANGED <<provider, exists, removed, parent, secret, mail, history>>
    BY <1>4 DEF KeptForgets
  <2> HIDE DEF r
  <2>4. call'[c] = r /\ Known' = Known
    BY <2>3 DEF Base, CallsOK, Known
  <2>5. HoldsOK(c)' /\ ~Locks(r)
    BY <1>h, <2>1, <2>2, <2>3, <2>4, StepsAre DEF HoldsOK, Is, At, Given, provider, RemovalSteps, Locks
  <2>6. StoreOK' /\ SecretsOK' /\ MemoryOK' /\ HistoryOK' /\ Spares
    BY <2>3 DEF Base, StoreOK, SecretsOK, MemoryOK, HistoryOK, Spares, Known, history, provider
  <2> QED
    BY <2>2, <2>3, <2>5, <2>6, CallMoves
<1>5. CASE RemovesTokens(c)
  <2> DEFINE r == [k EXCEPT !.at = "row"]
  <2>1. k.at = "tokens" /\ k.account \in Known /\ k.holder \in Known
    BY <1>0, <1>5, StepsAre DEF RemovesTokens, At, HoldsOK, Is, RemovalSteps
  <2>2. /\ r \in Call /\ r.at = "row" /\ r.account = k.account /\ r.holder = k.holder
        /\ r.todo = k.todo /\ r.done = k.done
    BY <1>0, StepsAre DEF Call
  <2>3. /\ call' = [call EXCEPT ![c] = r] /\ mail' = mail \ {k.holder}
        /\ UNCHANGED <<provider, store, secret, cloud, history>>
    BY <1>5 DEF RemovesTokens
  <2> HIDE DEF r
  <2>4. call'[c] = r /\ Known' = Known
    BY <2>3 DEF Base, CallsOK, Known, store
  <2>5. HoldsOK(c)' /\ ~Locks(r)
    BY <1>h, <2>1, <2>2, <2>4, StepsAre DEF HoldsOK, Is, At, RemovalSteps, Locks
  <2>6. StoreOK' /\ SecretsOK' /\ MemoryOK' /\ HistoryOK' /\ Spares
    BY <2>3 DEF Base, StoreOK, SecretsOK, MemoryOK, HistoryOK, Spares, Known, store, history, provider
  <2> QED
    BY <2>2, <2>3, <2>5, <2>6, CallMoves
<1>6. CASE RemovesRow(c)
  <2> DEFINE r == [k EXCEPT !.at = "secret"]
  <2>1. k.at = "row" /\ k.account \in Known /\ k.holder \in Known
    BY <1>0, <1>6, StepsAre DEF RemovesRow, At, HoldsOK, Is, RemovalSteps
  <2>2. /\ r \in Call /\ r.at = "secret" /\ r.account = k.account /\ r.holder = k.holder
        /\ r.todo = k.todo /\ r.done = k.done
    BY <1>0, StepsAre DEF Call
  <2>3. /\ call' = [call EXCEPT ![c] = r]
        /\ exists' = exists \ {k.holder} /\ removed' = removed \union {k.holder} /\ noted' = noted \ {k.holder}
        /\ parent' = [parent EXCEPT ![k.holder] = None] /\ cloud' = [cloud EXCEPT ![k.holder] = None]
        /\ bare' = bare \ {k.holder} /\ UNCHANGED <<provider, secret, mail, spoiled>>
    BY <1>6 DEF RemovesRow
  <2> HIDE DEF r
  <2>4. call'[c] = r /\ Known' = Known
    BY <2>1, <2>3 DEF Base, CallsOK, Known
  <2>5. HoldsOK(c)' /\ ~Locks(r)
    BY <1>h, <2>1, <2>2, <2>3, <2>4, StepsAre DEF HoldsOK, Is, At, RemovalSteps, Locks
  <2>6. StoreOK'
    BY <1>h, <2>3 DEF Base, StoreOK
  <2>7. SecretsOK' /\ MemoryOK' /\ HistoryOK' /\ Spares
    BY <2>3, <2>4 DEF Base, SecretsOK, MemoryOK, HistoryOK, Spares, provider
  <2> QED
    BY <2>2, <2>3, <2>5, <2>6, <2>7, CallMoves
<1>7. CASE RemovesSecret(c)
  <2>1. k.at = "secret" /\ k.account \in Known /\ k.holder \in removed
    BY <1>0, <1>7, StepsAre DEF RemovesSecret, At, HoldsOK, Is, RemovalSteps
  <2>2. /\ secret' = [secret EXCEPT ![k.holder] = None] /\ UNCHANGED <<provider, store, memory, history>>
        /\ \/ Ends(c)
           \/ call' = [call EXCEPT ![c] = [k EXCEPT !.at = "remove", !.holder = Main, !.todo = @ \ {k.holder}]]
    BY <1>7 DEF RemovesSecret
  <2>3. SecretsOK'
    BY <1>h, <2>2, SavesTypes DEF Base
  <2>4. StoreOK' /\ MemoryOK' /\ HistoryOK' /\ Spares
    BY <2>1, <2>2 DEF Base, StoreOK, MemoryOK, HistoryOK, SecretsOK, Spares, Known, store, memory, history, provider
  <2>5. CASE Ends(c)
    BY <2>2, <2>3, <2>4, <2>5, CallEnds
  <2>6. CASE ~Ends(c)
    <3> DEFINE r == [k EXCEPT !.at = "remove", !.holder = Main, !.todo = @ \ {k.holder}]
    <3>1. /\ r \in Call /\ r.at = "remove" /\ r.account = k.account
          /\ r.todo = k.todo \ {k.holder} /\ r.done = k.done
      BY <1>0, <1>h, StepsAre DEF Call
    <3>2. call' = [call EXCEPT ![c] = r]
      BY <2>2, <2>6
    <3> HIDE DEF r
    <3>3. call'[c] = r /\ Known' = Known
      BY <2>2, <3>2 DEF Base, CallsOK, Known, store
    <3>4. HoldsOK(c)' /\ ~Locks(r)
      BY <1>h, <2>1, <3>1, <3>3, StepsAre DEF HoldsOK, Is, At, RemovalSteps, Locks
    <3> QED
      BY <2>2, <2>3, <2>4, <3>1, <3>2, <3>4, CallMoves
  <2> QED
    BY <2>5, <2>6
<1> QED
  BY <1>1, <1>2, <1>3, <1>4, <1>5, <1>6, <1>7

\* A removal cuts off the logins of its account, and goes on itself.
LEMMA BaseAborts ==
  ASSUME Base, NEW c \in Calls, NEW b \in Accounts, RemoveAborts(c, b)
  PROVE  Base'
<1> DEFINE k == call[c]
           r == [k EXCEPT !.at = "tokens", !.holder = b, !.used = None]
<1>0. k \in Call /\ HoldsOK(c)
  BY DEF Base, CallsOK
<1>1. PICK tasks \in SUBSET Logins(b) :
        /\ call' = [d \in Calls |-> IF d = c THEN r ELSE IF d \in tasks THEN NoCall ELSE call[d]]
        /\ spoiled' = spoiled \union Lost(tasks)
        /\ UNCHANGED <<provider, store, secret, memory, bare>>
  BY <1>0 DEF RemoveAborts
<1>2. k.at = "remove" /\ k.account \in Known /\ k.todo \union k.done \subseteq Known /\ b \in Known
  BY <1>0, StepsAre DEF RemoveAborts, At, HoldsOK, Is, RemovalSteps
<1>3. /\ r \in Call /\ r.at = "tokens" /\ r.holder = b /\ r.account = k.account
      /\ r.todo = k.todo /\ r.done = k.done
  BY <1>0, StepsAre DEF Call
<1> HIDE DEF r
<1>4. CallsOK'
  BY <1>1, <1>3, NoCallIsCall DEF CallsOK, Base
<1>5. ASSUME NEW d \in Calls PROVE call'[d] = call[d] \/ (~Locks(call'[d]) /\ call'[d].at # "adds")
  BY <1>1, <1>3, NoCallIsCall DEF Locks
<1>6. OneRedeems'
  <2>1. \A d \in Calls : d \in Redeeming' <=> Locks(call'[d])
    BY DEF Redeeming, Asking, Locks, At
  <2>2. \A d \in Calls : d \in Redeeming' => d \in Redeeming
    BY <1>5, <2>1, RedeemingLocks
  <2>3. Redeeming' \subseteq Calls
    BY DEF Redeeming, Asking
  <2> QED
    BY <2>2, <2>3 DEF Base, OneRedeems
<1>7. HistoryOK'
  <2>1. Lost(tasks) \subseteq Grants
    BY <1>1 DEF Lost, Logins, At, Base, HoldsOK, Is, Given, Token
  <2> QED
    BY <1>1, <2>1 DEF Base, HistoryOK
<1>8. /\ ProviderOK' /\ TurnsOK' /\ issued <= issued' /\ \A g \in Grants : turn[g] <= turn'[g]
      /\ StoreOK' /\ SecretsOK' /\ MemoryOK' /\ Spares /\ Known' = Known /\ removed' = removed
  BY <1>1, ProviderStays, DataStays DEF Base, store, Known
<1>9. ASSUME NEW d \in Calls PROVE HoldsOK(d)'
  <2>1. CASE d = c
    BY <1>1, <1>2, <1>3, <1>8, <2>1, StepsAre DEF HoldsOK, Is, At, RemovalSteps
  <2>2. CASE d # c /\ d \in tasks
    <3>1. call'[d] = NoCall
      BY <1>1, <2>2
    <3> QED
      BY <3>1, NoCallIsCall, RestHolds DEF RestSteps
  <2>3. CASE d # c /\ d \notin tasks
    BY <1>1, <1>8, <2>3, HoldsStays DEF Base
  <2> QED
    BY <2>1, <2>2, <2>3
<1>10. \A d \in Calls : AddsOK(d)'
  BY <1>5, <1>8, AddsStay DEF Base
<1> QED
  BY <1>4, <1>6, <1>7, <1>8, <1>9, <1>10 DEF Base

LEMMA BaseElse ==
  ASSUME Base, Quit \/ \E a \in Accounts : Expires(a)
  PROVE  Base'
<1>1. CASE Quit
  <2> DEFINE nested == Nestable(noted)
  <2>0. /\ call' = [c \in Calls |-> NoCall] /\ mail' = {} /\ cloud' = [a \in Accounts |-> None]
        /\ spoiled' = spoiled \union Lost(Calls)
        /\ bare' = bare \union {call[c].holder : c \in {d \in Calls : At(d, "found")}}
        /\ parent' = [a \in Accounts |-> IF a \in nested THEN Main ELSE parent[a]]
        /\ UNCHANGED <<provider, exists, removed, noted>>
    BY <1>1 DEF Quit
  <2>1. PICK left \in SUBSET nested : secret' = [a \in Accounts |-> IF a \in nested \ left THEN None ELSE secret[a]]
    BY <1>1 DEF Quit
  <2>2. \A c \in Calls : call'[c] = NoCall
    BY <2>0
  <2>3. CallsOK'
    BY <2>0, NoCallIsCall DEF CallsOK
  <2>4. \A c \in Calls : HoldsOK(c)'
    BY <2>2, NoCallIsCall, RestHolds DEF RestSteps
  <2>5. \A c \in Calls : AddsOK(c)' /\ ~Locks(call'[c])
    BY <2>2, NoCallIsCall DEF AddsOK, At, Locks
  <2>6. OneRedeems'
    <3>1. \A d \in Calls : d \in Redeeming' <=> Locks(call'[d])
      BY DEF Redeeming, Asking, Locks, At
    <3> QED
      BY <2>5, <3>1 DEF OneRedeems, Redeeming, Asking
  <2>7. ProviderOK' /\ TurnsOK'
    BY <2>0, ProviderStays DEF Base
  <2>8. nested \subseteq Shared
    BY DEF Nestable, Base, StoreOK, Accounts
  <2>9. StoreOK'
    <3>1. parent' \in [Accounts -> {Main, None}] /\ parent'[Main] = None
      BY <2>0, <2>8, AccountsAssumption DEF Base, StoreOK, Accounts
    <3> QED
      BY <2>0, <3>1 DEF Base, StoreOK
  <2>10. SecretsOK'
    BY <2>0, <2>1 DEF Base, SecretsOK, provider
  <2>11. MemoryOK'
    BY <2>0 DEF Base, MemoryOK
  <2>12. HistoryOK'
    <3>1. Lost(Calls) \subseteq Grants
      BY DEF Lost, At, Base, HoldsOK, Is, Given, Token
    <3>2. {call[c].holder : c \in {d \in Calls : At(d, "found")}} \subseteq Shared
      BY DEF Base, HoldsOK
    <3> QED
      BY <2>0, <3>1, <3>2 DEF Base, HistoryOK
  <2> QED
    BY <2>3, <2>4, <2>5, <2>6, <2>7, <2>9, <2>10, <2>11, <2>12 DEF Base
<1>2. ASSUME NEW h \in Accounts, Expires(h) PROVE Base'
  <2>1. UNCHANGED <<provider, store, secret, call, history>> /\ MemoryOK'
    BY <1>2 DEF Expires, Base, MemoryOK, provider
  <2>2. ProviderOK' /\ TurnsOK' /\ StoreOK' /\ SecretsOK' /\ HistoryOK'
    BY <2>1 DEF Base, store, provider, history, ProviderOK, TurnsOK, StoreOK, SecretsOK, HistoryOK
  <2>3. CallsOK' /\ OneRedeems'
    BY <2>1 DEF Base, CallsOK, OneRedeems, Redeeming, Asking, At
  <2>4. ASSUME NEW d \in Calls PROVE HoldsOK(d)' /\ AddsOK(d)'
    BY <2>1 DEF Base, store, provider, HoldsOK, AddsOK, Is, At, Given, Known
  <2> QED
    BY <2>2, <2>1, <2>3, <2>4 DEF Base
<1> QED
  BY <1>1, <1>2

LEMMA BaseStays == ASSUME Base, UNCHANGED vars PROVE Base'
<1>1. /\ ProviderOK' /\ TurnsOK' /\ StoreOK' /\ SecretsOK' /\ MemoryOK' /\ HistoryOK' /\ CallsOK' /\ OneRedeems'
  BY DEF vars, Base, ProviderOK, TurnsOK, StoreOK, SecretsOK, MemoryOK, HistoryOK, CallsOK, OneRedeems, Redeeming,
         Asking, At
<1>2. ASSUME NEW d \in Calls PROVE HoldsOK(d)' /\ AddsOK(d)'
  BY DEF vars, Base, HoldsOK, AddsOK, Is, At, Given, Known
<1> QED
  BY <1>1, <1>2 DEF Base

LEMMA BaseStep == ASSUME Base, [Next]_vars PROVE Base'
<1>1. ASSUME NEW c \in Calls, CallStep(c) PROVE Base'
  BY <1>1, BaseRedeems, BaseRefreshes, BaseNests, BaseAgain, BaseAdd, BaseSignsIn, BaseRemoves, BaseAborts DEF CallStep
<1> QED
  BY <1>1, BaseElse, BaseStays DEF Next

LEMMA BaseIsTyped == Base => TypeOK
  BY DEF Base, TypeOK, ProviderOK, StoreOK, SecretsOK, MemoryOK, HistoryOK, CallsOK, Call, OneRedeems

\* Every state is well-formed, one refresh runs at a time, and no saved token is one the provider
\* hasn't given.
THEOREM TypesCorrect == Spec => []TypeOK
<1>1. Spec => []Base
  BY InitBase, BaseStep, PTL DEF Spec
<1> QED
  BY <1>1, BaseIsTyped, PTL

-----------------------------------------------------------------------------
(***************************************************************************)
(* Every mailbox opens.                                                    *)
(***************************************************************************)

\* A call that goes on, and neither inserts a mailbox nor has given one a copy.
Rests(d) ==
    \/ call'[d] = call[d]
    \/ /\ call'[d].at # "copied"
       /\ At(d, "found") => LET b == call[d].holder IN b \notin exists' \/ parent'[b] # None \/ b \in bare'

\* No new mailbox, none that is on its own now, and what loses its sign-in is nested or counted.
Leaves(a) ==
    /\ parent'[a] = None => parent[a] = None
    /\ a \in bare => a \in bare' \/ secret'[a] # None
    /\ secret[a] # None =>
          \/ secret'[a] # None \/ a \in bare'
          \/ parent'[a] # None /\ \A d \in Calls : call'[d].at = "copied" => call'[d].holder # a

LEMMA OwnMoves ==
  ASSUME Own, exists' \subseteq exists, \A a \in exists' : Leaves(a), \A d \in Calls : Rests(d)
  PROVE  Own'
<1>1. ASSUME NEW a \in exists', parent'[a] = None PROVE secret'[a] # None \/ a \in bare' \/ Inserting(a)'
  <2>1. parent[a] = None /\ Leaves(a) /\ a \in exists
    BY <1>1 DEF Leaves
  <2>2. CASE secret[a] # None \/ a \in bare
    BY <1>1, <2>1, <2>2 DEF Leaves
  <2>3. CASE Inserting(a)
    <3>1. PICK d \in Calls : At(d, "found") /\ call[d].holder = a
      BY <2>3 DEF Inserting
    <3> QED
      BY <1>1, <3>1 DEF Rests, Inserting, At
  <2> QED
    BY <2>1, <2>2, <2>3 DEF Own, OwnOK
<1>2. ASSUME NEW d \in Calls, call'[d].at = "copied", call'[d].holder \in exists'
      PROVE  secret'[call'[d].holder] # None \/ call'[d].holder \in bare'
  <2>1. call'[d] = call[d] /\ CopiedOK(d)
    BY <1>2 DEF Rests, Own
  <2>2. PICK b \in exists' : b = call[d].holder
    BY <1>2, <2>1
  <2>3. secret[b] # None \/ b \in bare
    BY <1>2, <2>1, <2>2 DEF CopiedOK, At
  <2> QED
    BY <1>2, <2>1, <2>2, <2>3 DEF Leaves
<1> QED
  BY <1>1, <1>2 DEF Own, OwnOK, CopiedOK, At

\* One call changes, the mailboxes and their sign-ins don't.
LEMMA OneRests ==
  ASSUME CallsOK, NEW c \in Calls, NEW r, call' = [call EXCEPT ![c] = r], r.at # "copied", ~At(c, "found")
  PROVE  \A d \in Calls : Rests(d)
  BY DEF CallsOK, Rests

LEMMA OwnStays ==
  ASSUME Own, UNCHANGED <<exists, parent, secret, bare>>, \A d \in Calls : Rests(d)
  PROVE  Own'
<1>1. \A a \in exists' : Leaves(a)
  BY DEF Leaves
<1> QED
  BY <1>1, OwnMoves

LEMMA OwnRefreshes ==
  ASSUME Base, Own, NEW c \in Calls,
         \/ \E a \in Accounts, kind \in Kinds : Begins(c, a, kind)
         \/ NothingToDo(c) \/ TakesLock(c) \/ Redeems(c) \/ IsRefused(c) \/ AnswerLost(c)
         \/ AgainForgets(c) \/ Search(c) \/ FindsNothing(c) \/ RemovesTokens(c) \/ KeptForgets(c)
         \/ \E a \in Accounts : Again(c, a) \/ \E op \in {"remove", "keep"} : Remove(c, a, op)
  PROVE  Own'
<1> USE DEF At
<1>0. CallsOK /\ call[c] \in Call
  BY DEF Base, CallsOK
<1>1. UNCHANGED <<exists, parent, secret, bare>>
  BY DEF Begins, NothingToDo, TakesLock, Redeems, IsRefused, AnswerLost, AgainForgets, Search, FindsNothing,
         RemovesTokens, KeptForgets, Again, Remove, store, history
<1>2. call[c].at # "found"
  BY DEF Begins, NothingToDo, TakesLock, Redeems, IsRefused, AnswerLost, AgainForgets, Search, FindsNothing,
         RemovesTokens, KeptForgets, Again, Remove, Asking
<1>3. CASE Ends(c)
  BY <1>0, <1>1, <1>2, <1>3, NoCallIsCall, OneRests, OwnStays DEF Ends
<1>4. ASSUME NEW a \in Accounts, NEW kind \in Kinds, Begins(c, a, kind) PROVE Own'
  <2> DEFINE r == [NoCall EXCEPT !.at = "waits", !.kind = kind, !.account = a, !.holder = Holder(a)]
  <2>1. call' = [call EXCEPT ![c] = r] /\ r.at # "copied"
    BY <1>4 DEF Begins, NoCall
  <2> HIDE DEF r
  <2> QED
    BY <1>0, <1>1, <1>2, <2>1, OneRests, OwnStays
<1>5. CASE TakesLock(c)
  <2> DEFINE r == [call[c] EXCEPT !.at = "asks", !.used = secret[call[c].holder]]
  <2>1. call' = [call EXCEPT ![c] = r] /\ r.at # "copied"
    BY <1>0, <1>5 DEF TakesLock, Call
  <2> HIDE DEF r
  <2> QED
    BY <1>0, <1>1, <1>2, <2>1, OneRests, OwnStays
<1>6. CASE Redeems(c)
  <2>1. PICK t : call' = [call EXCEPT ![c] = [@ EXCEPT !.at = "answers", !.got = t]]
    BY <1>6 DEF Redeems
  <2> DEFINE r == [call[c] EXCEPT !.at = "answers", !.got = t]
  <2>2. call' = [call EXCEPT ![c] = r] /\ r.at # "copied"
    BY <1>0, <2>1 DEF Call
  <2> HIDE DEF r
  <2> QED
    BY <1>0, <1>1, <1>2, <2>2, OneRests, OwnStays
<1>7. CASE Search(c)
  <2> DEFINE r == [NoCall EXCEPT !.at = "search"]
  <2>1. call' = [call EXCEPT ![c] = r] /\ r.at # "copied"
    BY <1>7 DEF Search, NoCall
  <2> HIDE DEF r
  <2> QED
    BY <1>0, <1>1, <1>2, <2>1, OneRests, OwnStays
<1>8. CASE RemovesTokens(c)
  <2> DEFINE r == [call[c] EXCEPT !.at = "row"]
  <2>1. call' = [call EXCEPT ![c] = r] /\ r.at # "copied"
    BY <1>0, <1>8 DEF RemovesTokens, Call
  <2> HIDE DEF r
  <2> QED
    BY <1>0, <1>1, <1>2, <2>1, OneRests, OwnStays
<1>9. CASE KeptForgets(c)
  <2> DEFINE r == [call[c] EXCEPT !.at = IF call[c].todo = {} THEN "remove" ELSE "keep", !.holder = Main]
  <2>1. call' = [call EXCEPT ![c] = r] /\ r.at # "copied"
    BY <1>0, <1>9 DEF KeptForgets, Call
  <2> HIDE DEF r
  <2> QED
    BY <1>0, <1>1, <1>2, <2>1, OneRests, OwnStays
<1>10. ASSUME NEW a \in Accounts, Again(c, a) PROVE Own'
  <2> DEFINE r == [NoCall EXCEPT !.at = "granted", !.account = a, !.holder = Holder(a), !.got = NewToken]
  <2>1. call' = [call EXCEPT ![c] = r] /\ r.at # "copied"
    BY <1>10 DEF Again, NoCall
  <2> HIDE DEF r
  <2> QED
    BY <1>0, <1>1, <1>2, <2>1, OneRests, OwnStays
<1>11. ASSUME NEW a \in Accounts, NEW op \in {"remove", "keep"}, Remove(c, a, op) PROVE Own'
  <2> DEFINE r == [NoCall EXCEPT !.at = op, !.account = a, !.todo = {b \in exists : parent[b] = a}, !.used = secret[a]]
  <2>1. call' = [call EXCEPT ![c] = r] /\ r.at # "copied"
    BY <1>11 DEF Remove, NoCall
  <2> HIDE DEF r
  <2> QED
    BY <1>0, <1>1, <1>2, <2>1, OneRests, OwnStays
<1> QED
  BY <1>3, <1>4, <1>5, <1>6, <1>7, <1>8, <1>9, <1>10, <1>11
  DEF NothingToDo, IsRefused, AnswerLost, AgainForgets, FindsNothing

LEMMA OwnSaves ==
  ASSUME Base, Own, NEW c \in Calls,
         \/ Saves(c) \/ Notes(c) \/ AgainSaves(c) \/ FoundNests(c)
         \/ \E b \in Accounts : Nests(c, b) \/ Drops(c, b) \/ Add(c, b) \/ Adopts(c, b)
  PROVE  Own'
<1> DEFINE k == call[c]
<1> USE DEF At
<1>0. CallsOK /\ k \in Call /\ HoldsOK(c) /\ AddsOK(c) /\ k.holder \in Accounts
  BY DEF Base, CallsOK, Call
<1>s. secret \in [Accounts -> Token \union {None}] /\ exists \subseteq Accounts /\ parent \in [Accounts -> {Main, None}]
      /\ Main # None
  BY AccountsAssumption DEF Base, SecretsOK, StoreOK
<1>1. CASE Saves(c)
  <2>1. k.at = "answers" /\ k.got # None
    BY <1>0, <1>1, NoneAssumption DEF Saves, HoldsOK, Is, Given
  <2>2. PICK r \in {NoCall, [k EXCEPT !.at = "notes"]} : call' = [call EXCEPT ![c] = r]
    BY <1>1 DEF Saves, Ends
  <2>3. r.at # "copied" /\ \A d \in Calls : Rests(d)
    BY <1>0, <2>1, <2>2, NoCallIsCall, OneRests DEF Call
  <2>4. UNCHANGED <<exists, parent, bare>> /\ \A a \in Accounts : secret'[a] = secret[a] \/ secret'[a] # None
    BY <1>0, <1>1, <1>s, <2>1 DEF Saves, store, history
  <2>5. \A a \in exists' : Leaves(a)
    BY <1>s, <2>4 DEF Leaves
  <2> QED
    BY <2>3, <2>4, <2>5, OwnMoves
<1>2. CASE Notes(c)
  <2>1. k.at = "notes" /\ UNCHANGED <<exists, parent, secret, bare>>
    BY <1>2 DEF Notes, history
  <2>2. CASE GoesOn(c)
    BY <1>0, <2>1, <2>2, GoesOnTo, OneRests, OwnStays
  <2>3. CASE ~GoesOn(c)
    <3> DEFINE r == [k EXCEPT !.at = "nests", !.todo = Nestable(noted \union ({k.holder} \intersect exists))]
    <3>1. call' = [call EXCEPT ![c] = r] /\ r.at # "copied"
      BY <1>0, <1>2, <2>3 DEF Notes, Call
    <3> HIDE DEF r
    <3> QED
      BY <1>0, <2>1, <3>1, OneRests, OwnStays
  <2> QED
    BY <2>2, <2>3
<1>3. CASE AgainSaves(c)
  <2> DEFINE r == [k EXCEPT !.at = IF k.holder \in noted THEN "forgets" ELSE "notes"]
  <2>1. k.at = "granted" /\ k.got # None
    BY <1>0, <1>3, NoneAssumption DEF AgainSaves, HoldsOK, Is, Given
  <2>2. call' = [call EXCEPT ![c] = r] /\ r.at # "copied"
    BY <1>0, <1>3 DEF AgainSaves, Call
  <2> HIDE DEF r
  <2>3. \A d \in Calls : Rests(d)
    BY <1>0, <2>1, <2>2, OneRests
  <2>4. /\ UNCHANGED <<exists, parent>> /\ bare' = bare \ {k.holder}
        /\ secret'[k.holder] # None /\ \A a \in Accounts \ {k.holder} : secret'[a] = secret[a]
    BY <1>0, <1>3, <1>s, <2>1 DEF AgainSaves, store
  <2>5. \A a \in exists' : Leaves(a)
    BY <1>s, <2>4 DEF Leaves
  <2> QED
    BY <2>3, <2>4, <2>5, OwnMoves
<1>4. CASE FoundNests(c)
  <2>1. /\ UNCHANGED <<exists, secret, bare>> /\ Ends(c)
        /\ parent' = [parent EXCEPT ![k.holder] = IF k.holder \in exists THEN Main ELSE @]
    BY <1>4 DEF FoundNests, history
  <2>2. \A a \in exists : parent'[a] = parent[a] \/ parent'[a] = Main
    BY <1>0, <1>s, <2>1
  <2>3. \A a \in exists' : Leaves(a)
    BY <1>s, <2>1, <2>2 DEF Leaves
  <2>4. k.holder \in exists => parent'[k.holder] # None
    BY <1>0, <1>s, <2>1
  <2>5. \A d \in Calls : Rests(d)
    BY <1>0, <2>1, <2>4, NoCallIsCall DEF Rests, Ends, CallsOK
  <2> QED
    BY <2>1, <2>3, <2>5, OwnMoves
<1>5. ASSUME NEW b \in Accounts, Nests(c, b) PROVE Own'
  <2> DEFINE r == [k EXCEPT !.todo = @ \ {b}, !.done = @ \union {b}]
  <2>1. k.at = "nests" /\ call' = [call EXCEPT ![c] = r] /\ r.at = k.at
    BY <1>0, <1>5 DEF Nests, Call
  <2> HIDE DEF r
  <2>2. \A d \in Calls : Rests(d)
    BY <1>0, <2>1, OneRests
  <2>3. UNCHANGED <<exists, secret, bare>> /\ \A a \in exists : parent'[a] = parent[a] \/ parent'[a] = Main
    BY <1>5, <1>s DEF Nests, history
  <2>4. \A a \in exists' : Leaves(a)
    BY <1>s, <2>3 DEF Leaves
  <2> QED
    BY <2>2, <2>3, <2>4, OwnMoves
<1>6. ASSUME NEW b \in Accounts, Drops(c, b) PROVE Own'
  <2>1. /\ k.at \in {"nests", "adopted"} /\ UNCHANGED <<exists, parent>>
        /\ secret' = [secret EXCEPT ![b] = None] /\ bare' = IF BeingKept(b) THEN bare \union {b} ELSE bare
    BY <1>6 DEF Drops, store
  <2>2. \A d \in Calls : Rests(d)
    <3>1. CASE GoesOn(c)
      BY <1>0, <2>1, <3>1, GoesOnTo, OneRests
    <3>2. CASE ~GoesOn(c)
      <4> DEFINE r == [k EXCEPT !.done = @ \ {b}]
      <4>1. call' = [call EXCEPT ![c] = r] /\ r.at = k.at
        BY <1>0, <1>6, <3>2 DEF Drops, Call
      <4> HIDE DEF r
      <4> QED
        BY <1>0, <2>1, <4>1, OneRests
    <3> QED
      BY <3>1, <3>2
  <2>3. \A d \in Calls : call'[d].at = "copied" => call'[d] = call[d]
    BY <2>2 DEF Rests
  <2>4. ~BeingKept(b) => parent[b] # None /\ \A d \in Calls : call[d].at = "copied" => call[d].holder # b
    BY DEF BeingKept
  <2>5. \A a \in exists' : Leaves(a)
    <3>1. ASSUME NEW a \in exists' PROVE Leaves(a)
      <4>1. CASE a = b
        BY <1>s, <2>1, <2>3, <2>4, <4>1 DEF Leaves
      <4>2. CASE a # b
        BY <1>s, <2>1, <4>2 DEF Leaves
      <4> QED
        BY <4>1, <4>2
    <3> QED
      BY <3>1
  <2> QED
    BY <2>1, <2>2, <2>5, OwnMoves
<1>7. ASSUME NEW b \in Accounts, Add(c, b) PROVE Own'
  <2> DEFINE r == [NoCall EXCEPT !.at = "adds", !.account = b, !.holder = b]
  <2>1. call' = [call EXCEPT ![c] = r] /\ r.at # "copied" /\ k.at = "idle"
    BY <1>7 DEF Add, NoCall
  <2> HIDE DEF r
  <2>2. \A d \in Calls : Rests(d)
    BY <1>0, <2>1, OneRests
  <2>3. UNCHANGED <<exists, parent, bare>> /\ secret' = [secret EXCEPT ![b] = NewToken] /\ b \notin exists
    BY <1>7 DEF Add, New, store, history
  <2>4. \A a \in exists' : Leaves(a)
    BY <1>s, <2>3 DEF Leaves
  <2> QED
    BY <2>2, <2>3, <2>4, OwnMoves
<1>8. ASSUME NEW b \in Accounts, Adopts(c, b) PROVE Own'
  <2> DEFINE r == [k EXCEPT !.at = "adopted", !.done = {b}]
  <2>1. k.at = "search" /\ call' = [call EXCEPT ![c] = r] /\ r.at # "copied"
    BY <1>0, <1>8 DEF Adopts, Call
  <2> HIDE DEF r
  <2>2. \A d \in Calls : Rests(d)
    BY <1>0, <2>1, OneRests
  <2>3. UNCHANGED <<exists, secret, bare>> /\ parent' = [parent EXCEPT ![b] = Main]
    BY <1>8 DEF Adopts, history
  <2>4. \A a \in exists' : Leaves(a)
    BY <1>s, <2>3 DEF Leaves
  <2> QED
    BY <2>2, <2>3, <2>4, OwnMoves
<1> QED
  BY <1>1, <1>2, <1>3, <1>4, <1>5, <1>6, <1>7, <1>8

\* A new mailbox: with its sign-in, or being inserted.
LEMMA OwnInserts ==
  ASSUME Base, Own, NEW c \in Calls, AddsRow(c) \/ \E b \in Accounts : Finds(c, b)
  PROVE  Own'
<1> DEFINE k == call[c]
<1> USE DEF At
<1>0. CallsOK /\ k \in Call /\ AddsOK(c) /\ \A d \in Calls : HoldsOK(d)
  BY DEF Base, CallsOK, Call
<1>1. CASE AddsRow(c)
  <2>1. k.at = "adds" /\ secret[k.holder] # None
    BY <1>0, <1>1 DEF AddsRow, AddsOK
  <2>2. exists' = exists \union {k.holder} /\ UNCHANGED <<parent, secret, bare>>
    BY <1>1 DEF AddsRow, history
  <2>3. call'[c].at = "notes" /\ \A d \in Calls \ {c} : call'[d] = call[d]
    BY <1>0, <1>1 DEF AddsRow, CallsOK, Call
  <2>4. \A a \in exists : Inserting(a) => Inserting(a)'
    BY <2>1, <2>3 DEF Inserting
  <2>5. OwnOK'
    BY <2>1, <2>2, <2>4 DEF Own, OwnOK
  <2>6. \A d \in Calls : CopiedOK(d)'
    BY <2>1, <2>2, <2>3 DEF Own, CopiedOK
  <2> QED
    BY <2>5, <2>6 DEF Own
<1>2. ASSUME NEW b \in Accounts, Finds(c, b) PROVE Own'
  <2>1. k.at = "search" /\ b \notin Known
    BY <1>2 DEF Finds, New, Known
  <2>2. exists' = exists \union {b} /\ UNCHANGED <<parent, secret, bare>>
    BY <1>2 DEF Finds, history
  <2>3. call'[c].at = "found" /\ call'[c].holder = b /\ \A d \in Calls \ {c} : call'[d] = call[d]
    BY <1>0, <1>2 DEF Finds, CallsOK, Call
  <2>4. Inserting(b)' /\ \A a \in exists : Inserting(a) => Inserting(a)'
    BY <2>1, <2>3 DEF Inserting
  <2>5. OwnOK'
    BY <2>2, <2>4 DEF Own, OwnOK
  <2>6. \A d \in Calls : call'[d].at = "copied" => call'[d] = call[d] /\ call[d].holder # b
    BY <1>0, <2>1, <2>3 DEF HoldsOK, Is
  <2>7. \A d \in Calls : CopiedOK(d)'
    BY <2>2, <2>6 DEF Own, CopiedOK
  <2> QED
    BY <2>5, <2>7 DEF Own
<1> QED
  BY <1>1, <1>2

LEMMA OwnRemoves ==
  ASSUME Base, Own, NEW c \in Calls,
         \/ Keeps(c) \/ RemovesRow(c) \/ RemovesSecret(c) \/ \E b \in Accounts : Copies(c, b) \/ RemoveAborts(c, b)
  PROVE  Own'
<1> DEFINE k == call[c]
<1> USE DEF At
<1>0. CallsOK /\ k \in Call /\ HoldsOK(c) /\ k.holder \in Accounts
  BY DEF Base, CallsOK, Call
<1>s. secret \in [Accounts -> Token \union {None}] /\ exists \subseteq Accounts /\ parent \in [Accounts -> {Main, None}]
      /\ Main # None /\ removed \intersect exists = {}
  BY AccountsAssumption DEF Base, SecretsOK, StoreOK
<1>1. ASSUME NEW b \in Accounts, Copies(c, b) PROVE Own'
  <2>1. k.used # None /\ k.at = "keep"
    BY <1>0, <1>1, StepsAre, NoneAssumption DEF Copies, HoldsOK, Is, Given
  <2>2. /\ UNCHANGED <<exists, parent, bare>> /\ secret'[b] # None
        /\ \A a \in Accounts \ {b} : secret'[a] = secret[a]
    BY <1>1, <1>s, <2>1 DEF Copies, store
  <2>3. call'[c].at = "copied" /\ call'[c].holder = b /\ \A d \in Calls \ {c} : call'[d] = call[d]
    BY <1>0, <1>1 DEF Copies, CallsOK, Call
  <2>4. \A a \in exists : Inserting(a) => Inserting(a)'
    BY <2>1, <2>3 DEF Inserting
  <2>5. OwnOK'
    BY <1>s, <2>2, <2>4 DEF Own, OwnOK
  <2>6. \A d \in Calls \ {c} : CopiedOK(d)'
    BY <1>s, <2>2, <2>3 DEF Own, CopiedOK
  <2>7. CopiedOK(c)'
    BY <2>2, <2>3 DEF CopiedOK
  <2> QED
    BY <2>5, <2>6, <2>7 DEF Own
<1>2. CASE Keeps(c)
  <2>1. k.at = "copied" /\ CopiedOK(c)
    BY <1>2 DEF Keeps, Own
  <2>2. UNCHANGED <<exists, secret, bare>> /\ \A a \in Accounts \ {k.holder} : parent'[a] = parent[a]
    BY <1>2, <1>s DEF Keeps, history
  <2>3. call'[c].at = "kept" /\ \A d \in Calls \ {c} : call'[d] = call[d]
    BY <1>0, <1>2 DEF Keeps, CallsOK, Call
  <2>4. \A a \in exists : Inserting(a) => Inserting(a)'
    BY <2>1, <2>3 DEF Inserting
  <2>5. OwnOK'
    BY <1>s, <2>1, <2>2, <2>4 DEF Own, OwnOK, CopiedOK
  <2>6. \A d \in Calls : CopiedOK(d)'
    BY <2>2, <2>3 DEF Own, CopiedOK
  <2> QED
    BY <2>5, <2>6 DEF Own
<1>3. CASE RemovesRow(c)
  <2> DEFINE r == [k EXCEPT !.at = "secret"]
  <2>1. call' = [call EXCEPT ![c] = r] /\ r.at # "copied" /\ k.at = "row"
    BY <1>0, <1>3 DEF RemovesRow, Call
  <2> HIDE DEF r
  <2>2. \A d \in Calls : Rests(d)
    BY <1>0, <2>1, OneRests
  <2>3. /\ exists' = exists \ {k.holder} /\ secret' = secret /\ bare' = bare \ {k.holder}
        /\ \A a \in Accounts \ {k.holder} : parent'[a] = parent[a]
    BY <1>3, <1>s DEF RemovesRow
  <2>4. \A a \in exists' : Leaves(a)
    BY <1>s, <2>3 DEF Leaves
  <2> QED
    BY <2>2, <2>3, <2>4, OwnMoves
<1>4. CASE RemovesSecret(c)
  <2>1. k.at = "secret" /\ k.holder \notin exists
    BY <1>0, <1>4, <1>s DEF RemovesSecret, HoldsOK
  <2>2. UNCHANGED <<exists, parent, bare>> /\ \A a \in Accounts \ {k.holder} : secret'[a] = secret[a]
    BY <1>4, <1>s DEF RemovesSecret, store, history
  <2>3. \A a \in exists' : Leaves(a)
    BY <1>s, <2>1, <2>2 DEF Leaves
  <2>4. PICK r \in {NoCall, [k EXCEPT !.at = "remove", !.holder = Main, !.todo = @ \ {k.holder}]} :
            call' = [call EXCEPT ![c] = r]
    BY <1>4 DEF RemovesSecret, Ends
  <2>5. r.at # "copied"
    BY <1>0, <2>4, NoCallIsCall DEF Call
  <2> QED
    BY <1>0, <2>1, <2>2, <2>3, <2>4, <2>5, OneRests, OwnMoves
<1>5. ASSUME NEW b \in Accounts, RemoveAborts(c, b) PROVE Own'
  <2> DEFINE r == [k EXCEPT !.at = "tokens", !.holder = b, !.used = None]
  <2>1. PICK tasks \in SUBSET Logins(b) :
          call' = [d \in Calls |-> IF d = c THEN r ELSE IF d \in tasks THEN NoCall ELSE call[d]]
    BY <1>0, <1>5 DEF RemoveAborts
  <2>2. r.at # "copied" /\ k.at = "remove"
    BY <1>0, <1>5 DEF RemoveAborts, Call
  <2> HIDE DEF r
  <2>3. \A d \in tasks : call[d].at # "found"
    BY DEF Logins
  <2>4. \A d \in Calls : Rests(d)
    BY <2>1, <2>2, <2>3, NoCallIsCall DEF Rests
  <2>5. UNCHANGED <<exists, parent, secret, bare>>
    BY <1>5 DEF RemoveAborts, store
  <2> QED
    BY <2>4, <2>5, OwnStays
<1> QED
  BY <1>1, <1>2, <1>3, <1>4, <1>5

LEMMA OwnStep == ASSUME Base, Own, [Next]_vars PROVE Own'
<1>1. ASSUME NEW c \in Calls, CallStep(c) PROVE Own'
  BY <1>1, OwnRefreshes, OwnSaves, OwnInserts, OwnRemoves DEF CallStep
<1>2. CASE (\E a \in Accounts : Expires(a)) \/ UNCHANGED vars
  BY <1>2, OwnStays DEF Rests, Expires, vars, store, history
<1>3. CASE Quit
  <2>1. \A d \in Calls : call'[d] = NoCall
    BY <1>3 DEF Quit
  <2>2. bare' = bare \union {call[d].holder : d \in {e \in Calls : At(e, "found")}} /\ UNCHANGED exists
    BY <1>3 DEF Quit
  <2>3. \A d \in Calls : Rests(d)
    BY <2>1, <2>2, NoCallIsCall DEF Rests
  <2>4. PICK left \in SUBSET Nestable(noted) :
          secret' = [a \in Accounts |-> IF a \in Nestable(noted) \ left THEN None ELSE secret[a]]
    BY <1>3 DEF Quit
  <2>5. parent' = [a \in Accounts |-> IF a \in Nestable(noted) THEN Main ELSE parent[a]]
    BY <1>3 DEF Quit
  <2>6. exists' \subseteq Accounts /\ Main # None /\ \A d \in Calls : call'[d].at # "copied"
    BY <2>1, <2>2, NoCallIsCall, AccountsAssumption DEF Base, StoreOK
  <2>7. \A a \in exists' : Leaves(a)
    BY <2>2, <2>4, <2>5, <2>6 DEF Leaves
  <2> QED
    BY <2>2, <2>3, <2>7, OwnMoves
<1> QED
  BY <1>1, <1>2, <1>3 DEF Next

LEMMA OwnOpens == ASSUME Base, Own PROVE EachOpens
<1> SUFFICES ASSUME NEW a \in exists, parent[a] \in exists \union {None}
             PROVE  secret[Holder(a)] # None \/ a \in bare \/ Inserting(a)
  BY DEF EachOpens, Inserting
<1>1. /\ parent \in [Accounts -> {Main, None}] /\ parent[Main] = None /\ exists \subseteq Accounts
      /\ Main # None /\ None \notin exists /\ Main \notin Shared /\ bare \subseteq Shared
      /\ \A c \in Calls : At(c, "found") => call[c].holder \in Shared
  BY AccountsAssumption DEF Base, StoreOK, HistoryOK, HoldsOK, Accounts
<1>2. CASE parent[a] = None
  BY <1>1, <1>2 DEF Own, OwnOK, Holder
<1>3. CASE parent[a] = Main
  <2>1. Main \in exists /\ Holder(a) = Main
    BY <1>1, <1>3 DEF Holder
  <2>2. Main \notin bare /\ ~Inserting(Main)
    BY <1>1 DEF Inserting
  <2> QED
    BY <1>1, <2>1, <2>2 DEF Own, OwnOK
<1> QED
  BY <1>1, <1>2, <1>3

\* Every mailbox opens with a saved sign-in, its own or its account's, whatever is nested, adopted,
\* kept, removed and cut off in whatever order: but for one that is being inserted, and those that a
\* stop or a late delete has left without.
THEOREM MailboxesOpen == Spec => []EachOpens
<1>1. Init => Base /\ Own
  BY InitBase
<1>2. Base /\ Own /\ [Next]_vars => (Base /\ Own)'
  BY BaseStep, OwnStep
<1>3. Base /\ Own => EachOpens
  BY OwnOpens
<1> QED
  BY <1>1, <1>2, <1>3, PTL DEF Spec

-----------------------------------------------------------------------------
(***************************************************************************)
(* The newest refresh token.                                               *)
(***************************************************************************)

\* A call that goes on with the same tokens, one that has nothing more to do with any (its new
\* token lost, if there was one), and one that goes on with a removal.
SameTokens(d) ==
    /\ call'[d].at = call[d].at /\ call'[d].holder = call[d].holder
    /\ call'[d].used = call[d].used /\ call'[d].got = call[d].got
LetsGo(d) ==
    /\ ~Is(d, {"granted"} \union UsingSteps)'
    /\ At(d, "answers") /\ call[d].got # call[d].used => call[d].got.grant \in spoiled'
Removing(d) ==
    /\ Is(d, KeepSteps)'
    /\ \/ Is(d, KeepSteps) /\ call'[d].used = call[d].used
       \/ At(d, "idle") /\ \E a \in Accounts : secret[a] # None /\ call'[d].used = secret[a]

\* A step that saves no token and asks for none.
Loses ==
    /\ turn' = turn /\ spoiled \subseteq spoiled'
    /\ \A a \in Accounts : secret'[a] = secret[a] \/ secret'[a] = None
    /\ \A d \in Calls : SameTokens(d) \/ LetsGo(d) \/ Removing(d)

CallTokens(c) == GrantedOK(c) /\ RedeemingOK(c) /\ AsksOK(c) /\ AnswersOK(c)
KeptOK(a) == secret[a] # None => Newest(secret[a]) \/ secret[a].grant \in spoiled

\* Where one call redeems, no other does.
LEMMA OnlyOne ==
  ASSUME OneRedeems, NEW c \in Calls, NEW d \in Calls, Is(c, {"asks", "answers"}), Is(d, {"asks", "answers"})
  PROVE  c = d
  BY DEF OneRedeems, Redeeming, Asking, At, Is

LEMMA FreeIsFree == ASSUME Free, NEW c \in Calls PROVE ~Is(c, {"asks", "answers"})
  BY DEF Free, Redeeming, Asking, At, Is

\* KeptOK after a step, of a token that is saved then.
StaysKept(t) ==
    \/ t.turn = turn'[t.grant] \/ t.grant \in spoiled'
    \/ \E c \in Calls : call'[c].at = "answers" /\ call'[c].got.grant = t.grant

LEMMA KeptStays ==
  ASSUME NEW a \in Accounts, secret'[a] # None => StaysKept(secret'[a])
  PROVE  KeptOK(a)'
  BY DEF KeptOK, StaysKept, Newest, At

LEMMA LosesKept == ASSUME Tokens, Loses, NEW a \in Accounts PROVE KeptOK(a)'
<1> SUFFICES ASSUME secret'[a] # None PROVE StaysKept(secret[a]) /\ secret'[a] = secret[a]
  BY KeptStays
<1>1. secret'[a] = secret[a] /\ secret[a] # None
  BY DEF Loses
<1> DEFINE t == secret[a]
<1>2. t.turn = turn[t.grant] \/ t.grant \in spoiled \/ \E c \in Calls : At(c, "answers") /\ call[c].got.grant = t.grant
  BY <1>1 DEF Tokens, NewestIsKept, Newest
<1>3. CASE t.turn = turn[t.grant] \/ t.grant \in spoiled
  BY <1>3 DEF Loses, StaysKept
<1>4. ASSUME NEW c \in Calls, At(c, "answers"), call[c].got.grant = t.grant
      PROVE  StaysKept(t)
  <2>1. CASE SameTokens(c)
    BY <1>4, <2>1 DEF SameTokens, At, StaysKept
  <2>2. CASE LetsGo(c) /\ call[c].got # call[c].used
    BY <1>4, <2>2 DEF LetsGo, StaysKept
  <2>3. CASE call[c].got = call[c].used
    <3>1. Good(t)
      BY <1>1, <1>4, <2>3 DEF Tokens, AnswersOK, Saved
    <3> QED
      BY <3>1 DEF Good, Loses, StaysKept
  <2> QED
    BY <1>4, <2>1, <2>2, <2>3 DEF UsingSteps, KeepSteps, Loses, Removing, At, Is
<1> QED
  BY <1>1, <1>2, <1>3, <1>4

LEMMA LosesGranted == ASSUME Tokens, Loses, NEW c \in Calls PROVE GrantedOK(c)'
<1> SUFFICES ASSUME call'[c].at = "granted" PROVE GrantedOK(c)'
  BY DEF GrantedOK, At
<1>1. At(c, "granted") /\ call'[c].got = call[c].got
  BY DEF UsingSteps, KeepSteps, Loses, SameTokens, LetsGo, Removing, At, Is
<1>2. PICK g : g = call[c].got.grant
  OBVIOUS
<1>3. /\ turn[g] = 0 /\ \A a \in Accounts : ~Saved(a, g)
      /\ \A d \in Calls : Is(d, UsingSteps) => call[d].used.grant # g
      /\ \A d \in Calls \ {c} : At(d, "granted") => call[d].got.grant # g
  BY <1>1, <1>2 DEF Tokens, GrantedOK
<1>4. \A a \in Accounts : ~(secret'[a] # None /\ secret'[a].grant = g)
  BY <1>3 DEF Loses, Saved
<1>5. ASSUME NEW d \in Calls, call'[d].at \in UsingSteps PROVE call'[d].used.grant # g
  BY <1>3, <1>5 DEF UsingSteps, KeepSteps, Loses, SameTokens, LetsGo, Removing, Saved, Is
<1>6. ASSUME NEW d \in Calls \ {c}, call'[d].at = "granted" PROVE call'[d].got.grant # g
  BY <1>3, <1>6 DEF UsingSteps, KeepSteps, Loses, SameTokens, LetsGo, Removing, At, Is
<1>7. turn'[g] = 0 /\ call'[c].got.grant = g
  BY <1>1, <1>2, <1>3 DEF Loses
<1> QED
  BY <1>4, <1>5, <1>6, <1>7 DEF GrantedOK, Saved, At, Is

LEMMA LosesCall ==
  ASSUME CallsOK, Tokens, Loses, NEW c \in Calls
  PROVE  RedeemingOK(c)' /\ AsksOK(c)' /\ AnswersOK(c)'
<1> SUFFICES ASSUME call'[c].at \in {"asks", "answers"} PROVE RedeemingOK(c)' /\ AsksOK(c)' /\ AnswersOK(c)'
  BY DEF RedeemingOK, AsksOK, AnswersOK, At
<1>1. SameTokens(c)
  BY DEF UsingSteps, KeepSteps, Loses, LetsGo, Removing, Is
<1>2. RedeemingOK(c) /\ AsksOK(c) /\ AnswersOK(c)
  BY DEF Tokens
<1>3. turn' = turn /\ spoiled \subseteq spoiled' /\ \A a \in Accounts : secret'[a] = secret[a] \/ secret'[a] = None
  BY DEF Loses
<1>4. RedeemingOK(c)'
  <2>1. call[c].holder \in Accounts
    BY DEF CallsOK, Call
  <2> QED
    BY <1>1, <1>2, <1>3, <2>1 DEF SameTokens, RedeemingOK, At, Saved
<1>5. AsksOK(c)'
  BY <1>1, <1>2, <1>3 DEF SameTokens, AsksOK, At, Good
<1>6. AnswersOK(c)'
  BY <1>1, <1>2, <1>3 DEF SameTokens, AnswersOK, At, Good, Saved
<1> QED
  BY <1>4, <1>5, <1>6

LEMMA LosesTokens == ASSUME CallsOK, Tokens, Loses PROVE Tokens'
<1>1. NewestIsKept'
  BY LosesKept DEF NewestIsKept, KeptOK
<1>2. AloneOK'
  BY DEF Tokens, AloneOK, Loses, Saved
<1> QED
  BY <1>1, <1>2, LosesGranted, LosesCall DEF Tokens

\* One call changes, and saves no token: it goes on with none, with the same, or with a removal.
LEMMA OneLoses ==
  ASSUME CallsOK, NEW c \in Calls, NEW r, call' = [call EXCEPT ![c] = r], turn' = turn, spoiled \subseteq spoiled',
         \A a \in Accounts : secret'[a] \in {secret[a], None},
         \/ /\ r.at \notin {"granted"} \union UsingSteps
            /\ At(c, "answers") /\ call[c].got # call[c].used => call[c].got.grant \in spoiled'
         \/ /\ r.at \in KeepSteps
            /\ \/ Is(c, KeepSteps) /\ r.used = call[c].used
               \/ At(c, "idle") /\ \E a \in Accounts : secret[a] # None /\ r.used = secret[a]
  PROVE  Loses
<1>1. call'[c] = r /\ \A d \in Calls \ {c} : SameTokens(d)
  BY DEF CallsOK, SameTokens
<1>2. LetsGo(c) \/ Removing(c)
  BY <1>1 DEF LetsGo, Removing, Is
<1> QED
  BY <1>1, <1>2 DEF Loses

\* The steps that only lose: the rest of them save a token or ask for one.
LEMMA EndsLoses ==
  ASSUME Base, NEW c \in Calls, NothingToDo(c) \/ IsRefused(c) \/ FindsNothing(c) \/ FoundNests(c) \/ AgainForgets(c)
                                \/ AnswerLost(c)
  PROVE  Loses
<1>1. Ends(c) /\ UNCHANGED <<provider, secret>> /\ CallsOK /\ secret \in [Accounts -> Token \union {None}]
  BY DEF NothingToDo, IsRefused, FindsNothing, FoundNests, AgainForgets, AnswerLost, Base, SecretsOK
<1>2. spoiled \subseteq spoiled' /\ (At(c, "answers") /\ call[c].got # call[c].used => call[c].got.grant \in spoiled')
  <2>1. CASE AnswerLost(c)
    BY <2>1 DEF AnswerLost, Lost
  <2>2. CASE ~AnswerLost(c)
    BY <2>2 DEF NothingToDo, IsRefused, FindsNothing, FoundNests, AgainForgets, At, history
  <2> QED
    BY <2>1, <2>2
<1>3. NoCall.at \notin {"granted"} \union UsingSteps
  BY NoCallIsCall, StepsAre
<1> QED
  BY <1>1, <1>2, <1>3, OneLoses DEF Ends, provider

\* sign_in_again has saved the sign-in, and not yet come to the calendars.
Pending(c) == Is(c, {"notes", "nests", "forgets"}) /\ AfterAgain(c)

\* Nesting goes on with the same, or is done.
LEMMA NestsOn ==
  ASSUME CallsOK, NEW c \in Calls, Notes(c) \/ \E b \in Accounts : Nests(c, b) \/ Drops(c, b)
  PROVE  \E r : /\ call' = [call EXCEPT ![c] = r] /\ r.at \in {"idle", "forgets", "nests", "adopted"}
                /\ Pending(c) => /\ r.at \in {"forgets", "nests"} /\ r.holder = call[c].holder
                                 /\ r.used = call[c].used /\ r.got = call[c].got
<1>0. call[c] \in Call
  BY DEF CallsOK
<1>1. CASE GoesOn(c)
  BY <1>1, GoesOnTo DEF Pending
<1>2. CASE Notes(c) /\ ~GoesOn(c)
  <2> DEFINE r == [call[c] EXCEPT !.at = "nests", !.todo = Nestable(noted \union ({call[c].holder} \intersect exists))]
  <2>1. call' = [call EXCEPT ![c] = r]
    BY <1>2 DEF Notes
  <2>2. r.at = "nests" /\ r.holder = call[c].holder /\ r.used = call[c].used /\ r.got = call[c].got
    BY <1>0 DEF Call
  <2> HIDE DEF r
  <2> QED
    BY <2>1, <2>2
<1>3. ASSUME NEW b \in Accounts, Nests(c, b)
      PROVE  \E r : /\ call' = [call EXCEPT ![c] = r] /\ r.at = "nests"
                    /\ r.holder = call[c].holder /\ r.used = call[c].used /\ r.got = call[c].got
  <2> DEFINE r == [call[c] EXCEPT !.todo = @ \ {b}, !.done = @ \union {b}]
  <2>1. call' = [call EXCEPT ![c] = r]
    BY <1>3 DEF Nests
  <2>2. r.at = "nests" /\ r.holder = call[c].holder /\ r.used = call[c].used /\ r.got = call[c].got
    BY <1>0, <1>3 DEF Call, Nests, At
  <2> HIDE DEF r
  <2> QED
    BY <2>1, <2>2
<1>4. ASSUME NEW b \in Accounts, Drops(c, b), ~GoesOn(c)
      PROVE  \E r : /\ call' = [call EXCEPT ![c] = r] /\ r.at \in {"nests", "adopted"} /\ r.at = call[c].at
                    /\ r.holder = call[c].holder /\ r.used = call[c].used /\ r.got = call[c].got
  <2> DEFINE r == [call[c] EXCEPT !.done = @ \ {b}]
  <2>1. call' = [call EXCEPT ![c] = r]
    BY <1>4 DEF Drops
  <2>2. /\ r.at \in {"nests", "adopted"} /\ r.at = call[c].at
        /\ r.holder = call[c].holder /\ r.used = call[c].used /\ r.got = call[c].got
    BY <1>0, <1>4 DEF Call, Drops, At
  <2> HIDE DEF r
  <2> QED
    BY <2>1, <2>2
<1> QED
  BY <1>1, <1>2, <1>3, <1>4 DEF Pending, Is

LEMMA NestsLoses ==
  ASSUME Base, NEW c \in Calls, Notes(c) \/ \E b \in Accounts : Nests(c, b) \/ Drops(c, b)
  PROVE  Loses
<1>0. CallsOK /\ UNCHANGED provider /\ UNCHANGED spoiled /\ ~At(c, "answers")
  BY DEF Base, Notes, Nests, Drops, At, history
<1>1. \A a \in Accounts : secret'[a] \in {secret[a], None}
  BY DEF Base, SecretsOK, Notes, Nests, Drops
<1>2. PICK r : call' = [call EXCEPT ![c] = r] /\ r.at \in {"idle", "forgets", "nests", "adopted"}
  BY <1>0, NestsOn
<1> QED
  BY <1>0, <1>1, <1>2, StepsAre, OneLoses DEF provider

\* Other calls go on: a removal that keeps mailboxes with the token it has.
OtherSteps == {"idle", "waits", "notes", "search", "found", "adopted", "remove", "keep", "kept", "row", "secret"}

LEMMA MovesOn ==
  ASSUME CallsOK, NEW c \in Calls,
         \/ AddsRow(c) \/ Search(c) \/ Keeps(c) \/ KeptForgets(c) \/ RemovesTokens(c) \/ RemovesRow(c)
         \/ RemovesSecret(c)
         \/ \E a \in Accounts :
               \/ \E kind \in Kinds : Begins(c, a, kind)
               \/ Finds(c, a) \/ Adopts(c, a) \/ \E op \in {"remove", "keep"} : Remove(c, a, op)
  PROVE  \E r : /\ call' = [call EXCEPT ![c] = r] /\ r.at \in OtherSteps
                /\ r.at \in KeepSteps => \/ Is(c, KeepSteps) /\ r.used = call[c].used
                                         \/ At(c, "idle") /\ \E a \in Accounts : secret[a] # None /\ r.used = secret[a]
<1> USE DEF OtherSteps, KeepSteps
<1>0. call[c] \in Call
  BY DEF CallsOK
<1> DEFINE Goal ==
      \E r : /\ call' = [call EXCEPT ![c] = r] /\ r.at \in OtherSteps
             /\ r.at \in KeepSteps => \/ Is(c, KeepSteps) /\ r.used = call[c].used
                                      \/ At(c, "idle") /\ \E a \in Accounts : secret[a] # None /\ r.used = secret[a]
<1> SUFFICES Goal
  OBVIOUS
<1>2. ASSUME NEW r, call' = [call EXCEPT ![c] = r],
             \/ r.at \in OtherSteps \ KeepSteps
             \/ r.at \in {"keep", "kept"} /\ Is(c, KeepSteps) /\ r.used = call[c].used
      PROVE  Goal
  BY <1>2
<1>g. ASSUME NEW a \in Accounts, NEW r, call' = [call EXCEPT ![c] = r], r.at \in {"remove", "keep"}, At(c, "idle"),
             r.used = secret[a], r.at = "keep" => secret[a] # None
      PROVE  Goal
  BY <1>g
<1> HIDE DEF Goal
<1>3. CASE AddsRow(c)
  <2> DEFINE r == [call[c] EXCEPT !.at = "notes"]
  <2>1. call' = [call EXCEPT ![c] = r] /\ r.at = "notes"
    BY <1>0, <1>3 DEF AddsRow, Call
  <2> HIDE DEF r
  <2> QED
    BY <1>2, <2>1
<1>4. CASE Search(c)
  <2> DEFINE r == [NoCall EXCEPT !.at = "search"]
  <2>1. call' = [call EXCEPT ![c] = r] /\ r.at = "search"
    BY <1>4 DEF Search, NoCall
  <2> HIDE DEF r
  <2> QED
    BY <1>2, <2>1
<1>5. CASE Keeps(c)
  <2> DEFINE r == [call[c] EXCEPT !.at = "kept"]
  <2>1. call' = [call EXCEPT ![c] = r] /\ r.at = "kept" /\ r.used = call[c].used /\ call[c].at = "copied"
    BY <1>0, <1>5 DEF Keeps, Call, At
  <2> HIDE DEF r
  <2> QED
    BY <1>2, <2>1 DEF Is
<1>6. CASE KeptForgets(c)
  <2> DEFINE r == [call[c] EXCEPT !.at = IF call[c].todo = {} THEN "remove" ELSE "keep", !.holder = Main]
  <2>1. call' = [call EXCEPT ![c] = r] /\ r.at \in {"remove", "keep"} /\ r.used = call[c].used /\ call[c].at = "kept"
    BY <1>0, <1>6 DEF KeptForgets, Call, At
  <2> HIDE DEF r
  <2> QED
    BY <1>2, <2>1 DEF Is
<1>7. CASE RemovesTokens(c)
  <2> DEFINE r == [call[c] EXCEPT !.at = "row"]
  <2>1. call' = [call EXCEPT ![c] = r] /\ r.at = "row"
    BY <1>0, <1>7 DEF RemovesTokens, Call
  <2> HIDE DEF r
  <2> QED
    BY <1>2, <2>1
<1>8. CASE RemovesRow(c)
  <2> DEFINE r == [call[c] EXCEPT !.at = "secret"]
  <2>1. call' = [call EXCEPT ![c] = r] /\ r.at = "secret"
    BY <1>0, <1>8 DEF RemovesRow, Call
  <2> HIDE DEF r
  <2> QED
    BY <1>2, <2>1
<1>9. CASE RemovesSecret(c)
  <2>1. PICK r \in {NoCall, [call[c] EXCEPT !.at = "remove", !.holder = Main, !.todo = @ \ {call[c].holder}]} :
            call' = [call EXCEPT ![c] = r]
    BY <1>9 DEF RemovesSecret, Ends
  <2>2. r.at \in {"idle", "remove"}
    BY <1>0, <2>1, NoCallIsCall DEF Call
  <2> QED
    BY <1>2, <2>1, <2>2
<1>10. ASSUME NEW a \in Accounts, NEW kind \in Kinds, Begins(c, a, kind) PROVE Goal
  <2> DEFINE r == [NoCall EXCEPT !.at = "waits", !.kind = kind, !.account = a, !.holder = Holder(a)]
  <2>1. call' = [call EXCEPT ![c] = r] /\ r.at = "waits"
    BY <1>10 DEF Begins, NoCall
  <2> HIDE DEF r
  <2> QED
    BY <1>2, <2>1
<1>11. ASSUME NEW b \in Accounts, Finds(c, b) PROVE Goal
  <2> DEFINE r == [call[c] EXCEPT !.at = "found", !.holder = b]
  <2>1. call' = [call EXCEPT ![c] = r] /\ r.at = "found"
    BY <1>0, <1>11 DEF Finds, Call
  <2> HIDE DEF r
  <2> QED
    BY <1>2, <2>1
<1>12. ASSUME NEW b \in Accounts, Adopts(c, b) PROVE Goal
  <2> DEFINE r == [call[c] EXCEPT !.at = "adopted", !.done = {b}]
  <2>1. call' = [call EXCEPT ![c] = r] /\ r.at = "adopted"
    BY <1>0, <1>12 DEF Adopts, Call
  <2> HIDE DEF r
  <2> QED
    BY <1>2, <2>1
<1>13. ASSUME NEW a \in Accounts, NEW op \in {"remove", "keep"}, Remove(c, a, op) PROVE Goal
  <2> DEFINE r == [NoCall EXCEPT !.at = op, !.account = a, !.todo = {b \in exists : parent[b] = a}, !.used = secret[a]]
  <2>1. call' = [call EXCEPT ![c] = r] /\ r.at = op /\ r.used = secret[a] /\ At(c, "idle")
        /\ (op = "keep" => secret[a] # None)
    BY <1>13 DEF Remove, NoCall
  <2> HIDE DEF r
  <2> QED
    BY <1>g, <2>1
<1> QED
  BY <1>3, <1>4, <1>5, <1>6, <1>7, <1>8, <1>9, <1>10, <1>11, <1>12, <1>13

LEMMA OnlyLoses ==
  ASSUME Base, NEW c \in Calls,
         \/ AddsRow(c) \/ Search(c) \/ Keeps(c) \/ KeptForgets(c) \/ RemovesTokens(c) \/ RemovesRow(c)
         \/ RemovesSecret(c)
         \/ \E a \in Accounts :
               \/ \E kind \in Kinds : Begins(c, a, kind)
               \/ Finds(c, a) \/ Adopts(c, a) \/ \E op \in {"remove", "keep"} : Remove(c, a, op)
  PROVE  Loses
<1>0. /\ CallsOK /\ UNCHANGED provider /\ UNCHANGED spoiled /\ ~At(c, "answers")
      /\ secret \in [Accounts -> Token \union {None}]
  BY DEF Base, SecretsOK, AddsRow, Search, Keeps, KeptForgets, RemovesTokens, RemovesRow, RemovesSecret,
         Begins, Finds, Adopts, Remove, At, history
<1>1. \A a \in Accounts : secret'[a] \in {secret[a], None}
  BY <1>0 DEF AddsRow, Search, Keeps, KeptForgets, RemovesTokens, RemovesRow, RemovesSecret, Begins, Finds, Adopts, Remove
<1>2. PICK r : /\ call' = [call EXCEPT ![c] = r] /\ r.at \in OtherSteps
               /\ r.at \in KeepSteps => \/ Is(c, KeepSteps) /\ r.used = call[c].used
                                        \/ At(c, "idle") /\ \E a \in Accounts : secret[a] # None /\ r.used = secret[a]
  BY <1>0, MovesOn
<1> QED
  BY <1>0, <1>1, <1>2, StepsAre, OneLoses DEF OtherSteps, KeepSteps, provider

LEMMA AbortsLoses ==
  ASSUME Base, NEW c \in Calls, NEW b \in Accounts, RemoveAborts(c, b)
  PROVE  Loses
<1> DEFINE r == [call[c] EXCEPT !.at = "tokens", !.holder = b, !.used = None]
<1>1. PICK tasks \in SUBSET Logins(b) :
        /\ At(c, "remove")
        /\ call' = [d \in Calls |-> IF d = c THEN r ELSE IF d \in tasks THEN NoCall ELSE call[d]]
        /\ spoiled' = spoiled \union Lost(tasks)
        /\ UNCHANGED <<provider, store, secret, memory>>
  BY DEF RemoveAborts
<1>2. r.at = "tokens"
  BY DEF Base, CallsOK, Call
<1> HIDE DEF r
<1>3. ASSUME NEW d \in Calls PROVE SameTokens(d) \/ LetsGo(d)
  <2>1. CASE d = c
    BY <1>1, <1>2, <2>1, StepsAre DEF LetsGo, Is, At
  <2>2. CASE d # c /\ d \in tasks
    <3>1. call'[d].at = "idle"
      BY <1>1, <2>2, NoCallIsCall
    <3>2. At(d, "answers") /\ call[d].got # call[d].used => call[d].got.grant \in spoiled'
      BY <1>1, <2>2 DEF Lost
    <3> QED
      BY <3>1, <3>2, StepsAre DEF LetsGo, Is
  <2>3. CASE d # c /\ d \notin tasks
    BY <1>1, <2>3 DEF SameTokens
  <2> QED
    BY <2>1, <2>2, <2>3
<1> QED
  BY <1>1, <1>3 DEF Loses, provider

LEMMA QuitLoses == ASSUME Base, Quit PROVE Loses
<1>1. call' = [c \in Calls |-> NoCall] /\ spoiled' = spoiled \union Lost(Calls) /\ turn' = turn
  BY DEF Quit, provider
<1>2. ASSUME NEW d \in Calls PROVE LetsGo(d)
  BY <1>1, NoCallIsCall, StepsAre DEF LetsGo, Is, At, Lost
<1>3. PICK left \in SUBSET Nestable(noted) :
        secret' = [a \in Accounts |-> IF a \in Nestable(noted) \ left THEN None ELSE secret[a]]
  BY DEF Quit
<1>4. \A a \in Accounts : secret'[a] \in {secret[a], None}
  BY <1>3
<1> QED
  BY <1>1, <1>2, <1>4 DEF Loses

\* The others don't redeem, and hold what they held.
LEMMA OthersRest ==
  ASSUME NEW d \in Calls, call'[d].at \notin {"asks", "answers"}
  PROVE  RedeemingOK(d)' /\ AsksOK(d)' /\ AnswersOK(d)'
  BY DEF RedeemingOK, AsksOK, AnswersOK, At

LEMMA TokensMake ==
  ASSUME \A a \in Accounts : KeptOK(a)', AloneOK', \A d \in Calls : CallTokens(d)'
  PROVE  Tokens'
<1>1. NewestIsKept'
  BY DEF NewestIsKept, KeptOK
<1> QED
  BY <1>1 DEF Tokens, CallTokens

\* Who is granted a sign-in goes on being the only one that has it.
LEMMA GrantedStays ==
  ASSUME NEW d \in Calls, call'[d] = call[d], GrantedOK(d),
         At(d, "granted") =>
            LET g == call[d].got.grant IN
            /\ turn'[g] = turn[g]
            /\ \A a \in Accounts : secret'[a] # None /\ secret'[a].grant = g => Saved(a, g)
            /\ \A e \in Calls : \/ call'[e] = call[e]
                                \/ /\ call'[e].at \in UsingSteps => call'[e].used.grant # g
                                   /\ call'[e].at = "granted" => call'[e].got.grant # g
  PROVE  GrantedOK(d)'
<1> SUFFICES ASSUME At(d, "granted") PROVE GrantedOK(d)'
  BY DEF GrantedOK, At
<1>1. PICK g : g = call[d].got.grant
  OBVIOUS
<1>2. /\ turn[g] = 0 /\ \A a \in Accounts : ~Saved(a, g)
      /\ \A e \in Calls : Is(e, UsingSteps) => call[e].used.grant # g
      /\ \A e \in Calls \ {d} : At(e, "granted") => call[e].got.grant # g
  BY <1>1 DEF GrantedOK
<1>3. turn'[g] = 0 /\ \A a \in Accounts : ~(secret'[a] # None /\ secret'[a].grant = g)
  BY <1>1, <1>2
<1>4. ASSUME NEW e \in Calls, call'[e].at \in UsingSteps PROVE call'[e].used.grant # g
  BY <1>1, <1>2, <1>4 DEF Is
<1>5. ASSUME NEW e \in Calls \ {d}, call'[e].at = "granted" PROVE call'[e].got.grant # g
  BY <1>1, <1>2, <1>5 DEF At
<1> QED
  BY <1>1, <1>3, <1>4, <1>5 DEF GrantedOK, Saved, At, Is

LEMMA TakesLockTokens == ASSUME Base, Tokens, NEW c \in Calls, TakesLock(c) PROVE Tokens'
<1> DEFINE h == call[c].holder
<1>1. /\ Free /\ h \in Accounts /\ secret[h] # None /\ turn' = turn /\ secret' = secret /\ spoiled' = spoiled
      /\ call'[c].at = "asks" /\ call'[c].used = secret[h] /\ call'[c].holder = h
      /\ \A d \in Calls \ {c} : call'[d] = call[d]
  BY DEF TakesLock, provider, history, Base, CallsOK, Call
<1> HIDE DEF h
<1>2. \A d \in Calls : call[d].at \notin {"asks", "answers"}
  BY <1>1, FreeIsFree DEF Is
<1>3. \A a \in Accounts : secret[a] # None => Good(secret[a])
  BY <1>2 DEF Tokens, NewestIsKept, Newest, Good, At
<1>4. ASSUME NEW a \in Accounts PROVE KeptOK(a)'
  BY <1>1, <1>3, KeptStays DEF Good, StaysKept
<1>5. AloneOK'
  BY <1>1 DEF Tokens, AloneOK, Saved
<1>6. ASSUME NEW d \in Calls \ {c} PROVE CallTokens(d)'
  <2>1. At(d, "granted") => secret[h].grant # call[d].got.grant
    BY <1>1 DEF Tokens, GrantedOK, Saved
  <2>2. GrantedOK(d)'
    BY <1>1, <2>1, GrantedStays DEF Tokens, Saved
  <2>3. call'[d].at \notin {"asks", "answers"}
    BY <1>1, <1>2
  <2> QED
    BY <2>2, <2>3, OthersRest DEF CallTokens
<1>7. CallTokens(c)'
  <2>1. RedeemingOK(c)'
    BY <1>1 DEF RedeemingOK, At, Saved, Tokens, AloneOK
  <2>2. AsksOK(c)' /\ AnswersOK(c)' /\ GrantedOK(c)'
    BY <1>1, <1>3 DEF AsksOK, AnswersOK, GrantedOK, At, Good
  <2> QED
    BY <2>1, <2>2 DEF CallTokens
<1> QED
  BY <1>4, <1>5, <1>6, <1>7, TokensMake

LEMMA RedeemsTokens == ASSUME Base, Tokens, NEW c \in Calls, Redeems(c) PROVE Tokens'
<1>1. PICK g : g = call[c].used.grant
  OBVIOUS
<1>2. PICK new : new = IF turn' = turn THEN call[c].used ELSE [grant |-> g, turn |-> turn[g] + 1]
  OBVIOUS
<1>3. /\ At(c, "asks") /\ secret' = secret /\ spoiled' = spoiled
      /\ call'[c].at = "answers" /\ call'[c].used = call[c].used /\ call'[c].holder = call[c].holder
      /\ \A d \in Calls \ {c} : call'[d] = call[d]
  BY DEF Redeems, history, Base, CallsOK, Call
<1>4. Given(call[c].used) /\ Good(call[c].used)
  BY <1>3 DEF UsingSteps, KeepSteps, Base, HoldsOK, Is, At, Tokens, AsksOK
<1>t. turn \in [Grants -> Nat] /\ g \in Grants
  BY <1>1, <1>4, BoundsAssumption DEF Base, ProviderOK, Given, Token
<1>5. \/ turn' = turn /\ call'[c].got = call[c].used
      \/ turn' = [turn EXCEPT ![g] = @ + 1] /\ call'[c].got = [grant |-> g, turn |-> turn[g] + 1]
  BY <1>1 DEF Redeems, provider, Base, CallsOK, Call
<1>6. \A d \in Calls \ {c} : call[d].at \notin {"asks", "answers"}
  BY <1>3, OnlyOne DEF Base, Is, At
<1>7. \A a \in Accounts : secret[a] # None => Good(secret[a])
  BY <1>3, <1>6 DEF Tokens, NewestIsKept, Newest, Good, At
<1>8. call'[c].got.grant = g /\ \A f \in Grants \ {g} : turn'[f] = turn[f]
  BY <1>1, <1>5, <1>t
<1>9. ASSUME NEW a \in Accounts PROVE KeptOK(a)'
  <2>1. secret[a] # None => secret[a].grant \in Grants
    BY DEF Base, SecretsOK, Token
  <2> QED
    BY <1>3, <1>7, <1>8, <2>1, KeptStays DEF Good, StaysKept
<1>10. AloneOK'
  BY <1>3 DEF Tokens, AloneOK, Saved
<1>11. ASSUME NEW d \in Calls \ {c} PROVE CallTokens(d)'
  <2>1. At(d, "granted") => call[d].got.grant # g /\ call[d].got.grant \in Grants
    BY <1>1, <1>3 DEF UsingSteps, KeepSteps, Tokens, GrantedOK, Is, At, Base, HoldsOK, Given, Token
  <2>2. GrantedOK(d)'
    BY <1>1, <1>3, <1>8, <2>1, StepsAre, GrantedStays DEF Tokens, Saved
  <2>3. call'[d].at \notin {"asks", "answers"}
    BY <1>3, <1>6
  <2> QED
    BY <2>2, <2>3, OthersRest DEF CallTokens
<1>12. CallTokens(c)'
  <2>1. RedeemingOK(c)'
    BY <1>3 DEF RedeemingOK, At, Saved, Tokens
  <2>2. AsksOK(c)' /\ GrantedOK(c)'
    BY <1>3 DEF AsksOK, GrantedOK, At
  <2>3. AnswersOK(c)'
    <3>1. CASE turn' = turn /\ call'[c].got = call[c].used
      BY <1>1, <1>3, <1>4, <1>7, <3>1 DEF AnswersOK, At, Good, Saved
    <3>2. CASE turn' = [turn EXCEPT ![g] = @ + 1] /\ call'[c].got = [grant |-> g, turn |-> turn[g] + 1]
      <4>1. turn'[g] = turn[g] + 1 /\ call'[c].got.turn = turn'[g]
        BY <1>t, <3>2
      <4>2. call'[c].got # call'[c].used
        <5>1. call[c].used.turn \in Nat /\ call[c].used.turn <= turn[g]
          BY <1>1, <1>4, BoundsAssumption DEF Given, Token
        <5> QED
          BY <1>3, <1>t, <4>1, <5>1
      <4> QED
        BY <1>1, <1>3, <1>8, <4>1, <4>2 DEF AnswersOK, At, Good
    <3> QED
      BY <1>5, <3>1, <3>2
  <2> QED
    BY <2>1, <2>2, <2>3 DEF CallTokens
<1> QED
  BY <1>9, <1>10, <1>11, <1>12, TokensMake

LEMMA SavesTokens == ASSUME Base, Tokens, NEW c \in Calls, Saves(c) PROVE Tokens'
<1> DEFINE h == call[c].holder
           saved == IF call[c].got = call[c].used THEN secret ELSE [secret EXCEPT ![h] = call[c].got]
<1>1. PICK g : g = call[c].used.grant
  OBVIOUS
<1>2. /\ At(c, "answers") /\ turn' = turn /\ spoiled' = spoiled /\ h \in Accounts
      /\ call'[c].at \in {"idle", "notes"} /\ \A d \in Calls \ {c} : call'[d] = call[d]
  BY DEF Saves, Ends, NoCall, provider, history, Base, CallsOK, Call
<1>3. /\ call[c].got.grant = g /\ Good(call[c].got)
      /\ call[c].got = call[c].used => \A a \in Accounts : Saved(a, g) => Good(secret[a])
      /\ \A a \in Accounts \ {h} : Saved(a, g) => g \in spoiled
  BY <1>1, <1>2 DEF Tokens, AnswersOK, RedeemingOK
<1>4. \A a \in Accounts : secret'[a] = saved[a]
  BY DEF Saves
<1>5. \A a \in Accounts : saved[a] = secret[a] \/ (a = h /\ saved[a] = call[c].got /\ call[c].got # call[c].used)
  BY DEF Base, SecretsOK
<1> HIDE DEF h, saved
<1>6. \A d \in Calls \ {c} : call[d].at \notin {"asks", "answers"}
  BY <1>2, OnlyOne DEF Base, Is, At
<1>7. ASSUME NEW a \in Accounts, secret'[a] # None PROVE Good(secret'[a])
  <2>1. secret'[a] = saved[a]
    BY <1>4, <1>7
  <2>2. CASE a = h /\ saved[a] = call[c].got
    BY <1>3, <2>1, <2>2
  <2>3. CASE saved[a] = secret[a] /\ (a # h \/ call[c].got = call[c].used)
    <3>1. \/ secret[a].turn = turn[secret[a].grant] \/ secret[a].grant \in spoiled
          \/ \E d \in Calls : At(d, "answers") /\ call[d].got.grant = secret[a].grant
      BY <1>7, <2>1, <2>3 DEF Tokens, NewestIsKept, Newest
    <3>2. secret[a].grant = g => Good(secret[a])
      BY <1>3, <1>7, <2>1, <2>3 DEF Saved, Good
    <3> QED
      BY <1>3, <1>6, <2>1, <2>3, <3>1, <3>2 DEF Good, At
  <2>4. a = h /\ call[c].got # call[c].used => saved[a] = call[c].got
    BY <1>2 DEF saved, Base, SecretsOK
  <2> QED
    BY <1>5, <2>2, <2>3, <2>4
<1>8. ASSUME NEW a \in Accounts PROVE KeptOK(a)'
  BY <1>2, <1>7, KeptStays DEF Good, StaysKept
<1>9. AloneOK'
  <2>1. ASSUME NEW a \in Accounts, NEW b \in Accounts, a # b, secret'[a] # None, secret'[b] # None,
               secret'[b].grant = secret'[a].grant
        PROVE  secret'[a].grant \in spoiled'
    <3>1. secret'[a] = saved[a] /\ secret'[b] = saved[b]
      BY <1>4, <2>1
    <3>2. CASE saved[a] = secret[a] /\ saved[b] = secret[b]
      BY <1>2, <2>1, <3>1, <3>2 DEF Tokens, AloneOK, Saved
    <3>3. CASE a = h /\ saved[a] = call[c].got /\ saved[b] = secret[b]
      BY <1>2, <1>3, <2>1, <3>1, <3>3 DEF Saved
    <3>4. CASE b = h /\ saved[b] = call[c].got /\ saved[a] = secret[a]
      BY <1>2, <1>3, <2>1, <3>1, <3>4 DEF Saved
    <3> QED
      BY <1>5, <2>1, <3>2, <3>3, <3>4
  <2> QED
    BY <2>1 DEF AloneOK, Saved
<1>10. ASSUME NEW d \in Calls \ {c} PROVE CallTokens(d)'
  <2>1. At(d, "granted") => call[d].got.grant # g
    BY <1>1, <1>2, StepsAre DEF Tokens, GrantedOK, Is, At
  <2>2. \A a \in Accounts : secret'[a] # None /\ secret'[a].grant # g => secret'[a] = secret[a]
    BY <1>3, <1>4, <1>5
  <2>3. GrantedOK(d)'
    BY <1>2, <2>1, <2>2, StepsAre, GrantedStays DEF Tokens, Saved
  <2>4. call'[d].at \notin {"asks", "answers"}
    BY <1>2, <1>6
  <2> QED
    BY <2>3, <2>4, OthersRest DEF CallTokens
<1>11. CallTokens(c)'
  BY <1>2, OthersRest DEF CallTokens, GrantedOK, At
<1> QED
  BY <1>8, <1>9, <1>10, <1>11, TokensMake

LEMMA AgainTokens == ASSUME Base, Tokens, NEW c \in Calls, NEW a \in Accounts, Again(c, a) PROVE Tokens'
<1> DEFINE new == issued + 1
<1>1. Browser
  BY DEF Again
<1>2. issued \in Nat /\ new \in Grants /\ turn' = turn
  BY <1>1, BoundsAssumption DEF Browser, Base, ProviderOK, Grants
<1>3. /\ At(c, "idle") /\ secret' = secret /\ spoiled' = spoiled
      /\ call'[c].at = "granted" /\ call'[c].got = NewToken /\ \A d \in Calls \ {c} : call'[d] = call[d]
  BY DEF Again, NoCall, history, Base, CallsOK
<1>4. NewToken.grant = new
  BY DEF NewToken
<1> HIDE DEF new
<1>5. /\ turn[new] = 0 /\ \A b \in Accounts : ~Saved(b, new)
      /\ \A d \in Calls : Is(d, UsingSteps) => call[d].used.grant # new
      /\ \A d \in Calls : Is(d, {"answers", "granted"}) => call[d].got.grant # new
  <2>1. \A g \in Nat : g <= issued => g # new
    BY <1>2 DEF new
  <2>2. turn[new] = 0
    BY <1>2 DEF Base, TurnsOK, new
  <2>3. \A b \in Accounts : ~Saved(b, new)
    BY <2>1 DEF Saved, Base, SecretsOK, Token, Grants
  <2>4. \A t : Given(t) => t.grant # new
    BY <2>1 DEF Given, Token, Grants
  <2> QED
    BY <2>2, <2>3, <2>4 DEF Base, HoldsOK, Is
<1>6. ASSUME NEW b \in Accounts PROVE KeptOK(b)'
  BY <1>2, <1>3, KeptStays DEF Tokens, NewestIsKept, Newest, StaysKept, At
<1>7. AloneOK'
  BY <1>3 DEF Tokens, AloneOK, Saved
<1>8. ASSUME NEW d \in Calls \ {c} PROVE CallTokens(d)'
  <2>1. At(d, "granted") => call[d].got.grant # new
    BY <1>5 DEF At, Is
  <2>2. GrantedOK(d)'
    BY <1>2, <1>3, <1>4, <2>1, StepsAre, GrantedStays DEF Tokens, Saved
  <2>3. RedeemingOK(d)'
    BY <1>3 DEF Tokens, RedeemingOK, At, Saved
  <2>4. AsksOK(d)' /\ AnswersOK(d)'
    BY <1>2, <1>3 DEF Tokens, AsksOK, AnswersOK, At, Good, Saved
  <2> QED
    BY <2>2, <2>3, <2>4 DEF CallTokens
<1>9. CallTokens(c)'
  <2>1. GrantedOK(c)'
    <3>1. \A d \in Calls : Is(d, UsingSteps)' => call'[d].used.grant # new
      BY <1>3, <1>5, StepsAre DEF Is
    <3>2. \A d \in Calls \ {c} : At(d, "granted")' => call'[d].got.grant # new
      BY <1>3, <1>5 DEF At, Is
    <3> QED
      BY <1>2, <1>3, <1>4, <1>5, <3>1, <3>2 DEF GrantedOK, Saved
  <2> QED
    BY <1>3, <2>1, OthersRest DEF CallTokens
<1> QED
  BY <1>6, <1>7, <1>8, <1>9, TokensMake

\* While nobody redeems, a token of a sign-in that nobody else has is saved.
LEMMA NewIsSaved ==
  ASSUME Base, Tokens, Free, turn' = turn, spoiled' = spoiled, NEW h \in Accounts, NEW t,
         t.turn = turn[t.grant], \A a \in Accounts : ~Saved(a, t.grant),
         \A a \in Accounts : secret'[a] \in {IF a = h THEN t ELSE secret[a], None},
         \A d \in Calls : \/ call'[d] = call[d] /\ (At(d, "granted") => call[d].got.grant # t.grant)
                          \/ call'[d].at \in {"notes", "forgets", "adds"}
  PROVE  Tokens'
<1>1. \A d \in Calls : call[d].at \notin {"asks", "answers"} /\ call'[d].at \notin {"asks", "answers"}
  BY FreeIsFree DEF Is
<1>2. ASSUME NEW a \in Accounts PROVE KeptOK(a)'
  <2>1. secret[a] # None => Good(secret[a])
    BY <1>1 DEF Tokens, NewestIsKept, Newest, Good, At
  <2> QED
    BY <2>1, KeptStays DEF Good, StaysKept
<1>3. AloneOK'
  BY DEF Tokens, AloneOK, Saved
<1>4. ASSUME NEW d \in Calls PROVE CallTokens(d)'
  <2>1. GrantedOK(d)'
    <3>1. CASE call'[d].at \in {"notes", "forgets", "adds"}
      BY <3>1 DEF GrantedOK, At
    <3>2. CASE call'[d] = call[d] /\ (At(d, "granted") => call[d].got.grant # t.grant)
      BY <1>1, <3>2, StepsAre, GrantedStays DEF Tokens, Saved
    <3> QED
      BY <3>1, <3>2
  <2> QED
    BY <1>1, <2>1, OthersRest DEF CallTokens
<1> QED
  BY <1>2, <1>3, <1>4, TokensMake

LEMMA AgainSavesTokens == ASSUME Base, Tokens, NEW c \in Calls, AgainSaves(c) PROVE Tokens'
<1> DEFINE t == call[c].got
<1>1. /\ At(c, "granted") /\ Free /\ turn' = turn /\ spoiled' = spoiled /\ call[c].holder \in Accounts
      /\ secret' = [secret EXCEPT ![call[c].holder] = t]
      /\ call'[c].at \in {"notes", "forgets"} /\ \A d \in Calls \ {c} : call'[d] = call[d]
  BY DEF AgainSaves, provider, Base, CallsOK, Call
<1>2. Given(t)
  BY <1>1 DEF Base, HoldsOK, Is, At
<1>3. /\ turn[t.grant] = 0 /\ \A a \in Accounts : ~Saved(a, t.grant)
      /\ \A d \in Calls \ {c} : At(d, "granted") => call[d].got.grant # t.grant
  BY <1>1 DEF Tokens, GrantedOK
<1>4. t.turn = turn[t.grant]
  BY <1>2, <1>3, BoundsAssumption DEF Given, Token
<1>5. \A a \in Accounts : secret'[a] \in {IF a = call[c].holder THEN t ELSE secret[a], None}
  BY <1>1 DEF Base, SecretsOK
<1>6. ASSUME NEW d \in Calls
      PROVE  \/ call'[d] = call[d] /\ (At(d, "granted") => call[d].got.grant # t.grant)
             \/ call'[d].at \in {"notes", "forgets", "adds"}
  BY <1>1, <1>3
<1> HIDE DEF t
<1> QED
  BY <1>1, <1>3, <1>4, <1>5, <1>6, NewIsSaved

LEMMA AddTokens == ASSUME Base, Tokens, NEW c \in Calls, NEW a \in Accounts, Add(c, a) PROVE Tokens'
<1>1. /\ Browser /\ Free /\ spoiled' = spoiled
      /\ call'[c].at = "adds" /\ \A d \in Calls \ {c} : call'[d] = call[d]
  BY DEF Add, history, Base, CallsOK, NoCall
<1>2. issued \in Nat /\ issued + 1 \in Grants /\ turn' = turn
  BY <1>1, BoundsAssumption DEF Browser, Base, ProviderOK, Grants
<1>3. NewToken.grant = issued + 1 /\ NewToken.turn = turn[issued + 1]
  BY <1>2 DEF NewToken, Base, TurnsOK
<1>4. \A b \in Accounts : ~Saved(b, issued + 1)
  BY <1>2 DEF Saved, Base, SecretsOK, Token, Grants
<1>5. \A d \in Calls : At(d, "granted") => call[d].got.grant # issued + 1
  BY <1>2 DEF Base, HoldsOK, At, Is, Given, Token, Grants
<1>6. \A b \in Accounts : secret'[b] \in {IF b = a THEN NewToken ELSE secret[b], None}
  BY DEF Add, Base, SecretsOK
<1>7. \A d \in Calls : \/ call'[d] = call[d] /\ (At(d, "granted") => call[d].got.grant # NewToken.grant)
                       \/ call'[d].at \in {"notes", "forgets", "adds"}
  BY <1>1, <1>3, <1>5
<1> QED
  BY <1>1, <1>2, <1>3, <1>4, <1>6, <1>7, NewIsSaved

LEMMA CopiesTokens == ASSUME Base, Tokens, NEW c \in Calls, NEW b \in Accounts, Copies(c, b) PROVE Tokens'
<1>1. PICK t : t = call[c].used
  OBVIOUS
<1>2. /\ At(c, "keep") /\ turn' = turn /\ spoiled' = spoiled \union {t.grant}
      /\ call'[c].at = "copied" /\ call'[c].used = t
      /\ \A d \in Calls \ {c} : call'[d] = call[d]
  BY <1>1 DEF Copies, provider, Base, CallsOK, Call
<1>3. secret'[b] = t /\ \A a \in Accounts \ {b} : secret'[a] = secret[a]
  BY <1>1 DEF Copies, Base, SecretsOK
<1>4. ASSUME NEW a \in Accounts PROVE KeptOK(a)'
  <2>1. CASE a = b
    BY <1>2, <1>3, <2>1, KeptStays DEF StaysKept
  <2>2. CASE a # b
    BY <1>2, <1>3, <2>2, KeptStays DEF Tokens, NewestIsKept, Newest, StaysKept, At
  <2> QED
    BY <2>1, <2>2
<1>5. AloneOK'
  BY <1>2, <1>3 DEF Tokens, AloneOK, Saved
<1>6. ASSUME NEW d \in Calls \ {c} PROVE CallTokens(d)'
  <2>1. At(d, "granted") => call[d].got.grant # t.grant
    BY <1>1, <1>2, StepsAre DEF Tokens, GrantedOK, Is, At
  <2>2. GrantedOK(d)'
    BY <1>2, <1>3, <2>1, GrantedStays DEF Tokens, Saved
  <2>3. RedeemingOK(d)'
    <3>1. call[d].holder \in Accounts
      BY DEF Base, CallsOK, Call
    <3> QED
      BY <1>2, <1>3, <3>1 DEF Tokens, RedeemingOK, At, Saved
  <2>4. AsksOK(d)' /\ AnswersOK(d)'
    BY <1>2, <1>3 DEF Tokens, AsksOK, AnswersOK, At, Good, Saved
  <2> QED
    BY <2>2, <2>3, <2>4 DEF CallTokens
<1>7. CallTokens(c)'
  BY <1>2, OthersRest DEF CallTokens, GrantedOK, At
<1> QED
  BY <1>4, <1>5, <1>6, <1>7, TokensMake

LEMMA TokensStay == ASSUME Tokens, UNCHANGED <<turn, secret, call, spoiled>> PROVE Tokens'
<1>1. NewestIsKept' /\ AloneOK'
  BY DEF Tokens, NewestIsKept, Newest, At, AloneOK, Saved
<1>2. ASSUME NEW d \in Calls PROVE GrantedOK(d)' /\ RedeemingOK(d)' /\ AsksOK(d)' /\ AnswersOK(d)'
  BY DEF Tokens, GrantedOK, RedeemingOK, AsksOK, AnswersOK, At, Is, Saved, Good
<1> QED
  BY <1>1, <1>2 DEF Tokens

LEMMA TokensStep == ASSUME Base, Tokens, [Next]_vars PROVE Tokens'
<1>0. Loses => Tokens'
  BY LosesTokens DEF Base
<1>1. ASSUME NEW c \in Calls, CallStep(c) PROVE Tokens'
  BY <1>0, <1>1, EndsLoses, NestsLoses, OnlyLoses, AbortsLoses, TakesLockTokens, RedeemsTokens, SavesTokens,
     AgainTokens, AgainSavesTokens, AddTokens, CopiesTokens
  DEF CallStep
<1>2. CASE Quit
  BY <1>0, <1>2, QuitLoses
<1>3. CASE UNCHANGED vars \/ \E a \in Accounts : Expires(a)
  BY <1>3, TokensStay DEF vars, Expires, provider, history
<1> QED
  BY <1>1, <1>2, <1>3 DEF Next

LEMMA InitTokens == Init => Tokens
<1> SUFFICES ASSUME Init PROVE Tokens
  OBVIOUS
<1>1. PICK alone \in SUBSET Accounts :
        \E nested \in IF Main \in alone THEN SUBSET (Shared \ alone) ELSE {{}} :
            \E grant \in [alone -> 1..Cardinality(alone)] : Starts(alone, nested, grant)
  BY DEF Init
<1>2. PICK nested \in IF Main \in alone THEN SUBSET (Shared \ alone) ELSE {{}} :
        \E grant \in [alone -> 1..Cardinality(alone)] : Starts(alone, nested, grant)
  BY <1>1
<1>3. PICK grant \in [alone -> 1..Cardinality(alone)] : Starts(alone, nested, grant)
  BY <1>2
<1>4. Base
  BY InitBase
<1>5. ASSUME NEW a \in Accounts, secret[a] # None PROVE a \in alone /\ secret[a] = [grant |-> grant[a], turn |-> 0]
  BY <1>3, <1>5 DEF Starts
<1>6. turn = [g \in Grants |-> 0] /\ \A a, b \in alone : grant[a] = grant[b] => a = b
  BY <1>3 DEF Starts
<1>7. NewestIsKept
  <2>1. ASSUME NEW a \in Accounts, secret[a] # None PROVE secret[a].turn = turn[secret[a].grant]
    BY <1>4, <1>5, <1>6, <2>1 DEF Base, SecretsOK, Token
  <2> QED
    BY <2>1 DEF NewestIsKept, Newest
<1>8. AloneOK
  <2>2. ASSUME NEW a \in Accounts, secret[a] # None PROVE secret[a].grant = grant[a]
    <3>1. secret[a] = [grant |-> grant[a], turn |-> 0]
      BY <1>5, <2>2
    <3> QED
      BY <3>1
  <2>1. ASSUME NEW a \in Accounts, NEW b \in Accounts, a # b, secret[a] # None, secret[b] # None,
               secret[b].grant = secret[a].grant
        PROVE FALSE
    <3>1. a \in alone /\ b \in alone /\ grant[a] = grant[b]
      BY <1>5, <2>1, <2>2
    <3> QED
      BY <1>6, <2>1, <3>1
  <2> QED
    BY <2>1 DEF AloneOK, Saved
<1>9. ASSUME NEW d \in Calls PROVE GrantedOK(d) /\ RedeemingOK(d) /\ AsksOK(d) /\ AnswersOK(d)
  <2>1. call[d].at = "idle"
    BY <1>3 DEF Starts, NoCall
  <2> QED
    BY <2>1 DEF GrantedOK, RedeemingOK, AsksOK, AnswersOK, At
<1> QED
  BY <1>7, <1>8, <1>9 DEF Tokens

LEMMA AlwaysTokens == Spec => [](Base /\ Tokens)
<1>1. Init => Base /\ Tokens
  BY InitBase, InitTokens
<1>2. Base /\ Tokens /\ [Next]_vars => (Base /\ Tokens)'
  BY BaseStep, TokensStep
<1> QED
  BY <1>1, <1>2, PTL DEF Spec

\* "The newest is always kept": of every saved refresh token, unless the answer with a newer one got
\* lost or a removal left two copies of one sign-in.
THEOREM KeepsTheNewest == Spec => []NewestIsKept
<1>1. Base /\ Tokens => NewestIsKept
  BY DEF Tokens
<1> QED
  BY <1>1, AlwaysTokens, PTL

\* Nobody redeems a token that was replaced, by whatever calls, for mail or calendars, at once.
THEOREM RedeemsTheNewest == Spec => []RedeemsNewest
<1>1. Base /\ Tokens => RedeemsNewest
  BY DEF Tokens, RedeemsNewest, AsksOK, Good, Newest
<1> QED
  BY <1>1, AlwaysTokens, PTL

\* What a refresh replaces in the store is what it redeemed, not a sign-in made meanwhile.
THEOREM ReplacesOwn == Spec => ReplacesWhatItRedeemed
<1> DEFINE Step(c) ==
      LET h == call[c].holder IN
      Saves(c) /\ h \in exists /\ secret[h] # None /\ call[c].got # call[c].used =>
         secret[h] = call[c].used \/ secret[h].grant \in spoiled
<1>1. ASSUME Base, Tokens, NEW c \in Calls PROVE Step(c)
  BY <1>1 DEF Tokens, RedeemingOK, Saves
<1>2. Base /\ Tokens => [\A c \in Calls : Step(c)]_vars
  BY <1>1
<1> HIDE DEF Step
<1>3. Spec => [][\A c \in Calls : Step(c)]_vars
  BY <1>2, AlwaysTokens, PTL
<1> QED
  BY <1>3 DEF ReplacesWhatItRedeemed, Step


-----------------------------------------------------------------------------
(***************************************************************************)
(* Calendars follow the sign-in.                                           *)
(***************************************************************************)

\* A call that redeems nothing new, and one that doesn't stop forgetting while a token is there.
RedeemsOn(d) ==
    call'[d].at \in {"asks", "answers"} =>
        Is(d, {"asks", "answers"}) /\ call'[d].holder = call[d].holder /\ call'[d].used = call[d].used
ForgetsOn(d) ==
    Pending(d) =>
        \/ Pending(d)' /\ call'[d].holder = call[d].holder
        \/ cloud'[call[d].holder] = None

\* A step that saves no token and keeps no calendar token that wasn't there.
Forgets ==
    /\ spoiled \subseteq spoiled' /\ Known \subseteq Known'
    /\ \A a \in Accounts : secret'[a] \in {secret[a], None} /\ cloud'[a] \in {cloud[a], None}
    /\ \A d \in Calls : RedeemsOn(d) /\ ForgetsOn(d)

LEMMA ForgettingIs == \A a \in Accounts : Forgetting(a) <=> \E d \in Calls : Pending(d) /\ call[d].holder = a
  BY DEF Forgetting, Pending, Is

LEMMA ForgettingStays ==
  ASSUME NEW a \in Accounts, cloud'[a] # None, Forgetting(a), \A d \in Calls : ForgetsOn(d)
  PROVE  Forgetting(a)'
<1>1. PICK d \in Calls : Pending(d) /\ call[d].holder = a
  BY ForgettingIs
<1>2. Pending(d)' /\ call'[d].holder = a
  BY <1>1 DEF ForgetsOn
<1> QED
  BY <1>2 DEF Forgetting, Pending, Is

LEMMA ForgetsCalendars == ASSUME CalendarsOK, Forgets PROVE CalendarsOK'
<1> SUFFICES ASSUME NEW a \in Accounts, cloud'[a] # None PROVE CalendarOK(a)'
  BY DEF CalendarsOK, CalendarOK
<1>1. cloud'[a] = cloud[a] /\ CalendarOK(a) /\ (Forgetting(a) => Forgetting(a)')
  BY ForgettingStays DEF CalendarsOK, Forgets
<1>2. a \in Known'
  BY <1>1 DEF CalendarOK, Forgets
<1>3. ASSUME secret'[a] # None
      PROVE  cloud'[a] = secret'[a].grant \/ secret'[a].grant \in spoiled' \/ Forgetting(a)'
  <2>1. secret'[a] = secret[a]
    BY <1>3 DEF Forgets
  <2> QED
    BY <1>1, <1>3, <2>1 DEF CalendarOK, Forgets
<1>4. ASSUME NEW c \in Calls, call'[c].at \in {"asks", "answers"}, call'[c].holder = a
      PROVE  cloud'[a] = call'[c].used.grant \/ call'[c].used.grant \in spoiled' \/ Forgetting(a)'
  <2>1. c \in Asking /\ call[c].holder = a /\ call'[c].used = call[c].used
    BY <1>4 DEF Forgets, RedeemsOn, Is, Asking, At
  <2> QED
    BY <1>1, <2>1 DEF CalendarOK, Forgets
<1> QED
  BY <1>2, <1>3, <1>4 DEF CalendarOK, Asking, At

\* Where one call changes, and doesn't ask, nor stop forgetting.
LEMMA OneForgets ==
  ASSUME CallsOK, NEW c \in Calls, NEW r, call' = [call EXCEPT ![c] = r], r.at \notin {"asks", "answers"},
         Pending(c) => /\ r.at \in {"notes", "nests", "forgets"} /\ r.holder = call[c].holder
                       /\ r.used = call[c].used /\ r.got = call[c].got,
         spoiled \subseteq spoiled', Known \subseteq Known',
         \A a \in Accounts : secret'[a] \in {secret[a], None} /\ cloud'[a] \in {cloud[a], None}
  PROVE  Forgets
<1>1. call'[c] = r /\ \A d \in Calls \ {c} : call'[d] = call[d]
  BY DEF CallsOK
<1>2. \A d \in Calls \ {c} : RedeemsOn(d) /\ ForgetsOn(d)
  BY <1>1 DEF RedeemsOn, ForgetsOn, Pending, AfterAgain, Is
<1>3. RedeemsOn(c) /\ ForgetsOn(c)
  BY <1>1 DEF RedeemsOn, ForgetsOn, Pending, AfterAgain, Is
<1> QED
  BY <1>2, <1>3 DEF Forgets

LEMMA CallsForget ==
  ASSUME Base, NEW c \in Calls,
         \/ NothingToDo(c) \/ IsRefused(c) \/ FindsNothing(c) \/ FoundNests(c) \/ AnswerLost(c)
         \/ Notes(c) \/ \E b \in Accounts : Nests(c, b) \/ Drops(c, b)
  PROVE  Forgets
<1>1. CallsOK /\ Known' = Known /\ spoiled \subseteq spoiled' /\ UNCHANGED cloud
  BY DEF Base, Known, NothingToDo, IsRefused, FindsNothing, FoundNests, AnswerLost, Notes, Nests, Drops,
         store, memory, history
<1>2. \A a \in Accounts : secret'[a] \in {secret[a], None}
  BY DEF Base, SecretsOK, NothingToDo, IsRefused, FindsNothing, FoundNests, AnswerLost, Notes, Nests, Drops
<1>3. CASE Ends(c) /\ Is(c, {"waits", "asks", "answers", "search", "found"})
  BY <1>1, <1>2, <1>3, NoCallIsCall, OneForgets DEF Ends, Pending, Is
<1>4. CASE Notes(c) \/ \E b \in Accounts : Nests(c, b) \/ Drops(c, b)
  <2>1. PICK r : /\ call' = [call EXCEPT ![c] = r] /\ r.at \in {"idle", "forgets", "nests", "adopted"}
                 /\ Pending(c) => /\ r.at \in {"forgets", "nests"} /\ r.holder = call[c].holder
                                  /\ r.used = call[c].used /\ r.got = call[c].got
    BY <1>1, <1>4, NestsOn
  <2> QED
    BY <1>1, <1>2, <2>1, OneForgets
<1> QED
  BY <1>3, <1>4 DEF NothingToDo, IsRefused, FindsNothing, FoundNests, AnswerLost, Asking, At, Is

LEMMA OthersForget ==
  ASSUME Base, NEW c \in Calls,
         \/ AddsRow(c) \/ Search(c) \/ Keeps(c) \/ KeptForgets(c) \/ RemovesTokens(c) \/ RemovesRow(c)
         \/ RemovesSecret(c)
         \/ \E a \in Accounts :
               \/ \E kind \in Kinds : Begins(c, a, kind)
               \/ Finds(c, a) \/ Adopts(c, a) \/ \E op \in {"remove", "keep"} : Remove(c, a, op)
  PROVE  Forgets
<1>1. CallsOK /\ Known \subseteq Known' /\ spoiled \subseteq spoiled' /\ ~Pending(c)
  BY DEF Base, Known, AddsRow, Search, Keeps, KeptForgets, RemovesTokens, RemovesRow, RemovesSecret,
         Begins, Finds, Adopts, Remove, store, history, Pending, Is, At
<1>2. \A a \in Accounts : secret'[a] \in {secret[a], None}
  BY DEF Base, SecretsOK, AddsRow, Search, Keeps, KeptForgets, RemovesTokens, RemovesRow, RemovesSecret,
         Begins, Finds, Adopts, Remove
<1>3. \A a \in Accounts : cloud'[a] \in {cloud[a], None}
  BY DEF Base, MemoryOK, AddsRow, Search, Keeps, KeptForgets, RemovesTokens, RemovesRow, RemovesSecret,
         Begins, Finds, Adopts, Remove, memory
<1>4. PICK r : call' = [call EXCEPT ![c] = r] /\ r.at \in OtherSteps
  BY <1>1, MovesOn
<1> QED
  BY <1>1, <1>2, <1>3, <1>4, OneForgets DEF OtherSteps

LEMMA ElseForgets ==
  ASSUME Base,
         \/ Quit \/ \E a \in Accounts : Expires(a)
         \/ \E c \in Calls : Redeems(c) \/ AgainForgets(c) \/ \E b \in Accounts : RemoveAborts(c, b) \/ Again(c, b)
  PROVE  Forgets
<1>0. /\ CallsOK /\ call \in [Calls -> Call] /\ secret \in [Accounts -> Token \union {None}]
      /\ cloud \in [Accounts -> 1..issued \union {None}] /\ \A c \in Calls : call[c].holder \in Accounts
  BY DEF Base, CallsOK, Call, SecretsOK, MemoryOK
<1>1. CASE Quit
  <2>1. \A d \in Calls : call'[d].at = "idle"
    BY <1>1, NoCallIsCall DEF Quit
  <2>2. PICK left \in SUBSET Nestable(noted) :
          secret' = [a \in Accounts |-> IF a \in Nestable(noted) \ left THEN None ELSE secret[a]]
    BY <1>1 DEF Quit
  <2>3. cloud' = [a \in Accounts |-> None] /\ spoiled \subseteq spoiled' /\ UNCHANGED <<exists, removed>>
    BY <1>1 DEF Quit
  <2> QED
    BY <1>0, <2>1, <2>2, <2>3 DEF Forgets, RedeemsOn, ForgetsOn, Known
<1>2. ASSUME NEW a \in Accounts, Expires(a) PROVE Forgets
  BY <1>0, <1>2 DEF Expires, Forgets, RedeemsOn, ForgetsOn, Pending, AfterAgain, store, history, Is, Known
<1>3. ASSUME NEW c \in Calls, Redeems(c) PROVE Forgets
  <2>1. /\ call'[c].at = "answers" /\ At(c, "asks") /\ \A d \in Calls \ {c} : call'[d] = call[d]
        /\ call'[c].holder = call[c].holder /\ call'[c].used = call[c].used
    <3>1. At(c, "asks") /\ \E t : call' = [call EXCEPT ![c].at = "answers", ![c].got = t]
      BY <1>3 DEF Redeems
    <3> QED
      BY <1>0, <3>1 DEF Call
  <2>2. UNCHANGED <<exists, removed, secret, cloud, spoiled>>
    BY <1>3 DEF Redeems, store, memory, history
  <2>3. \A d \in Calls : RedeemsOn(d) /\ ForgetsOn(d)
    BY <2>1 DEF RedeemsOn, ForgetsOn, Pending, AfterAgain, At, Is
  <2> QED
    BY <2>2, <2>3 DEF Forgets, Known
<1>4. ASSUME NEW c \in Calls, AgainForgets(c) PROVE Forgets
  <2>1. call'[c].at = "idle" /\ \A d \in Calls \ {c} : call'[d] = call[d]
    BY <1>0, <1>4, NoCallIsCall DEF AgainForgets, Ends
  <2>2. cloud'[call[c].holder] = None /\ \A a \in Accounts : cloud'[a] \in {cloud[a], None}
    BY <1>0, <1>4 DEF AgainForgets
  <2>3. UNCHANGED <<exists, removed, secret, spoiled>>
    BY <1>4 DEF AgainForgets, store, history
  <2>4. \A d \in Calls : RedeemsOn(d) /\ ForgetsOn(d)
    BY <2>1, <2>2 DEF RedeemsOn, ForgetsOn, Pending, AfterAgain, At, Is
  <2> QED
    BY <2>2, <2>3, <2>4 DEF Forgets, Known
<1>5. ASSUME NEW c \in Calls, NEW b \in Accounts, RemoveAborts(c, b) PROVE Forgets
  <2> DEFINE r == [call[c] EXCEPT !.at = "tokens", !.holder = b, !.used = None]
  <2>1. PICK tasks \in SUBSET Logins(b) :
          /\ At(c, "remove")
          /\ call' = [d \in Calls |-> IF d = c THEN r ELSE IF d \in tasks THEN NoCall ELSE call[d]]
          /\ spoiled' = spoiled \union Lost(tasks) /\ UNCHANGED <<provider, store, secret, memory>>
    BY <1>5 DEF RemoveAborts
  <2>2. r.at = "tokens"
    BY <1>0 DEF Call
  <2> HIDE DEF r
  <2>3. ASSUME NEW d \in Calls PROVE RedeemsOn(d) /\ ForgetsOn(d)
    <3>1. CASE d = c
      BY <2>1, <2>2, <3>1 DEF RedeemsOn, ForgetsOn, Pending, Is, At
    <3>2. CASE d # c /\ d \in tasks
      BY <2>1, <3>2, NoCallIsCall DEF RedeemsOn, ForgetsOn, Pending, Is, Logins
    <3>3. CASE d # c /\ d \notin tasks
      BY <2>1, <3>3 DEF RedeemsOn, ForgetsOn, Pending, AfterAgain, Is
    <3> QED
      BY <3>1, <3>2, <3>3
  <2> QED
    BY <2>1, <2>3 DEF Forgets, store, memory, Known
<1>6. ASSUME NEW c \in Calls, NEW a \in Accounts, Again(c, a) PROVE Forgets
  <2> DEFINE r == [NoCall EXCEPT !.at = "granted", !.account = a, !.holder = Holder(a), !.got = NewToken]
  <2>1. call' = [call EXCEPT ![c] = r] /\ r.at = "granted" /\ call[c].at = "idle"
    BY <1>6 DEF Again, NoCall, At
  <2> HIDE DEF r
  <2>2. UNCHANGED <<secret, cloud, spoiled>> /\ Known' = Known
    BY <1>6 DEF Again, store, memory, history, Known
  <2> QED
    BY <1>0, <2>1, <2>2, OneForgets DEF Pending, Is
<1> QED
  BY <1>1, <1>2, <1>3, <1>4, <1>5, <1>6

\* What is saved for an account after a step, by the tokens of before.
LEMMA CalendarStays ==
  ASSUME NEW a \in Accounts, CalendarOK(a), cloud' = cloud, spoiled \subseteq spoiled',
         Known \subseteq Known', Forgetting(a) => Forgetting(a)',
         cloud[a] # None /\ secret'[a] # None =>
            cloud[a] = secret'[a].grant \/ secret'[a].grant \in spoiled' \/ Forgetting(a)',
         \A d \in Calls : cloud[a] # None /\ call'[d].at \in {"asks", "answers"} /\ call'[d].holder = a =>
            cloud[a] = call'[d].used.grant \/ call'[d].used.grant \in spoiled' \/ Forgetting(a)'
  PROVE  CalendarOK(a)'
  BY DEF CalendarOK, Asking, At

\* One call changes that wasn't forgetting.
LEMMA ForgettingGoesOn ==
  ASSUME NEW c \in Calls, \A d \in Calls \ {c} : call'[d] = call[d], ~Pending(c)
  PROVE  \A a \in Accounts : Forgetting(a) => Forgetting(a)'
  BY DEF Forgetting, Pending, AfterAgain, Is

LEMMA TakesLockCalendars == ASSUME Base, CalendarsOK, NEW c \in Calls, TakesLock(c) PROVE CalendarsOK'
<1>0. call \in [Calls -> Call]
  BY DEF Base, CallsOK
<1>1. /\ call'[c].holder = call[c].holder /\ call'[c].used = secret[call[c].holder] /\ secret[call[c].holder] # None
      /\ At(c, "waits") /\ Free /\ \A d \in Calls \ {c} : call'[d] = call[d]
  BY <1>0 DEF TakesLock, Call
<1>2. UNCHANGED <<secret, cloud, spoiled>> /\ Known' = Known
  BY DEF TakesLock, store, memory, history, Known
<1>3. ASSUME NEW a \in Accounts PROVE CalendarOK(a)'
  <2>1. CalendarOK(a)
    BY DEF CalendarsOK
  <2>2. Forgetting(a) => Forgetting(a)'
    BY <1>1, ForgettingGoesOn DEF Pending, Is, At
  <2>3. ASSUME NEW d \in Calls, cloud[a] # None, call'[d].at \in {"asks", "answers"}, call'[d].holder = a
        PROVE  cloud[a] = call'[d].used.grant \/ call'[d].used.grant \in spoiled' \/ Forgetting(a)'
    <3>1. d = c
      BY <1>1, <2>3, FreeIsFree DEF Is
    <3> QED
      BY <1>1, <1>2, <2>1, <2>2, <2>3, <3>1 DEF CalendarOK
  <2> QED
    BY <1>2, <2>1, <2>2, <2>3, CalendarStays DEF CalendarOK
<1> QED
  BY <1>3 DEF CalendarsOK

LEMMA SavesCalendars == ASSUME Base, Tokens, CalendarsOK, NEW c \in Calls, Saves(c) PROVE CalendarsOK'
<1>h. PICK h \in Accounts : h = call[c].holder
  BY DEF Base, CallsOK, Call
<1>g. PICK g : g = call[c].used.grant
  OBVIOUS
<1>0. /\ call \in [Calls -> Call] /\ secret \in [Accounts -> Token \union {None}]
      /\ cloud \in [Accounts -> 1..issued \union {None}]
  BY DEF Base, CallsOK, SecretsOK, MemoryOK
<1>1. At(c, "answers") /\ call'[c].at \in {"idle", "notes"} /\ \A d \in Calls \ {c} : call'[d] = call[d]
  BY <1>0, NoCallIsCall DEF Saves, Ends, Call
<1>2. \A d \in Calls : call'[d].at \notin {"asks", "answers"}
  BY <1>1, OnlyOne DEF Base, At, Is
<1>3. Known' = Known /\ spoiled' = spoiled /\ h \in Known
  <2>1. HoldsOK(c)
    BY DEF Base
  <2> QED
    BY <1>1, <1>h, <2>1 DEF Saves, store, history, HoldsOK, Is, At, Known
<1>4. \A a \in Accounts : Forgetting(a) => Forgetting(a)'
  BY <1>1, ForgettingGoesOn DEF Pending, Is, At
<1>5. /\ \A a \in Accounts \ {h} : secret'[a] = secret[a]
      /\ secret'[h] \in {secret[h], call[c].got} /\ (call[c].got = call[c].used => secret'[h] = secret[h])
  BY <1>0, <1>h DEF Saves
<1>6. call[c].got.grant = g /\ (secret[h] # None => secret[h] = call[c].used \/ secret[h].grant \in spoiled)
  BY <1>1, <1>h, <1>g DEF Tokens, AnswersOK, RedeemingOK
<1>7. secret'[h] # None => secret'[h].grant = g \/ secret'[h].grant \in spoiled
  BY <1>5, <1>6, <1>g
<1>a. c \in Asking
  BY <1>1 DEF Asking
<1>8. ASSUME NEW a \in Accounts, cloud'[a] = cloud[a] PROVE CalendarOK(a)'
  <2>1. CalendarOK(a)
    BY DEF CalendarsOK
  <2>2. ASSUME cloud[a] # None, secret'[a] # None
        PROVE  cloud[a] = secret'[a].grant \/ secret'[a].grant \in spoiled' \/ Forgetting(a)'
    <3>1. CASE a # h
      BY <1>3, <1>4, <1>5, <2>1, <2>2, <3>1 DEF CalendarOK
    <3>2. CASE a = h
      <4>1. cloud[a] = g \/ g \in spoiled \/ Forgetting(a)
        BY <1>a, <1>h, <1>g, <2>1, <2>2, <3>2 DEF CalendarOK
      <4> QED
        BY <1>3, <1>4, <1>7, <2>2, <3>2, <4>1
    <3> QED
      BY <3>1, <3>2
  <2>3. cloud[a] # None => a \in Known'
    BY <1>3, <2>1 DEF CalendarOK
  <2> QED
    BY <1>2, <1>8, <2>2, <2>3 DEF CalendarOK, Asking, At
<1>9. CASE call[c].kind = "cloud"
  <2>1. cloud'[h] = g /\ \A a \in Accounts \ {h} : cloud'[a] = cloud[a]
    BY <1>0, <1>9, <1>h, <1>g DEF Saves
  <2>2. CalendarOK(h)'
    BY <1>2, <1>3, <1>7, <2>1 DEF CalendarOK, Asking, At
  <2> QED
    BY <1>8, <2>1, <2>2 DEF CalendarsOK
<1>10. CASE call[c].kind # "cloud"
  <2>1. cloud' = cloud
    BY <1>10 DEF Saves
  <2> QED
    BY <1>8, <2>1 DEF CalendarsOK
<1> QED
  BY <1>9, <1>10

LEMMA AgainSavesCalendars == ASSUME Base, CalendarsOK, NEW c \in Calls, AgainSaves(c) PROVE CalendarsOK'
<1>h. PICK h \in Accounts : h = call[c].holder
  BY DEF Base, CallsOK, Call
<1>0. call \in [Calls -> Call] /\ secret \in [Accounts -> Token \union {None}]
  BY DEF Base, CallsOK, SecretsOK
<1>1. /\ call'[c].at \in {"notes", "forgets"} /\ call'[c].holder = h /\ Free /\ At(c, "granted")
      /\ call'[c].used = None /\ call'[c].got # None /\ \A d \in Calls \ {c} : call'[d] = call[d]
  <2>1. HoldsOK(c) /\ At(c, "granted")
    BY DEF Base, AgainSaves
  <2>2. call[c].used = None /\ call[c].got # None
    BY <2>1, NoneAssumption DEF HoldsOK, Is, At, Given
  <2> QED
    BY <1>0, <1>h, <2>1, <2>2 DEF AgainSaves, Call
<1>2. UNCHANGED <<cloud, spoiled>> /\ Known' = Known /\ \A a \in Accounts \ {h} : secret'[a] = secret[a]
  BY <1>0, <1>h DEF AgainSaves, store, Known
<1>3. \A d \in Calls : call'[d].at \notin {"asks", "answers"}
  BY <1>1, FreeIsFree DEF Is
<1>4. Forgetting(h)' /\ \A a \in Accounts : Forgetting(a) => Forgetting(a)'
  <2>1. ~Pending(c)
    BY <1>1 DEF Pending, Is, At
  <2> QED
    BY <1>1, <2>1, ForgettingGoesOn DEF Forgetting, AfterAgain
<1>5. ASSUME NEW a \in Accounts PROVE CalendarOK(a)'
  <2>1. CalendarOK(a)
    BY DEF CalendarsOK
  <2> QED
    BY <1>2, <1>3, <1>4, <2>1, CalendarStays DEF CalendarOK
<1> QED
  BY <1>5 DEF CalendarsOK

LEMMA AddCalendars == ASSUME Base, CalendarsOK, NEW c \in Calls, NEW b \in Accounts, Add(c, b) PROVE CalendarsOK'
<1>0. call \in [Calls -> Call] /\ secret \in [Accounts -> Token \union {None}]
  BY DEF Base, CallsOK, SecretsOK
<1>1. /\ b \notin Known /\ UNCHANGED <<cloud, spoiled>> /\ Known' = Known
      /\ call'[c].at = "adds" /\ At(c, "idle") /\ \A d \in Calls \ {c} : call'[d] = call[d]
      /\ \A a \in Accounts \ {b} : secret'[a] = secret[a]
  BY <1>0 DEF Add, New, Known, store, history, NoCall
<1>2. cloud[b] = None
  BY <1>1 DEF CalendarsOK, CalendarOK
<1>3. ASSUME NEW a \in Accounts PROVE CalendarOK(a)'
  <2>1. CalendarOK(a) /\ (Forgetting(a) => Forgetting(a)')
    BY <1>1, ForgettingGoesOn DEF CalendarsOK, Pending, Is, At
  <2>2. CASE a = b
    BY <1>1, <1>2, <2>2 DEF CalendarOK
  <2>3. CASE a # b
    <3>1. \A d \in Calls : call'[d].at \in {"asks", "answers"} => d \in Asking /\ call'[d] = call[d]
      BY <1>1 DEF Asking, At
    <3>2. cloud[a] # None /\ secret'[a] # None =>
             cloud[a] = secret'[a].grant \/ secret'[a].grant \in spoiled' \/ Forgetting(a)'
      BY <1>1, <2>1, <2>3 DEF CalendarOK
    <3> QED
      BY <1>1, <2>1, <3>1, <3>2, CalendarStays DEF CalendarOK
  <2> QED
    BY <2>2, <2>3
<1> QED
  BY <1>3 DEF CalendarsOK

LEMMA CopiesCalendars ==
  ASSUME Base, CalendarsOK, NEW c \in Calls, NEW b \in Accounts, Copies(c, b)
  PROVE  CalendarsOK'
<1>0. call \in [Calls -> Call] /\ secret \in [Accounts -> Token \union {None}]
  BY DEF Base, CallsOK, SecretsOK
<1>1. call'[c].at = "copied" /\ At(c, "keep") /\ \A d \in Calls \ {c} : call'[d] = call[d]
  BY <1>0 DEF Copies, Call
<1>2. /\ cloud' = cloud /\ Known' = Known /\ spoiled' = spoiled \union {call[c].used.grant}
      /\ secret'[b] = call[c].used /\ \A a \in Accounts \ {b} : secret'[a] = secret[a]
  BY <1>0 DEF Copies, memory, store, Known
<1>3. ASSUME NEW a \in Accounts PROVE CalendarOK(a)'
  <2>1. CalendarOK(a) /\ (Forgetting(a) => Forgetting(a)')
    BY <1>1, ForgettingGoesOn DEF CalendarsOK, Pending, Is, At
  <2>2. \A d \in Calls : call'[d].at \in {"asks", "answers"} => d \in Asking /\ call'[d] = call[d]
    BY <1>1 DEF Asking, At
  <2>3. ASSUME cloud[a] # None, secret'[a] # None
        PROVE  cloud[a] = secret'[a].grant \/ secret'[a].grant \in spoiled' \/ Forgetting(a)'
    BY <1>2, <2>1, <2>3 DEF CalendarOK
  <2>4. spoiled \subseteq spoiled'
    BY <1>2
  <2> QED
    BY <1>2, <2>1, <2>2, <2>3, <2>4, CalendarStays DEF CalendarOK
<1> QED
  BY <1>3 DEF CalendarsOK

LEMMA CalendarsStep == ASSUME Base, Tokens, CalendarsOK, [Next]_vars PROVE CalendarsOK'
<1>1. ASSUME NEW c \in Calls, CallStep(c) PROVE CalendarsOK'
  BY <1>1, CallsForget, OthersForget, ElseForgets, ForgetsCalendars, TakesLockCalendars, SavesCalendars,
     AgainSavesCalendars, AddCalendars, CopiesCalendars
  DEF CallStep
<1>2. CASE UNCHANGED vars
  BY <1>2 DEF vars, CalendarsOK, CalendarOK, Forgetting, AfterAgain, Asking, Known, At
<1> QED
  BY <1>1, <1>2, ElseForgets, ForgetsCalendars DEF Next

\* After a sign-in, calendars and contacts ask with it: what is kept in memory of the one before is
\* forgotten, or about to be, however a refresh for them was under way.
THEOREM CalendarsFollow == Spec => []CalendarsUseSaved
<1>1. Init => Base /\ Tokens /\ CalendarsOK
  <2>1. Init => \A a \in Accounts : cloud[a] = None
    BY DEF Init, Starts
  <2> QED
    BY <2>1, InitBase, InitTokens DEF CalendarsOK, CalendarOK
<1>2. Base /\ Tokens /\ CalendarsOK /\ [Next]_vars => (Base /\ Tokens /\ CalendarsOK)'
  BY BaseStep, TokensStep, CalendarsStep
<1>3. ASSUME Base, CalendarsOK PROVE CalendarsUseSaved
  <2>1. ASSUME NEW a \in exists, cloud[a] # None, secret[a] # None
        PROVE  cloud[a] = secret[a].grant \/ secret[a].grant \in spoiled \/ Forgetting(a)
    <3>1. CalendarOK(a)
      BY <1>3 DEF Base, StoreOK, CalendarsOK
    <3> QED
      BY <2>1, <3>1 DEF CalendarOK
  <2> QED
    BY <2>1 DEF CalendarsUseSaved
<1> QED
  BY <1>1, <1>2, <1>3, PTL DEF Spec
===============================================================================
