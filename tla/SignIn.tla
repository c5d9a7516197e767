------------------------------- MODULE SignIn -------------------------------
(***************************************************************************)
(* The sign-ins of Microsoft mailboxes (crates/uwumail-core/src/engine.rs,  *)
(* engine/cloud_ops.rs, engine/shared_ops.rs): the saved refresh tokens,    *)
(* the access tokens in memory, and which mailbox opens with whose sign-in. *)
(*                                                                         *)
(* The provider may replace a refresh token whenever it is redeemed and     *)
(* refuse the old one from then on.  Mail tokens and calendar tokens come   *)
(* from the same refresh token, a shared mailbox nested under its account   *)
(* uses the account's, and meanwhile the person signs in again, removes     *)
(* mailboxes, or a search nests them.  The lock on the mail tokens is held  *)
(* by a call that redeems.                                                 *)
(***************************************************************************)
EXTENDS Naturals, FiniteSets

CONSTANTS
    Main,       \* the person's own account
    Shared,     \* mailboxes that account opens too
    None,       \* no account, no token
    Calls,      \* tasks, windows and background calls, each doing one thing at a time
    Uses,       \* what they do, of Ops
    Faults,     \* whether answers may get lost, and UwUMail quit
    MaxGrants,  \* bound on sign-ins in the browser
    MaxTurns    \* bound on replacements within one

Ops == {"again", "remove", "keep", "add", "search"}
Kinds == {"mail", "cloud"}  \* a login to the mailbox; calendar and contacts

ASSUME AccountsAssumption == IsFiniteSet(Shared) /\ Main \notin Shared /\ None \notin Shared \union {Main}
ASSUME UsesAssumption == Uses \subseteq Ops /\ Faults \in BOOLEAN
ASSUME BoundsAssumption == MaxGrants \in Nat \ {0} /\ MaxTurns \in Nat

Accounts == Shared \union {Main}
Grants == 1..MaxGrants
Token == [grant : Grants, turn : 0..MaxTurns]  \* a refresh token: of which sign-in, and how often replaced
ASSUME NoneAssumption == None \notin Token

VARIABLES
    issued,   \* sign-ins in the browser so far
    turn,     \* how often the provider has replaced each one's token
    exists,   \* the accounts of the store
    removed,  \* the ones that were: their ids don't come back
    parent,   \* the account a shared mailbox is nested under
    noted,    \* accounts of which the store knows whose sign-in they have: Main's person
    secret,   \* the saved refresh tokens
    mail,     \* accounts with a mail token in memory
    cloud,    \* calendar tokens in memory, by the sign-in they come from
    call,     \* the calls
    spoiled,  \* sign-ins whose newest token got lost, or that two accounts have (no action reads it)
    bare      \* mailboxes left without a sign-in by a stop or a late delete (no action reads it)

provider == <<issued, turn>>
store == <<exists, removed, parent, noted>>
memory == <<mail, cloud>>
history == <<spoiled, bare>>
vars == <<issued, turn, exists, removed, parent, noted, secret, mail, cloud, call, spoiled, bare>>

NoCall == [at |-> "idle", kind |-> "mail", account |-> Main, holder |-> Main, used |-> None, got |-> None,
           todo |-> {}, done |-> {}]
At(c, step) == call[c].at = step
Ends(c) == call' = [call EXCEPT ![c] = NoCall]

\* secret_holder: a shared mailbox opens with its account's sign-in, if that is there.
Holder(a) == IF a \in exists /\ parent[a] \in exists THEN parent[a] ELSE a

Asking == {c \in Calls : At(c, "asks") \/ At(c, "answers")}

\* The lock on the mail tokens: who redeems keeps it until what the answer tells is noted.
Redeeming == Asking \union {c \in Calls : (At(c, "notes") \/ At(c, "nests")) /\ call[c].used # None}
Free == Redeeming = {}

\* Sign-ins whose new token nobody will save once these calls are over.
Lost(cs) == {call[c].got.grant : c \in {c \in cs : At(c, "answers") /\ call[c].got # call[c].used}}

-----------------------------------------------------------------------------
(***************************************************************************)
(* Tokens.                                                                 *)
(***************************************************************************)

Cached(kind, h) == IF kind = "cloud" THEN cloud[h] # None ELSE h \in mail

\* credential, cloud_token: whose token it takes, and what they look at before the lock.
Begins(c, a, kind) ==
    /\ At(c, "idle") /\ a \in exists
    /\ IF kind = "cloud" THEN cloud[Holder(a)] = None ELSE secret[Holder(a)] # None
    /\ call' = [call EXCEPT ![c] = [NoCall EXCEPT !.at = "waits", !.kind = kind, !.account = a, !.holder = Holder(a)]]
    /\ UNCHANGED <<provider, store, secret, memory, history>>

\* Somebody else refreshed while this waited, or the sign-in is gone.
NothingToDo(c) ==
    /\ At(c, "waits") /\ Free
    /\ Cached(call[c].kind, call[c].holder) \/ secret[call[c].holder] = None
    /\ Ends(c) /\ UNCHANGED <<provider, store, secret, memory, history>>

\* Mutant: calendar tokens have a lock of their own.
TakesNoLock(c) ==
    LET h == call[c].holder IN
    /\ At(c, "waits") /\ (Free \/ call[c].kind = "cloud") /\ ~Cached(call[c].kind, h) /\ secret[h] # None
    /\ call' = [call EXCEPT ![c].at = "asks", ![c].used = secret[h]]
    /\ UNCHANGED <<provider, store, secret, memory, history>>

\* It has the lock, and reads the refresh token under it.
TakesLock(c) ==
    LET h == call[c].holder IN
    /\ At(c, "waits") /\ Free /\ ~Cached(call[c].kind, h) /\ secret[h] # None
    /\ call' = [call EXCEPT ![c].at = "asks", ![c].used = secret[h]]
    /\ UNCHANGED <<provider, store, secret, memory, history>>

\* The provider redeems it, and gives a new one or none.
Redeems(c) ==
    LET g == call[c].used.grant IN
    /\ At(c, "asks")
    /\ \/ call' = [call EXCEPT ![c].at = "answers", ![c].got = call[c].used] /\ UNCHANGED provider
       \/ /\ turn[g] < MaxTurns
          /\ turn' = [turn EXCEPT ![g] = @ + 1]
          /\ call' = [call EXCEPT ![c].at = "answers", ![c].got = [grant |-> g, turn |-> turn[g] + 1]]
          /\ UNCHANGED issued
    /\ UNCHANGED <<store, secret, memory, history>>

\* The provider doesn't take a token it has replaced.
IsRefused(c) ==
    /\ At(c, "asks") /\ call[c].used.turn < turn[call[c].used.grant]
    /\ Ends(c) /\ UNCHANGED <<provider, store, secret, memory, history>>

\* Mutant: only the mail token's refresh saves the new one.
SavesForMail(c) ==
    LET h == call[c].holder IN
    /\ At(c, "answers")
    /\ IF call[c].kind = "cloud"
       THEN cloud' = [cloud EXCEPT ![h] = call[c].used.grant] /\ UNCHANGED <<mail, secret>>
       ELSE secret' = [secret EXCEPT ![h] = call[c].got] /\ mail' = mail \union {h} /\ UNCHANGED cloud
    /\ IF call[c].kind = "mail" /\ h \notin noted THEN call' = [call EXCEPT ![c].at = "notes"] ELSE Ends(c)
    /\ UNCHANGED <<provider, store, history>>

\* The new refresh token is saved and the access token kept; an account's first mail token of its
\* own also tells whose sign-in that is (note_sign_in).
Saves(c) ==
    LET h == call[c].holder IN
    /\ At(c, "answers")
    /\ secret' = IF call[c].got = call[c].used THEN secret ELSE [secret EXCEPT ![h] = call[c].got]
    /\ IF call[c].kind = "cloud" THEN cloud' = [cloud EXCEPT ![h] = call[c].used.grant] /\ UNCHANGED mail
       ELSE mail' = mail \union {h} /\ UNCHANGED cloud
    /\ IF call[c].kind = "mail" /\ h = call[c].account /\ h \notin noted
       THEN call' = [call EXCEPT ![c].at = "notes"] ELSE Ends(c)
    /\ UNCHANGED <<provider, store, history>>

\* No answer comes, though the provider may have given one.
AnswerLost(c) ==
    /\ Faults /\ c \in Asking /\ Ends(c)
    /\ spoiled' = spoiled \union Lost({c})
    /\ UNCHANGED <<provider, store, secret, memory, bare>>

\* An access token ends, or is not taken any more.
Expires(h) ==
    /\ \/ h \in mail /\ mail' = mail \ {h} /\ UNCHANGED cloud
       \/ cloud[h] # None /\ cloud' = [cloud EXCEPT ![h] = None] /\ UNCHANGED mail
    /\ UNCHANGED <<provider, store, secret, call, history>>

-----------------------------------------------------------------------------
(***************************************************************************)
(* Whose sign-in it is, and mailboxes that go under their account.          *)
(***************************************************************************)

\* shared_by_sign_in: mailboxes of their own that have the sign-in of the account's person.
Nestable(known) == {b \in (exists \intersect known) \ {Main} : Main \in exists /\ parent[b] = None}

\* Signing in again goes on with the calendars; the lock, if it was held, is let go.
AfterAgain(c) == call[c].used = None /\ call[c].got # None
GoesOn(c) ==
    IF AfterAgain(c)
    THEN call' = [call EXCEPT ![c].at = "forgets", ![c].done = {}] ELSE Ends(c)

\* note_sign_in saves it, and reads which mailboxes to sort.
Notes(c) ==
    LET h == call[c].holder
        known == noted \union ({h} \intersect exists)
    IN
    /\ At(c, "notes")
    /\ noted' = known
    /\ IF Nestable(known) = {} THEN GoesOn(c)
       ELSE call' = [call EXCEPT ![c].at = "nests", ![c].todo = Nestable(known)]
    /\ UNCHANGED <<provider, exists, removed, parent, secret, memory, history>>

\* nest_shared_by_sign_in: they go under the account, one after the other ...
Nests(c, b) ==
    /\ At(c, "nests") /\ b \in call[c].todo
    /\ parent' = [parent EXCEPT ![b] = IF b \in exists THEN Main ELSE @]
    /\ call' = [call EXCEPT ![c].todo = @ \ {b}, ![c].done = @ \union {b}]
    /\ UNCHANGED <<provider, exists, removed, noted, secret, memory, history>>

\* A removal that keeps this mailbox has given it a copy, though not yet to itself.
BeingKept(b) == parent[b] = None \/ \E c \in Calls : At(c, "copied") /\ call[c].holder = b

\* ... and then their own copies of the sign-in go: nest_by_sign_in, adopt_found.
Drops(c, b) ==
    /\ At(c, "nests") \/ At(c, "adopted")
    /\ call[c].todo = {} /\ b \in call[c].done
    /\ secret' = [secret EXCEPT ![b] = None]
    /\ mail' = IF call[c].used = None THEN mail ELSE mail \ {b}
    /\ IF call[c].done = {b} THEN GoesOn(c) ELSE call' = [call EXCEPT ![c].done = @ \ {b}]
    /\ bare' = IF BeingKept(b) THEN bare \union {b} ELSE bare
    /\ UNCHANGED <<provider, store, cloud, spoiled>>

-----------------------------------------------------------------------------
(***************************************************************************)
(* Signing in, in the browser.                                             *)
(***************************************************************************)

Browser == issued < MaxGrants /\ issued' = issued + 1 /\ UNCHANGED turn
NewToken == [grant |-> issued + 1, turn |-> 0]

\* sign_in_again: for a shared mailbox it is the sign-in of its account.
Again(c, a) ==
    /\ At(c, "idle") /\ "again" \in Uses /\ a \in exists /\ Browser
    /\ call' = [call EXCEPT ![c] = [NoCall EXCEPT !.at = "granted", !.account = a, !.holder = Holder(a),
                                                  !.got = NewToken]]
    /\ UNCHANGED <<store, secret, memory, history>>

\* Mutant: it is saved while a refresh may be running.
AgainWithoutLock(c) ==
    LET h == call[c].holder IN
    /\ At(c, "granted")
    /\ secret' = [secret EXCEPT ![h] = call[c].got]
    /\ mail' = mail \union {h}
    /\ call' = [call EXCEPT ![c].at = IF h \in noted THEN "forgets" ELSE "notes"]
    /\ bare' = bare \ {h}
    /\ UNCHANGED <<provider, store, cloud, spoiled>>

\* Under the lock: "a refresh running meanwhile could replace the refresh token".
AgainSaves(c) ==
    LET h == call[c].holder IN
    /\ At(c, "granted") /\ Free
    /\ secret' = [secret EXCEPT ![h] = call[c].got]
    /\ mail' = mail \union {h}
    /\ call' = [call EXCEPT ![c].at = IF h \in noted THEN "forgets" ELSE "notes"]
    /\ bare' = bare \ {h}
    /\ UNCHANGED <<provider, store, cloud, spoiled>>

\* Mutant: the account it was asked for forgets, not the one that holds the sign-in.
ForgetsAsked(c) ==
    /\ At(c, "forgets") /\ Ends(c)
    /\ cloud' = [cloud EXCEPT ![call[c].account] = None]
    /\ UNCHANGED <<provider, store, secret, mail, history>>

\* Calendars and contacts look again with the new permissions, the nested mailboxes' too.
AgainForgets(c) ==
    LET h == call[c].holder
        forgets == {h, call[c].account} \union {a \in exists : parent[a] = h}
    IN
    /\ At(c, "forgets") /\ Ends(c)
    /\ cloud' = [a \in Accounts |-> IF a \in forgets THEN None ELSE cloud[a]]
    /\ UNCHANGED <<provider, store, secret, mail, history>>

\* An id that was never used.
New(a) == a \notin exists \union removed /\ secret[a] = None

\* add_account, with the person's sign-in: first that, then the row.
Add(c, a) ==
    /\ At(c, "idle") /\ "add" \in Uses /\ New(a) /\ Free /\ Browser
    /\ secret' = [secret EXCEPT ![a] = NewToken] /\ mail' = mail \union {a}
    /\ call' = [call EXCEPT ![c] = [NoCall EXCEPT !.at = "adds", !.account = a, !.holder = a]]
    /\ UNCHANGED <<store, cloud, history>>

AddsRow(c) ==
    /\ At(c, "adds")
    /\ exists' = exists \union {call[c].holder}
    /\ call' = [call EXCEPT ![c].at = "notes"]
    /\ UNCHANGED <<provider, removed, parent, noted, secret, memory, history>>

-----------------------------------------------------------------------------
(***************************************************************************)
(* Shared mailboxes, and removing mailboxes.                               *)
(***************************************************************************)

\* search_shared, one at a time, for an account of a person that has a mail token.
Search(c) ==
    /\ At(c, "idle") /\ "search" \in Uses /\ Main \in exists /\ Main \in mail
    /\ \A d \in Calls : call[d].at \notin {"search", "found", "adopted"}
    /\ call' = [call EXCEPT ![c] = [NoCall EXCEPT !.at = "search"]]
    /\ UNCHANGED <<provider, store, secret, memory, history>>

\* insert_shared: a mailbox that is new here, with no secret, ...
Finds(c, b) ==
    /\ At(c, "search") /\ b \in Shared /\ New(b)
    /\ exists' = exists \union {b}
    /\ call' = [call EXCEPT ![c].at = "found", ![c].holder = b]
    /\ UNCHANGED <<provider, removed, parent, noted, secret, memory, history>>

\* ... goes under the account.
FoundNests(c) ==
    LET b == call[c].holder IN
    /\ At(c, "found") /\ Ends(c)
    /\ parent' = [parent EXCEPT ![b] = IF b \in exists THEN Main ELSE @]
    /\ UNCHANGED <<provider, exists, removed, noted, secret, memory, history>>

\* adopt_found: a mailbox of its own with the person's sign-in goes under the account.
Adopts(c, b) ==
    /\ At(c, "search") /\ b \in Shared \intersect exists \intersect noted /\ parent[b] = None
    /\ parent' = [parent EXCEPT ![b] = Main]
    /\ call' = [call EXCEPT ![c].at = "adopted", ![c].done = {b}]
    /\ UNCHANGED <<provider, exists, removed, noted, secret, memory, history>>

FindsNothing(c) == At(c, "search") /\ Ends(c) /\ UNCHANGED <<provider, store, secret, memory, history>>

\* remove_account_with: its shared mailboxes go with it, or are kept with a copy of the sign-in.
Remove(c, a, op) ==
    LET children == {b \in exists : parent[b] = a} IN
    /\ At(c, "idle") /\ op \in {"remove", "keep"} \intersect Uses /\ a \in exists
    /\ op = "keep" => children # {} /\ secret[a] # None
    /\ call' = [call EXCEPT ![c] = [NoCall EXCEPT !.at = op, !.account = a, !.todo = children, !.used = secret[a]]]
    /\ UNCHANGED <<provider, store, secret, memory, history>>

\* Mutant: the mailbox is to be on its own, with no copy of the sign-in.
CopiesNothing(c, b) ==
    /\ At(c, "keep") /\ b \in call[c].todo
    /\ call' = [call EXCEPT ![c].at = "copied", ![c].holder = b, ![c].todo = @ \ {b}]
    /\ spoiled' = spoiled \union {call[c].used.grant}
    /\ UNCHANGED <<provider, store, secret, memory, bare>>

\* A mailbox that is kept gets a copy of the sign-in, and then is on its own.
Copies(c, b) ==
    /\ At(c, "keep") /\ b \in call[c].todo
    /\ secret' = [secret EXCEPT ![b] = call[c].used]
    /\ call' = [call EXCEPT ![c].at = "copied", ![c].holder = b, ![c].todo = @ \ {b}]
    /\ spoiled' = spoiled \union {call[c].used.grant}
    /\ UNCHANGED <<provider, store, memory, bare>>

Keeps(c) ==
    /\ At(c, "copied")
    /\ parent' = [parent EXCEPT ![call[c].holder] = None]
    /\ call' = [call EXCEPT ![c].at = "kept"]
    /\ UNCHANGED <<provider, exists, removed, noted, secret, memory, history>>

\* "From now on its own sign-in opens its calendars and contacts."
KeptForgets(c) ==
    LET b == call[c].holder IN
    /\ At(c, "kept")
    /\ call' = [call EXCEPT ![c].at = IF call[c].todo = {} THEN "remove" ELSE "keep", ![c].holder = Main]
    /\ cloud' = [cloud EXCEPT ![b] = None] /\ noted' = noted \union ({b} \intersect exists)
    /\ UNCHANGED <<provider, exists, removed, parent, secret, mail, history>>

\* Logins of an account: its task's, and the windows'.
Logins(b) == {d \in Calls : call[d].at \in {"waits", "asks", "answers"} /\ call[d].kind = "mail" /\ call[d].account = b}

\* remove_one_account, the shared mailboxes first: the account's task is cut off wherever it is.
RemoveAborts(c, b) ==
    /\ At(c, "remove") /\ IF call[c].todo = {} THEN b = call[c].account ELSE b \in call[c].todo
    /\ \E tasks \in SUBSET Logins(b) :
        /\ call' = [d \in Calls |-> IF d = c THEN [call[c] EXCEPT !.at = "tokens", !.holder = b, !.used = None]
                                    ELSE IF d \in tasks THEN NoCall ELSE call[d]]
        /\ spoiled' = spoiled \union Lost(tasks)
        /\ UNCHANGED <<provider, store, secret, memory, bare>>

RemovesTokens(c) ==
    /\ At(c, "tokens") /\ Free
    /\ mail' = mail \ {call[c].holder}
    /\ call' = [call EXCEPT ![c].at = "row"]
    /\ UNCHANGED <<provider, store, secret, cloud, history>>

RemovesRow(c) ==
    LET b == call[c].holder IN
    /\ At(c, "row")
    /\ exists' = exists \ {b} /\ removed' = removed \union {b}
    /\ noted' = noted \ {b} /\ parent' = [parent EXCEPT ![b] = None] /\ cloud' = [cloud EXCEPT ![b] = None]
    /\ call' = [call EXCEPT ![c].at = "secret"] /\ bare' = bare \ {b}
    /\ UNCHANGED <<provider, secret, mail, spoiled>>

RemovesSecret(c) ==
    LET b == call[c].holder IN
    /\ At(c, "secret")
    /\ secret' = [secret EXCEPT ![b] = None]
    /\ IF b = call[c].account THEN Ends(c) ELSE call' = [call EXCEPT ![c].at = "remove", ![c].holder = Main, ![c].todo = @ \ {b}]
    /\ UNCHANGED <<provider, store, memory, history>>

\* UwUMail ends and starts again; nest_shared_mailboxes sorts what it knows about.  It may have ended
\* once more before it deleted all copies.
Quit ==
    LET nested == Nestable(noted) IN
    /\ Faults
    /\ call' = [c \in Calls |-> NoCall]
    /\ spoiled' = spoiled \union Lost(Calls)
    /\ bare' = bare \union {call[c].holder : c \in {d \in Calls : At(d, "found")}}
    /\ mail' = {} /\ cloud' = [a \in Accounts |-> None]
    /\ parent' = [a \in Accounts |-> IF a \in nested THEN Main ELSE parent[a]]
    /\ \E left \in SUBSET nested : secret' = [a \in Accounts |-> IF a \in nested \ left THEN None ELSE secret[a]]
    /\ UNCHANGED <<provider, exists, removed, noted>>

-----------------------------------------------------------------------------
\* Mailboxes with sign-ins of their own, some known to be the person's, and nested ones without;
\* one sign-in less than the bound was made before, some of them for mailboxes that are gone.
Starts(alone, nested, grant) ==
    /\ exists = alone \union nested
    /\ parent = [a \in Accounts |-> IF a \in nested THEN Main ELSE None]
    /\ issued = MaxGrants - 1 /\ Cardinality(alone) <= issued
    /\ \A a, b \in alone : grant[a] = grant[b] => a = b
    /\ Main \in alone => grant[Main] = 1
    /\ secret = [a \in Accounts |-> IF a \in alone THEN [grant |-> grant[a], turn |-> 0] ELSE None]
    /\ noted \in SUBSET exists /\ Nestable(noted) = {}
    /\ turn = [g \in Grants |-> 0] /\ removed = {} /\ spoiled = {} /\ bare = {}
    /\ mail = {} /\ cloud = [a \in Accounts |-> None]
    /\ call = [c \in Calls |-> NoCall]

Init ==
    \E alone \in SUBSET Accounts : \E nested \in IF Main \in alone THEN SUBSET (Shared \ alone) ELSE {{}} :
        \E grant \in [alone -> 1..Cardinality(alone)] : Starts(alone, nested, grant)

CallStep(c) ==
    \/ NothingToDo(c) \/ TakesLock(c) \/ Redeems(c) \/ IsRefused(c) \/ Saves(c) \/ AnswerLost(c) \/ Notes(c)
    \/ AgainSaves(c) \/ AgainForgets(c) \/ AddsRow(c) \/ Search(c) \/ FoundNests(c) \/ FindsNothing(c)
    \/ Keeps(c) \/ KeptForgets(c) \/ RemovesTokens(c) \/ RemovesRow(c) \/ RemovesSecret(c)
    \/ \E a \in Accounts :
          \/ \E kind \in Kinds : Begins(c, a, kind)
          \/ Nests(c, a) \/ Drops(c, a) \/ Again(c, a) \/ Add(c, a) \/ Finds(c, a) \/ Adopts(c, a)
          \/ Copies(c, a) \/ RemoveAborts(c, a)
          \/ \E op \in {"remove", "keep"} : Remove(c, a, op)

Next == Quit \/ (\E a \in Accounts : Expires(a)) \/ \E c \in Calls : CallStep(c)

Spec == Init /\ [][Next]_vars

-----------------------------------------------------------------------------
(***************************************************************************)
(* Properties.                                                             *)
(***************************************************************************)

Steps == Ops \union {"idle", "waits", "asks", "answers", "notes", "nests", "granted", "forgets", "adds", "found",
                      "adopted", "copied", "kept", "tokens", "row", "secret"}

\* Types; one refresh at a time, of any account; no saved token the provider hasn't given.
TypeOK ==
    /\ issued \in 0..MaxGrants /\ turn \in [Grants -> 0..MaxTurns]
    /\ exists \subseteq Accounts /\ removed \subseteq Accounts \ exists /\ noted \subseteq exists
    /\ parent \in [Accounts -> {Main, None}] /\ parent[Main] = None
    /\ secret \in [Accounts -> Token \union {None}]
    /\ \A a \in Accounts : secret[a] # None => secret[a].grant <= issued /\ secret[a].turn <= turn[secret[a].grant]
    /\ mail \subseteq Accounts /\ cloud \in [Accounts -> 1..issued \union {None}]
    /\ call \in [Calls -> [at : Steps, kind : Kinds, account : Accounts, holder : Accounts,
                           used : Token \union {None}, got : Token \union {None}, todo : SUBSET Shared, done : SUBSET Shared]]
    /\ \A c, d \in Redeeming : c = d
    /\ spoiled \subseteq Grants /\ bare \subseteq Shared

\* The newest token of a sign-in is this one, or on its way to be saved.
Newest(t) == t.turn = turn[t.grant] \/ \E c \in Calls : At(c, "answers") /\ call[c].got.grant = t.grant

\* "Microsoft may hand out a new refresh token with every refresh; the newest is always kept",
\* unless a refresh is cut off or two mailboxes have copies of one sign-in.
NewestIsKept == \A a \in Accounts : secret[a] # None => Newest(secret[a]) \/ secret[a].grant \in spoiled

\* Nobody redeems a token that was replaced: "Microsoft may refuse the old one".
RedeemsNewest == \A c \in Calls : At(c, "asks") => Newest(call[c].used) \/ call[c].used.grant \in spoiled

\* The same, with no refresh cut off.
NewestAlwaysKept == \A a \in Accounts : secret[a] # None => Newest(secret[a])

\* Every mailbox opens with a saved sign-in, its own or its account's, as long as that is there: but
\* for one that is being inserted, and the ones left without.
EachOpens ==
    \A a \in exists : parent[a] \in exists \union {None} =>
        \/ secret[Holder(a)] # None \/ a \in bare
        \/ \E c \in Calls : At(c, "found") /\ call[c].holder = a

\* The same, with nothing left without, by a stop between insert_account and set_account_parent, or
\* by a delete that comes after a removal gave the mailbox its copy.
EachAlwaysOpens ==
    \A a \in exists : parent[a] \in exists \union {None} =>
        secret[Holder(a)] # None \/ \E c \in Calls : At(c, "found") /\ call[c].holder = a

\* sign_in_again has saved the sign-in of this account, and not yet come to its calendars.
Forgetting(a) ==
    \E c \in Calls : call[c].at \in {"notes", "nests", "forgets"} /\ AfterAgain(c) /\ call[c].holder = a

\* After signing in again calendars and contacts ask with that sign-in, not with a token of the one
\* before; a mailbox with a copied sign-in may for the rest of a token's time.
CalendarsUseSaved ==
    \A a \in exists : Holder(a) = a /\ cloud[a] # None /\ secret[a] # None =>
        cloud[a] = secret[a].grant \/ secret[a].grant \in spoiled \/ Forgetting(a)

\* What a refresh replaces in the store is what it redeemed: not a sign-in made meanwhile, though it
\* may be a copy that a removal left there.
ReplacesWhatItRedeemed ==
    [][\A c \in Calls : LET h == call[c].holder IN
          Saves(c) /\ h \in exists /\ secret[h] # None /\ call[c].got # call[c].used =>
             secret[h] = call[c].used \/ secret[h].grant \in spoiled]_vars

=============================================================================
