-------------------------------- MODULE Push --------------------------------
(***************************************************************************)
(* The push subscription of a JMAP account (crates/uwumail-core/src/engine/ *)
(* push_ops.rs and jmap_push.rs).                                           *)
(*                                                                         *)
(* The platform's push service gives UwUMail an endpoint, made for the key  *)
(* the server signs with.  UwUMail subscribes the server to it and keeps a  *)
(* record; the server sends a verification through the endpoint, and pushes *)
(* once its code came back.  The record is looked after: made again when    *)
(* the server lost it or the verification never came, dropped when the      *)
(* server has another key.  One lock lets one of these run at a time;       *)
(* requests fail or are cut off after they were carried out, and messages   *)
(* are late or lost.                                                        *)
(***************************************************************************)
EXTENDS Naturals, FiniteSets

CONSTANTS
    Ids,        \* names for subscriptions; one that nobody knows any more is given again
    None,       \* no subscription, no record
    MaxKeys,    \* bound on the server's keys
    Patience,   \* verifications lost in a row, from which one is waited for longer than it is renewed
    MaxTurns,   \* bound on new endpoints for a key
    MaxFaults   \* bound on what goes wrong, and on switching push off

ASSUME IdsAssumption == IsFiniteSet(Ids) /\ None \notin Ids
ASSUME PatienceAssumption == Patience \in Nat
ASSUME BoundsAssumption == MaxKeys \in Nat \ {0} /\ MaxTurns \in Nat /\ MaxFaults \in Nat

Keys == 1..MaxKeys
Endpoint == [key : Keys, turn : 0..MaxTurns]  \* made for a key, and how often there was another
Sub == [endpoint : Endpoint, verified : BOOLEAN]
\* `lost`: verifications of this endpoint that never came, in a row and up to Patience; `since`: of the two
\* times of maintenance - to wait for a verification, and to renew - how many passed since it was made or renewed.
Record == [id : Ids, endpoint : Endpoint, key : Keys, verified : BOOLEAN, lost : 0..Patience, since : 0..2]
Message == [kind : {"verify"}, id : Ids] \union {[kind |-> "change", id |-> None]}  \* a change names the account
ASSUME RecordAssumption == None \notin Sub \union Record \union Endpoint

VARIABLES
    subs,    \* the server's subscriptions for this device
    key,     \* the key the server signs with
    given,   \* the endpoint the push service gives, None before the first
    handed,  \* whether the platform has handed it to the engine
    msgs,    \* messages on their way
    record,  \* the subscription UwUMail keeps
    known,   \* the key in the session UwUMail has read
    wanted,  \* whether the person wants push
    again,   \* whether the platform was told to register again
    op,      \* what holds the lock
    faults,  \* how much went wrong
    misled   \* the record counts as verified and the server's subscription isn't (no action reads it)

server == <<subs, key, msgs>>
platform == <<given, handed, wanted, again>>
vars == <<subs, key, given, handed, msgs, record, known, wanted, again, op, faults, misled>>

NoOp == [at |-> "idle", next |-> "end", ids |-> {}, endpoint |-> None, lost |-> 0]
At(step) == op.at = step
Ends == op' = NoOp

Live == {i \in Ids : subs[i] # None}

\* Something goes wrong, one time more.
Fault == faults < MaxFaults /\ faults' = faults + 1

Forgets == record' = None /\ misled' = FALSE

-----------------------------------------------------------------------------
(***************************************************************************)
(* The server and the push service (external).                              *)
(***************************************************************************)

\* The push service takes what is signed with the key the endpoint was made for.
Sent(m, endpoint) == IF endpoint.key = key THEN {m} ELSE {}

\* Something changed in the mailbox: the server pushes to what is verified.
ServerPushes(i) ==
    /\ i \in Live /\ subs[i].verified
    /\ msgs' = msgs \union Sent([kind |-> "change", id |-> None], subs[i].endpoint)
    /\ UNCHANGED <<subs, key, platform, record, known, op, faults, misled>>

\* The verification that is waited for, or is about to be.
Awaited(m) == m.kind = "verify" /\ m.id \in op.ids \union {r.id : r \in {record} \ {None}}

\* The push service keeps a message for a time.
MessageLost(m) ==
    /\ m \in msgs /\ msgs' = msgs \ {m}
    /\ IF Awaited(m) THEN Fault ELSE UNCHANGED faults
    /\ UNCHANGED <<subs, key, platform, record, known, op, misled>>

ServerLoses(i) ==
    /\ i \in Live /\ subs' = [subs EXCEPT ![i] = None] /\ Fault
    /\ UNCHANGED <<key, msgs, platform, record, known, op, misled>>

KeyChanges ==
    /\ key < MaxKeys /\ key' = key + 1
    /\ UNCHANGED <<subs, msgs, platform, record, known, op, faults, misled>>

-----------------------------------------------------------------------------
(***************************************************************************)
(* Steps every operation is made of.  Each holds the lock to its end.      *)
(***************************************************************************)

\* destroy `ids`, and then what is next.
Destroying(ids, next) == [NoOp EXCEPT !.at = "destroy", !.ids = ids, !.next = next]
ThenCreates(o, endpoint) == [o EXCEPT !.endpoint = endpoint]

\* Which subscriptions of this device the server has; what can't be read counts as none.
OursAnswer ==
    /\ At("ours")
    /\ \/ op' = [op EXCEPT !.at = "destroy", !.ids = @ \union Live] /\ UNCHANGED faults
       \/ op' = [op EXCEPT !.at = "destroy"] /\ Fault
    /\ UNCHANGED <<server, platform, record, known, misled>>

DestroyCarried ==
    /\ At("destroy") /\ op' = [op EXCEPT !.at = "destroyed"]
    /\ subs' = [i \in Ids |-> IF i \in op.ids THEN None ELSE subs[i]]
    /\ UNCHANGED <<key, msgs, platform, record, known, faults, misled>>

\* An error of it is only logged.
DestroyFails ==
    /\ At("destroy") /\ op' = [op EXCEPT !.at = "destroyed"] /\ Fault
    /\ UNCHANGED <<server, platform, record, known, misled>>

Destroyed ==
    /\ At("destroyed")
    /\ IF op.next = "end" THEN UNCHANGED <<record, misled>> ELSE Forgets
    /\ op' = IF op.next = "create" THEN [op EXCEPT !.at = "create", !.ids = {}] ELSE NoOp
    /\ again' = (again \/ op.next = "register")
    /\ UNCHANGED <<server, given, handed, wanted, known, faults>>

\* A subscription gets a name nobody uses; the server sends its verification.
Unused == Ids \ (Live \union {m.id : m \in msgs} \union {record.id : r \in {record} \ {None}})

CreateCarried ==
    \E i \in Unused :
        /\ At("create") /\ op' = [op EXCEPT !.at = "created", !.ids = {i}]
        /\ subs' = [subs EXCEPT ![i] = [endpoint |-> op.endpoint, verified |-> FALSE]]
        /\ msgs' = msgs \union Sent([kind |-> "verify", id |-> i], op.endpoint)
        /\ UNCHANGED <<key, platform, record, known, faults, misled>>

\* create_push keeps it, and looks for another key when the answer says the session is old.
Created ==
    \E i \in op.ids :
        /\ At("created")
        /\ record' = [id |-> i, endpoint |-> op.endpoint, key |-> known, verified |-> FALSE, lost |-> op.lost,
                      since |-> 0]
        /\ misled' = FALSE
        /\ \/ known = key /\ Ends /\ UNCHANGED <<known, faults>>
           \/ known # key /\ known' = key /\ op' = Destroying({i}, "register") /\ UNCHANGED faults
           \/ known # key /\ Ends /\ Fault /\ UNCHANGED known
        /\ UNCHANGED <<server, platform>>

\* A request fails, or the operation is cut off: by its time limit, or because UwUMail ends.
Cut ==
    /\ ~At("idle") /\ Ends /\ Fault
    /\ UNCHANGED <<server, platform, record, known, misled>>

-----------------------------------------------------------------------------
(***************************************************************************)
(* The operations.                                                         *)
(***************************************************************************)

\* The session is read again: at a start, or by a sync.
ReadsSession ==
    /\ known # key /\ At("idle") /\ known' = key
    /\ UNCHANGED <<server, platform, record, op, faults, misled>>

\* Each verification that never came doubles the wait for the next, which renewing starts anew.
VerificationLost == ~record.verified /\ record.since >= (IF record.lost < Patience THEN 1 ELSE 2)
RenewalDue == record.since >= (IF record.lost < Patience THEN 2 ELSE 1)
OnItsWay == [kind |-> "verify", id |-> record.id] \in msgs

\* maintain_push: another key drops it, a verification that never came makes it anew, and renewing
\* it finds out whether the server still has it.
Maintains ==
    \/ known # record.key /\ op' = Destroying({record.id}, "register") /\ UNCHANGED faults
    \/ /\ known = record.key /\ VerificationLost
       /\ IF OnItsWay THEN Fault ELSE UNCHANGED faults
       /\ op' = [ThenCreates(Destroying({record.id}, "create"), record.endpoint) EXCEPT
                     !.lost = IF record.lost < Patience THEN record.lost + 1 ELSE Patience]
    \/ /\ known = record.key /\ ~VerificationLost /\ RenewalDue
       /\ op' = ThenCreates([NoOp EXCEPT !.at = "renew"], record.endpoint) /\ UNCHANGED faults
    \/ known = record.key /\ ~VerificationLost /\ ~RenewalDue /\ op' = NoOp /\ UNCHANGED faults

\* push_maintain and check_push.
Maintain ==
    /\ At("idle") /\ record # None /\ Maintains
    /\ UNCHANGED <<server, platform, record, known, misled>>

\* Mutant: a subscription the server lost counts as renewed.
RenewsWhatIsGone ==
    /\ At("renew") /\ Ends /\ record' = [record EXCEPT !.since = 0]
    /\ UNCHANGED <<server, platform, known, faults, misled>>

RenewAnswer ==
    /\ At("renew") /\ record # None
    /\ IF record.id \in Live THEN Ends /\ record' = [record EXCEPT !.since = 0] /\ UNCHANGED misled
       ELSE Forgets /\ op' = [op EXCEPT !.at = "create"]
    /\ UNCHANGED <<server, platform, known, faults>>

TimePasses ==
    /\ record # None /\ record.since < 2 /\ record' = [record EXCEPT !.since = @ + 1]
    /\ UNCHANGED <<server, platform, known, op, faults, misled>>

\* The platform registers the account, at every start and when it is told to: it gets the same
\* endpoint again, or a new one where the key or the distributor changed.
Register ==
    /\ wanted /\ again' = FALSE /\ handed' = FALSE
    /\ \/ given = None /\ given' = [key |-> known, turn |-> 0]
       \/ given # None /\ given' = [given EXCEPT !.key = known]
       \/ given # None /\ given.turn < MaxTurns /\ given' = [given EXCEPT !.key = known, !.turn = @ + 1]
    /\ UNCHANGED <<server, wanted, record, known, op, faults, misled>>

\* The endpoint comes, some time later.
Handed == At("idle") /\ wanted /\ ~handed /\ given # None /\ handed' = TRUE

\* Mutant: what the record names isn't among what has to go.
SubscribeKeepsOld ==
    /\ Handed
    /\ IF record # None /\ record.endpoint = given /\ record.key = known
       THEN Maintains
       ELSE op' = ThenCreates(Destroying({}, "create"), given) /\ UNCHANGED faults
    /\ UNCHANGED <<server, given, wanted, again, record, known, misled>>

\* push_subscribe: the same endpoint is looked after, any other replaces what there is.
Subscribe ==
    /\ Handed
    /\ IF record # None /\ record.endpoint = given /\ record.key = known
       THEN Maintains
       ELSE /\ op' = ThenCreates([Destroying({r.id : r \in {record} \ {None}}, "create") EXCEPT !.at = "ours"], given)
            /\ UNCHANGED faults
    /\ UNCHANGED <<server, given, wanted, again, record, known, misled>>

\* Mutant: forgotten when the server has answered.
ForgottenLast ==
    /\ At("idle") /\ wanted /\ wanted' = FALSE /\ Fault
    /\ op' = IF record = None THEN NoOp ELSE Destroying({record.id}, "register")
    /\ UNCHANGED <<server, given, handed, again, known, record, misled>>

\* push_unsubscribe: forgotten first.
Unsubscribe ==
    /\ At("idle") /\ wanted /\ wanted' = FALSE /\ Fault
    /\ op' = IF record = None THEN NoOp ELSE Destroying({record.id}, "end")
    /\ Forgets
    /\ UNCHANGED <<server, given, handed, again, known>>

SwitchedOn ==
    /\ ~wanted /\ At("idle") /\ wanted' = TRUE /\ again' = TRUE
    /\ UNCHANGED <<server, given, handed, record, known, op, faults, misled>>

\* Mutant: any subscription's verification is answered.
VerifiesAny(m) ==
    /\ m \in msgs /\ m.kind = "verify" /\ msgs' = msgs \ {m} /\ At("idle")
    /\ op' = IF record # None /\ ~record.verified THEN [NoOp EXCEPT !.at = "verify", !.ids = {m.id}] ELSE NoOp
    /\ UNCHANGED <<subs, key, platform, record, known, faults, misled>>

\* push_received, a verification: only the subscription UwUMail keeps is answered.
VerificationArrives(m) ==
    /\ m \in msgs /\ m.kind = "verify" /\ msgs' = msgs \ {m} /\ At("idle")
    /\ op' = IF record # None /\ record.id = m.id /\ ~record.verified
             THEN [NoOp EXCEPT !.at = "verify", !.ids = {m.id}] ELSE NoOp
    /\ UNCHANGED <<subs, key, platform, record, known, faults, misled>>

VerifyCarried ==
    \E i \in op.ids :
        /\ At("verify")
        /\ IF i \in Live THEN subs' = [subs EXCEPT ![i].verified = TRUE] /\ op' = [op EXCEPT !.at = "verified"]
           ELSE Ends /\ UNCHANGED subs
        /\ UNCHANGED <<key, msgs, platform, record, known, faults, misled>>

Verified ==
    /\ At("verified") /\ Ends
    /\ record' = [record EXCEPT !.verified = TRUE, !.lost = 0]
    /\ UNCHANGED <<server, platform, known, faults, misled>>

\* push_received, a state change: while nothing holds the lock, it verifies what is kept.
ChangeArrives(m) ==
    /\ m \in msgs /\ m.kind = "change" /\ msgs' = msgs \ {m}
    /\ IF At("idle") /\ record # None /\ ~record.verified
       THEN /\ record' = [record EXCEPT !.verified = TRUE, !.lost = 0]
            /\ misled' = (record.id \in Live /\ ~subs[record.id].verified)
       ELSE UNCHANGED <<record, misled>>
    /\ UNCHANGED <<subs, key, platform, known, op, faults>>

-----------------------------------------------------------------------------
Init ==
    /\ subs = [i \in Ids |-> None] /\ key = 1 /\ msgs = {}
    /\ given = None /\ handed = TRUE /\ wanted = TRUE /\ again = TRUE
    /\ record = None /\ known = 1 /\ op = NoOp /\ faults = 0 /\ misled = FALSE

OpStep ==
    \/ OursAnswer \/ DestroyCarried \/ DestroyFails \/ Destroyed \/ CreateCarried \/ Created
    \/ RenewAnswer \/ VerifyCarried \/ Verified

Next ==
    \/ OpStep \/ Cut \/ KeyChanges \/ ReadsSession \/ TimePasses
    \/ Maintain \/ Register \/ Subscribe \/ Unsubscribe \/ SwitchedOn
    \/ \E i \in Ids : ServerPushes(i) \/ ServerLoses(i)
    \/ \E m \in Message : MessageLost(m) \/ VerificationArrives(m) \/ ChangeArrives(m)

Spec == Init /\ [][Next]_vars

\* Requests are answered, messages arrive and time passes; maintenance and starts come again and again.
Fairness ==
    /\ \A m \in Message : WF_vars(m.id # None /\ ~Awaited(m) /\ MessageLost(m))
    /\ WF_vars(OpStep) /\ WF_vars(TimePasses) /\ SF_vars(Maintain) /\ SF_vars(Register) /\ SF_vars(Subscribe) /\ SF_vars(ReadsSession)
    /\ SF_vars(\E m \in Message : Awaited(m) /\ VerificationArrives(m))
FairSpec == Spec /\ Fairness

-----------------------------------------------------------------------------
(***************************************************************************)
(* Properties.                                                             *)
(***************************************************************************)

Steps == {"idle", "ours", "destroy", "destroyed", "create", "created", "renew", "verify", "verified"}

\* Types; an operation holds what it is about, and push that was switched off is forgotten at once: only
\* what destroys the subscription still runs.
TypeOK ==
    /\ subs \in [Ids -> Sub \union {None}] /\ key \in Keys /\ msgs \subseteq Message
    /\ given \in Endpoint \union {None} /\ {handed, wanted, again, misled} \subseteq BOOLEAN
    /\ record \in Record \union {None} /\ known \in 1..key /\ faults \in 0..MaxFaults
    /\ op \in [at : Steps, next : {"end", "create", "register"}, ids : SUBSET Ids, endpoint : Endpoint \union {None},
              lost : 0..Patience]
    /\ At("verify") \/ At("verified") \/ At("renew") => record # None
    /\ At("verify") => op.ids = {record.id}
    /\ At("create") \/ At("created") => record = None
    /\ At("renew") \/ At("create") \/ At("created") \/ op.next = "create" => op.endpoint # None
    /\ ~wanted => record = None /\ op.next = "end" /\ op.at \in {"idle", "destroy", "destroyed"}

\* "UwUMail still has to stay connected itself" unless every account gets its mail through push: what
\* counts as verified the server pushes to, or has lost; unless a change of another one misled UwUMail.
CountedIsPushed ==
    record # None /\ record.verified /\ ~misled => record.id \notin Live \/ subs[record.id].verified

\* The same, whatever misled it.
CountedIsAlwaysPushed == record # None /\ record.verified => record.id \notin Live \/ subs[record.id].verified

\* "One subscription per account": another is left on the server only where something failed.
OneIsKept == Cardinality(Live \ (op.ids \union {r.id : r \in {record} \ {None}})) <= faults

Works ==
    /\ record # None /\ record.verified
    /\ record.id \in Live /\ subs[record.id].verified /\ subs[record.id].endpoint.key = key

\* So often in a row a verification never came that it is renewed before it would be made anew.
Outlasted == record # None /\ ~record.verified /\ record.lost >= Patience

\* "Made again when the server lost it or its verification never came, and dropped when the server's
\* push key changed": once nothing goes wrong any more, the server pushes; but for one it is renewed too
\* often to be made anew.
Heals == <>[](wanted => Works \/ misled \/ Outlasted)

\* The same, however often verifications were lost.
AlwaysHeals == <>[](wanted => Works \/ misled)

=============================================================================
