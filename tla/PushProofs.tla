------------------------------ MODULE PushProofs ------------------------------
(***************************************************************************)
(* Theorems about Push, for any names and bounds: its types, that what      *)
(* counts as verified the server pushes to, and that no more subscriptions  *)
(* are left behind on the server than things went wrong.                    *)
(***************************************************************************)
EXTENDS Push, FiniteSetTheorems, TLAPS

\* TypeOK, in the parts a step disturbs.
ServerOK == subs \in [Ids -> Sub \union {None}] /\ key \in Keys /\ msgs \subseteq Message
PlatformOK == given \in Endpoint \union {None} /\ handed \in BOOLEAN /\ wanted \in BOOLEAN /\ again \in BOOLEAN
RecordOK == record \in Record \union {None} /\ known \in 1..key
HistoryOK == misled \in BOOLEAN /\ faults \in 0..MaxFaults
OpOK ==
    op \in [at : Steps, next : {"end", "create", "register"}, ids : SUBSET Ids, endpoint : Endpoint \union {None},
           lost : 0..Patience]
HoldsOK ==
    /\ At("verify") \/ At("verified") \/ At("renew") => record # None
    /\ At("verify") => op.ids = {record.id}
    /\ At("create") \/ At("created") => record = None
    /\ At("renew") \/ At("create") \/ At("created") \/ op.next = "create" => op.endpoint # None
WantedOK == ~wanted => record = None /\ op.next = "end" /\ op.at \in {"idle", "destroy", "destroyed"}

LEMMA Parts == TypeOK <=> ServerOK /\ PlatformOK /\ RecordOK /\ HistoryOK /\ OpOK /\ HoldsOK /\ WantedOK
  BY DEF TypeOK, ServerOK, PlatformOK, RecordOK, HistoryOK, OpOK, HoldsOK, WantedOK

LEMMA PartsAfter ==
  ServerOK' /\ PlatformOK' /\ RecordOK' /\ HistoryOK' /\ OpOK' /\ HoldsOK' /\ WantedOK' => TypeOK'
  BY DEF TypeOK, ServerOK, PlatformOK, RecordOK, HistoryOK, OpOK, HoldsOK, WantedOK, At

-----------------------------------------------------------------------------
(***************************************************************************)
(* Types.                                                                  *)
(***************************************************************************)

\* The record's name is a name.
LEMMA RecordIds == ASSUME TypeOK PROVE {r.id : r \in {record} \ {None}} \subseteq Ids /\ (record # None => record.id \in Ids)
  BY DEF TypeOK, Record

LEMMA NoneLost == 0 \in 0..Patience
  BY PatienceAssumption

\* A record that is verified, renewed or gets older is the record of the same subscription.
LEMMA SameRecord ==
  ASSUME TypeOK, record # None,
         \/ record' = [record EXCEPT !.since = 0]
         \/ record.since < 2 /\ record' = [record EXCEPT !.since = @ + 1]
         \/ record' = [record EXCEPT !.verified = TRUE, !.lost = 0]
  PROVE  record' \in Record /\ record' # None /\ record'.id = record.id
<1>1. record \in Record
  BY DEF TypeOK
<1>2. record.since < 2 => record.since + 1 \in 0..2
  BY <1>1 DEF Record
<1>3. CASE record' = [record EXCEPT !.since = 0]
  BY <1>1, <1>3, RecordAssumption DEF Record
<1>4. CASE record.since < 2 /\ record' = [record EXCEPT !.since = @ + 1]
  <2>1. record' = [record EXCEPT !.since = record.since + 1]
    BY <1>1, <1>4 DEF Record
  <2> QED
    BY <1>1, <1>2, <1>4, <2>1, RecordAssumption DEF Record
<1>5. CASE record' = [record EXCEPT !.verified = TRUE, !.lost = 0]
  BY <1>1, <1>5, NoneLost, RecordAssumption DEF Record
<1> QED
  BY <1>3, <1>4, <1>5

LEMMA InitTypes == Init => TypeOK
<1> SUFFICES ASSUME Init PROVE TypeOK
  OBVIOUS
<1>1. ServerOK /\ RecordOK
  BY BoundsAssumption DEF Init, ServerOK, RecordOK, Keys
<1>2. PlatformOK /\ HistoryOK
  <2>1. faults \in 0..MaxFaults
    BY BoundsAssumption DEF Init
  <2> QED
    BY <2>1, Zenon DEF Init, PlatformOK, HistoryOK
<1>3. OpOK /\ HoldsOK /\ WantedOK
  BY NoneLost DEF Init, OpOK, HoldsOK, WantedOK, NoOp, At, Steps
<1> QED
  BY <1>1, <1>2, <1>3, Parts

LEMMA FaultType == ASSUME HistoryOK, Fault PROVE faults' \in 0..MaxFaults
  BY BoundsAssumption DEF HistoryOK, Fault

\* What an operation begins with.
LEMMA NoOpIs == NoOp.at = "idle" /\ NoOp.ids = {}
  BY DEF NoOp
LEMMA DestroyingIs ==
  ASSUME NEW ids, NEW next PROVE Destroying(ids, next).at = "destroy" /\ Destroying(ids, next).ids = ids
  BY DEF NoOp, Destroying
LEMMA OursIs ==
  ASSUME NEW o, NEW ids, NEW next, NEW e, o = ThenCreates([Destroying(ids, next) EXCEPT !.at = "ours"], e)
  PROVE  o.at = "ours" /\ o.ids = ids
  BY DEF NoOp, Destroying, ThenCreates

\* The operation ends.
LEMMA EndsTypes == ASSUME Ends PROVE OpOK' /\ At("idle")' /\ op'.next = "end" /\ op'.ids = {}
  BY NoneLost DEF Ends, OpOK, NoOp, Steps, At

\* The server and the push service.
LEMMA ServerTypes ==
  ASSUME TypeOK,
         \/ KeyChanges
         \/ \E i \in Ids : ServerPushes(i) \/ ServerLoses(i)
         \/ \E m \in Message : MessageLost(m)
  PROVE  TypeOK'
<1> USE DEF server, platform
<1>0. ServerOK /\ PlatformOK /\ RecordOK /\ HistoryOK /\ OpOK /\ HoldsOK /\ WantedOK
  BY Parts
<1>1. ServerOK'
  BY <1>0, BoundsAssumption DEF ServerOK, ServerPushes, MessageLost, ServerLoses, KeyChanges, Sent, Message, Keys
<1>2. RecordOK'
  BY <1>0, BoundsAssumption DEF ServerOK, Keys, RecordOK, ServerPushes, MessageLost, ServerLoses, KeyChanges
<1>3. HistoryOK'
  <2>1. faults' \in 0..MaxFaults
    BY <1>0, FaultType DEF ServerPushes, MessageLost, ServerLoses, KeyChanges, HistoryOK
  <2> QED
    BY <2>1, <1>0 DEF ServerPushes, MessageLost, ServerLoses, KeyChanges, HistoryOK
<1>4. UNCHANGED <<platform, record, op>>
  BY DEF ServerPushes, MessageLost, ServerLoses, KeyChanges
<1>5. PlatformOK' /\ OpOK' /\ HoldsOK' /\ WantedOK'
  BY <1>0, <1>4 DEF PlatformOK, OpOK, HoldsOK, WantedOK, At
<1> QED
  BY <1>1, <1>2, <1>3, <1>5, PartsAfter

\* Steps that leave the record and the keys alone.
LEMMA RequestTypes ==
  ASSUME TypeOK, OursAnswer \/ DestroyCarried \/ DestroyFails \/ Cut
  PROVE  TypeOK'
<1> USE DEF server, platform
<1>0. ServerOK /\ PlatformOK /\ RecordOK /\ HistoryOK /\ OpOK /\ HoldsOK /\ WantedOK
  BY Parts
<1>1. ServerOK'
  BY <1>0 DEF ServerOK, OursAnswer, DestroyCarried, DestroyFails, Cut
<1>2. RecordOK' /\ PlatformOK'
  BY <1>0 DEF RecordOK, PlatformOK, OursAnswer, DestroyCarried, DestroyFails, Cut
<1>3. HistoryOK'
  <2>1. faults' \in 0..MaxFaults
    BY <1>0, FaultType DEF OursAnswer, DestroyCarried, DestroyFails, Cut, HistoryOK
  <2> QED
    BY <2>1, <1>0 DEF OursAnswer, DestroyCarried, DestroyFails, Cut, HistoryOK
<1>4. OpOK'
  BY <1>0, EndsTypes DEF OpOK, OursAnswer, DestroyCarried, DestroyFails, Cut, Live, Steps, At
<1>5. HoldsOK' /\ WantedOK'
  BY <1>0, EndsTypes DEF OpOK, HoldsOK, WantedOK, OursAnswer, DestroyCarried, DestroyFails, Cut, At
<1> QED
  BY <1>1, <1>2, <1>3, <1>4, <1>5, PartsAfter

LEMMA DestroyedTypes == ASSUME TypeOK, Destroyed PROVE TypeOK'
<1> USE DEF server
<1>0. ServerOK /\ PlatformOK /\ RecordOK /\ HistoryOK /\ OpOK /\ HoldsOK /\ WantedOK
  BY Parts
<1>1. ServerOK' /\ RecordOK' /\ HistoryOK'
  BY <1>0 DEF ServerOK, RecordOK, HistoryOK, Destroyed, Forgets
<1>2. PlatformOK'
  <2>1. again' \in BOOLEAN
    BY DEF Destroyed
  <2> QED
    BY <1>0, <2>1 DEF Destroyed, PlatformOK
<1>3. OpOK'
  BY <1>0, NoneLost DEF OpOK, Destroyed, NoOp, Steps
<1>4. HoldsOK' /\ WantedOK'
  BY <1>0 DEF OpOK, HoldsOK, WantedOK, Destroyed, NoOp, At, Forgets
<1> QED
  BY <1>1, <1>2, <1>3, <1>4, PartsAfter

LEMMA CreateTypes == ASSUME TypeOK, CreateCarried \/ Created PROVE TypeOK'
<1> USE DEF server, platform
<1>0. ServerOK /\ PlatformOK /\ RecordOK /\ HistoryOK /\ OpOK /\ HoldsOK /\ WantedOK
  BY Parts
<1>1. CASE CreateCarried
  <2>1. PICK i \in Unused :
          /\ op' = [op EXCEPT !.at = "created", !.ids = {i}]
          /\ subs' = [subs EXCEPT ![i] = [endpoint |-> op.endpoint, verified |-> FALSE]]
          /\ msgs' = msgs \union Sent([kind |-> "verify", id |-> i], op.endpoint)
    BY <1>1 DEF CreateCarried
  <2>2. At("create") /\ UNCHANGED <<key, platform, record, known, faults, misled>>
    BY <1>1 DEF CreateCarried
  <2>3. i \in Ids /\ op.endpoint \in Endpoint
    BY <1>0, <2>2 DEF Unused, OpOK, HoldsOK
  <2>4. ServerOK'
    BY <1>0, <2>1, <2>2, <2>3 DEF ServerOK, Sub, Message, Sent
  <2>5. OpOK'
    BY <1>0, <2>1, <2>3 DEF OpOK, Steps
  <2>6. HoldsOK' /\ WantedOK'
    BY <1>0, <2>1, <2>2, <2>3 DEF OpOK, HoldsOK, WantedOK, At
  <2>7. PlatformOK' /\ RecordOK' /\ HistoryOK'
    BY <1>0, <2>2 DEF PlatformOK, RecordOK, HistoryOK
  <2> QED
    BY <2>4, <2>5, <2>6, <2>7, PartsAfter
<1>2. CASE Created
  <2>1. PICK i \in op.ids : 
          /\ record' = [id |-> i, endpoint |-> op.endpoint, key |-> known, verified |-> FALSE, lost |-> op.lost,
                        since |-> 0]
          /\ \/ Ends /\ UNCHANGED <<known, faults>>
             \/ known' = key /\ op' = Destroying({i}, "register") /\ UNCHANGED faults
             \/ Ends /\ Fault /\ UNCHANGED known
    BY <1>2 DEF Created
  <2>2. At("created") /\ misled' = FALSE /\ UNCHANGED <<server, platform>>
    BY <1>2 DEF Created
  <2>3. i \in Ids /\ op.endpoint \in Endpoint /\ known \in Keys /\ key \in Keys /\ known' \in 1..key
        /\ op.lost \in 0..Patience
    BY <1>0, <2>1, <2>2, BoundsAssumption DEF OpOK, HoldsOK, RecordOK, ServerOK, Keys
  <2>4. RecordOK'
    BY <2>1, <2>2, <2>3 DEF RecordOK, Record
  <2>5. HistoryOK'
    BY <2>1, <2>2, <1>0, FaultType DEF HistoryOK
  <2>6. OpOK' /\ op'.at \in {"idle", "destroy"} /\ op'.next # "create"
    <3>1. CASE Ends
      BY <3>1, NoneLost DEF OpOK, Ends, NoOp, Steps
    <3>2. CASE op' = Destroying({i}, "register")
      BY <3>2, <2>3, NoneLost DEF OpOK, Destroying, NoOp, Steps
    <3> QED
      BY <2>1, <3>1, <3>2
  <2>7. ServerOK' /\ PlatformOK'
    BY <1>0, <2>2 DEF ServerOK, PlatformOK
  <2>8. wanted'
    BY <1>0, <2>2 DEF WantedOK, At
  <2>9. HoldsOK' /\ WantedOK'
    BY <2>6, <2>8 DEF HoldsOK, WantedOK, At
  <2> QED
    BY <2>4, <2>5, <2>6, <2>7, <2>9, PartsAfter
<1> QED
  BY <1>1, <1>2

\* What maintenance goes on with.
LEMMA MaintainsGives ==
  ASSUME TypeOK, record # None, wanted, Maintains
  PROVE  OpOK' /\ op'.at \in {"destroy", "renew", "idle"} /\ faults' \in 0..MaxFaults
         /\ (op'.next = "create" => op'.endpoint # None) /\ (op'.at = "renew" => op'.endpoint # None)
<1>0. ServerOK /\ RecordOK /\ HistoryOK /\ OpOK
  BY Parts
<1>1. /\ record.id \in Ids /\ record.endpoint \in Endpoint /\ record.endpoint # None
      /\ (IF record.lost < Patience THEN record.lost + 1 ELSE Patience) \in 0..Patience
  BY <1>0, RecordAssumption, PatienceAssumption DEF RecordOK, Record
<1> DEFINE lost == IF record.lost < Patience THEN record.lost + 1 ELSE Patience
<1>2. op' \in {Destroying({record.id}, "register"), NoOp,
              [ThenCreates(Destroying({record.id}, "create"), record.endpoint) EXCEPT !.lost = lost],
              ThenCreates([NoOp EXCEPT !.at = "renew"], record.endpoint)}
  BY DEF Maintains
<1> HIDE DEF lost
<1>3. faults' \in 0..MaxFaults
  BY <1>0, FaultType DEF Maintains, HistoryOK
<1>4. CASE op' = Destroying({record.id}, "register")
  BY <1>1, <1>3, <1>4, NoneLost DEF OpOK, Destroying, NoOp, Steps
<1>5. CASE op' = [ThenCreates(Destroying({record.id}, "create"), record.endpoint) EXCEPT !.lost = lost]
  <2>1. lost \in 0..Patience
    BY <1>1 DEF lost
  <2> QED
    BY <1>1, <1>3, <1>5, <2>1 DEF OpOK, Destroying, ThenCreates, NoOp, Steps
<1>6. CASE op' = ThenCreates([NoOp EXCEPT !.at = "renew"], record.endpoint)
  BY <1>1, <1>3, <1>6, NoneLost DEF OpOK, ThenCreates, NoOp, Steps
<1>7. CASE op' = NoOp
  BY <1>3, <1>7, NoneLost DEF OpOK, NoOp, Steps
<1> QED
  BY <1>2, <1>4, <1>5, <1>6, <1>7

LEMMA MaintainTypes == ASSUME TypeOK, Maintain PROVE TypeOK'
<1> USE DEF server, platform
<1>0. ServerOK /\ PlatformOK /\ RecordOK /\ HistoryOK /\ OpOK /\ HoldsOK /\ WantedOK
  BY Parts
<1>1. record # None /\ wanted /\ Maintains /\ UNCHANGED <<server, platform, record, known, misled>>
  BY <1>0 DEF Maintain, WantedOK
<1>2. ServerOK' /\ PlatformOK' /\ RecordOK'
  BY <1>0, <1>1 DEF ServerOK, PlatformOK, RecordOK
<1>3. OpOK' /\ HistoryOK'
  BY <1>0, <1>1, MaintainsGives DEF HistoryOK
<1>4. HoldsOK' /\ WantedOK'
  BY <1>1, MaintainsGives DEF HoldsOK, WantedOK, At
<1> QED
  BY <1>2, <1>3, <1>4, PartsAfter

LEMMA SubscribeTypes == ASSUME TypeOK, Subscribe PROVE TypeOK'
<1> USE DEF server
<1>0. ServerOK /\ PlatformOK /\ RecordOK /\ HistoryOK /\ OpOK /\ HoldsOK /\ WantedOK
  BY Parts
<1>1. At("idle") /\ wanted /\ wanted' = wanted /\ given # None /\ handed' = TRUE
      /\ UNCHANGED <<server, given, again, record, known, misled>>
  BY DEF Subscribe, Handed
<1>2. ServerOK' /\ PlatformOK' /\ RecordOK'
  BY <1>0, <1>1 DEF ServerOK, PlatformOK, RecordOK
<1>3. OpOK' /\ faults' \in 0..MaxFaults /\ op'.at \in {"destroy", "renew", "idle", "ours"}
      /\ (op'.next = "create" => op'.endpoint # None) /\ (op'.at = "renew" => op'.endpoint # None /\ record # None)
  <2>1. CASE record # None /\ Maintains
    BY <2>1, <1>1, MaintainsGives
  <2>2. CASE op' = ThenCreates([Destroying({r.id : r \in {record} \ {None}}, "create") EXCEPT !.at = "ours"], given)
             /\ UNCHANGED faults
    <3>1. given \in Endpoint /\ {r.id : r \in {record} \ {None}} \in SUBSET Ids
      BY <1>0, <1>1, RecordIds DEF PlatformOK
    <3> DEFINE ids == {r.id : r \in {record} \ {None}}
    <3>2. op' = ThenCreates([Destroying(ids, "create") EXCEPT !.at = "ours"], given) /\ ids \in SUBSET Ids
      BY <2>2, <3>1
    <3> HIDE DEF ids
    <3> QED
      BY <3>1, <3>2, <2>2, <1>0, <1>1, NoneLost DEF OpOK, Destroying, ThenCreates, NoOp, Steps, HistoryOK
  <2> QED
    BY <2>1, <2>2 DEF Subscribe
<1>4. HoldsOK' /\ WantedOK' /\ HistoryOK'
  BY <1>0, <1>1, <1>3 DEF HoldsOK, WantedOK, At, HistoryOK
<1> QED
  BY <1>2, <1>3, <1>4, PartsAfter

\* Renewing, verifying, what arrives.
LEMMA AnswerTypes ==
  ASSUME TypeOK,
         \/ RenewAnswer \/ VerifyCarried \/ Verified
         \/ \E m \in Message : VerificationArrives(m) \/ ChangeArrives(m)
  PROVE  TypeOK'
<1> USE DEF server, platform
<1>0. ServerOK /\ PlatformOK /\ RecordOK /\ HistoryOK /\ OpOK /\ HoldsOK /\ WantedOK
  BY Parts
<1>1. UNCHANGED <<platform, key, known, faults>>
  BY DEF RenewAnswer, VerifyCarried, Verified, VerificationArrives, ChangeArrives
<1>2. PlatformOK' /\ HistoryOK'
  <2>1. misled' \in BOOLEAN
    BY <1>0 DEF RenewAnswer, VerifyCarried, Verified, VerificationArrives, ChangeArrives, Forgets, HistoryOK
  <2> QED
    BY <1>0, <1>1, <2>1 DEF PlatformOK, HistoryOK
<1>3. CASE RenewAnswer
  <2>0. record' = None \/ (Ends /\ record' \in Record)
    BY <1>3, SameRecord DEF RenewAnswer, Forgets
  <2>1. ServerOK' /\ RecordOK'
    BY <1>0, <1>1, <1>3, <2>0 DEF RenewAnswer, ServerOK, RecordOK
  <2>2. OpOK'
    BY <1>0, <1>3, NoneLost DEF RenewAnswer, OpOK, Ends, NoOp, Steps
  <2>3. wanted'
    BY <1>0, <1>1, <1>3 DEF RenewAnswer, WantedOK, At
  <2>4. HoldsOK' /\ WantedOK'
    BY <1>0, <1>3, <2>3 DEF RenewAnswer, HoldsOK, WantedOK, At, Ends, NoOp, OpOK, Forgets
  <2> QED
    BY <1>2, <2>1, <2>2, <2>4, PartsAfter
<1>4. CASE VerifyCarried
  <2>1. PICK i \in op.ids :
          IF i \in Live THEN subs' = [subs EXCEPT ![i].verified = TRUE] /\ op' = [op EXCEPT !.at = "verified"]
          ELSE Ends /\ UNCHANGED subs
    BY <1>4 DEF VerifyCarried
  <2>2. At("verify") /\ UNCHANGED <<msgs, record>>
    BY <1>4 DEF VerifyCarried
  <2>3. i \in Ids /\ record # None /\ wanted
    BY <1>0, <2>2 DEF OpOK, HoldsOK, WantedOK, At
  <2>4. ServerOK' /\ RecordOK'
    BY <1>0, <1>1, <2>1, <2>2, <2>3 DEF ServerOK, RecordOK, Live, Sub
  <2>5. OpOK'
    BY <1>0, <2>1, NoneLost DEF OpOK, Ends, NoOp, Steps
  <2>6. HoldsOK' /\ WantedOK'
    BY <1>0, <1>1, <2>1, <2>2, <2>3 DEF HoldsOK, WantedOK, At, Ends, NoOp, OpOK
  <2> QED
    BY <1>2, <2>4, <2>5, <2>6, PartsAfter
<1>5. CASE Verified
  <2>1. record # None /\ wanted
    BY <1>0, <1>5 DEF Verified, HoldsOK, WantedOK, At
  <2>2. ServerOK' /\ RecordOK'
    BY <1>0, <1>1, <1>5, <2>1, SameRecord DEF Verified, ServerOK, RecordOK
  <2>3. OpOK' /\ HoldsOK' /\ WantedOK'
    BY <1>1, <1>5, <2>1, NoneLost DEF Verified, Ends, NoOp, OpOK, Steps, HoldsOK, WantedOK, At
  <2> QED
    BY <1>2, <2>2, <2>3, PartsAfter
<1>6. ASSUME NEW m \in Message, VerificationArrives(m) PROVE TypeOK'
  <2>1. ServerOK' /\ RecordOK'
    BY <1>0, <1>1, <1>6 DEF VerificationArrives, ServerOK, RecordOK
  <2>2. m.kind = "verify" => m.id \in Ids
    BY DEF Message
  <2>3. OpOK'
    BY <1>6, <2>2, NoneLost DEF VerificationArrives, OpOK, NoOp, Steps
  <2>4. HoldsOK' /\ WantedOK'
    <3>1. UNCHANGED <<record, wanted>>
      BY <1>1, <1>6 DEF VerificationArrives
    <3>2. CASE op' = NoOp
      BY <1>0, <3>1, <3>2 DEF HoldsOK, WantedOK, At, NoOp
    <3>3. CASE record # None /\ record.id = m.id /\ op' = [NoOp EXCEPT !.at = "verify", !.ids = {m.id}]
      BY <1>0, <3>1, <3>3 DEF HoldsOK, WantedOK, At, NoOp
    <3> QED
      BY <1>6, <3>2, <3>3 DEF VerificationArrives
  <2> QED
    BY <1>2, <2>1, <2>3, <2>4, PartsAfter
<1>7. ASSUME NEW m \in Message, ChangeArrives(m) PROVE TypeOK'
  <2>1. op' = op /\ msgs' \subseteq msgs /\ subs' = subs
    BY <1>7 DEF ChangeArrives
  <2>2. CASE record' = record
    BY <1>0, <1>1, <1>2, <2>1, <2>2, PartsAfter DEF ServerOK, RecordOK, OpOK, HoldsOK, WantedOK, At
  <2>3. CASE At("idle") /\ record # None /\ record' = [record EXCEPT !.verified = TRUE, !.lost = 0]
    <3>1. RecordOK' /\ record' # None
      BY <1>0, <1>1, <2>3, SameRecord DEF RecordOK
    <3>2. HoldsOK' /\ WantedOK'
      BY <1>0, <1>1, <2>1, <2>3, <3>1 DEF HoldsOK, WantedOK, At
    <3> QED
      BY <1>0, <1>1, <1>2, <2>1, <3>1, <3>2, PartsAfter DEF ServerOK, OpOK
  <2> QED
    BY <1>7, <2>2, <2>3 DEF ChangeArrives
<1> QED
  BY <1>3, <1>4, <1>5, <1>6, <1>7

\* The record gets older.
LEMMA TimeTypes == ASSUME TypeOK, TimePasses PROVE TypeOK'
<1> USE DEF server, platform
<1>0. ServerOK /\ PlatformOK /\ RecordOK /\ HistoryOK /\ OpOK /\ HoldsOK /\ WantedOK
  BY Parts
<1>1. UNCHANGED <<server, platform, known, op, faults, misled>>
  BY DEF TimePasses
<1>2. record # None /\ record' \in Record /\ record' # None /\ record'.id = record.id
  BY SameRecord DEF TimePasses
<1>3. ServerOK' /\ PlatformOK' /\ RecordOK' /\ HistoryOK' /\ OpOK'
  BY <1>0, <1>1, <1>2 DEF ServerOK, PlatformOK, RecordOK, HistoryOK, OpOK
<1>4. HoldsOK' /\ WantedOK'
  BY <1>0, <1>1, <1>2 DEF HoldsOK, WantedOK, At
<1> QED
  BY <1>3, <1>4, PartsAfter

\* The platform and the person, and the session that is read again.
LEMMA PlatformTypes ==
  ASSUME TypeOK, ReadsSession \/ Register \/ Unsubscribe \/ SwitchedOn
  PROVE  TypeOK'
<1> USE DEF server, platform
<1>0. ServerOK /\ PlatformOK /\ RecordOK /\ HistoryOK /\ OpOK /\ HoldsOK /\ WantedOK
  BY Parts
<1>1. known \in Keys /\ key \in Keys
  BY <1>0, BoundsAssumption DEF RecordOK, ServerOK, Keys
<1>2. CASE ReadsSession
  BY <1>0, <1>1, <1>2, PartsAfter
     DEF ReadsSession, ServerOK, PlatformOK, RecordOK, HistoryOK, OpOK, HoldsOK, WantedOK, At, Keys
<1>3. CASE Register
  <2>1. given' \in Endpoint \union {None}
    <3>1. CASE given = None /\ given' = [key |-> known, turn |-> 0]
      BY <1>1, <3>1, BoundsAssumption DEF Endpoint
    <3>2. CASE given # None /\ given' = [given EXCEPT !.key = known]
      BY <1>0, <1>1, <3>2 DEF Endpoint, PlatformOK
    <3>3. CASE given # None /\ given.turn < MaxTurns /\ given' = [given EXCEPT !.key = known, !.turn = @ + 1]
      <4>1. given \in Endpoint /\ given.turn + 1 \in 0..MaxTurns
        BY <1>0, <3>3, BoundsAssumption DEF Endpoint, PlatformOK
      <4> QED
        BY <1>1, <3>3, <4>1 DEF Endpoint
    <3> QED
      BY <1>3, <3>1, <3>2, <3>3 DEF Register
  <2>2. PlatformOK'
    BY <1>0, <1>3, <2>1 DEF Register, PlatformOK
  <2>3. UNCHANGED <<server, wanted, record, known, op, faults, misled>>
    BY <1>3 DEF Register
  <2> QED
    BY <1>0, <2>2, <2>3, PartsAfter DEF ServerOK, RecordOK, HistoryOK, OpOK, HoldsOK, WantedOK, At
<1>4. CASE Unsubscribe
  <2>1. PlatformOK' /\ ServerOK' /\ RecordOK' /\ HistoryOK'
    BY <1>0, <1>4, FaultType DEF Unsubscribe, Forgets, PlatformOK, ServerOK, RecordOK, HistoryOK
  <2>2. op' = NoOp \/ (record # None /\ op' = Destroying({record.id}, "end"))
    BY <1>4 DEF Unsubscribe
  <2>3. OpOK' /\ op'.next = "end" /\ op'.at \in {"idle", "destroy"}
    <3>1. CASE op' = NoOp
      BY <3>1, NoneLost DEF OpOK, NoOp, Steps
    <3>2. CASE record # None /\ op' = Destroying({record.id}, "end")
      BY <3>2, RecordIds, NoneLost DEF OpOK, Destroying, NoOp, Steps
    <3> QED
      BY <2>2, <3>1, <3>2
  <2>4. HoldsOK' /\ WantedOK'
    BY <2>3, <1>4 DEF HoldsOK, WantedOK, At, Unsubscribe, Forgets
  <2> QED
    BY <2>1, <2>3, <2>4, PartsAfter
<1>5. CASE SwitchedOn
  BY <1>0, <1>5, PartsAfter
     DEF SwitchedOn, ServerOK, PlatformOK, RecordOK, HistoryOK, OpOK, HoldsOK, WantedOK, At
<1> QED
  BY <1>2, <1>3, <1>4, <1>5

LEMMA TypesStay == ASSUME TypeOK, UNCHANGED vars PROVE TypeOK'
  BY DEF TypeOK, vars, At

LEMMA TypesStep == ASSUME TypeOK, [Next]_vars PROVE TypeOK'
  BY ServerTypes, RequestTypes, DestroyedTypes, CreateTypes, MaintainTypes, SubscribeTypes, AnswerTypes,
     TimeTypes, PlatformTypes, TypesStay DEF Next, OpStep

\* Every state of the program has its types; an operation holds what it is about, and of push that was
\* switched off nothing is kept (push_ops.rs: the lock, push_unsubscribe).
THEOREM TypesHold == Spec => []TypeOK
<1>1. Init => TypeOK
  BY InitTypes
<1>2. TypeOK /\ [Next]_vars => TypeOK'
  BY TypesStep
<1> QED
  BY <1>1, <1>2, PTL DEF Spec

-----------------------------------------------------------------------------
(***************************************************************************)
(* What counts as verified is pushed to.                                   *)
(***************************************************************************)

\* The server has taken the code that is noted next.
TakenIsPushed == At("verified") => record.id \notin Live \/ subs[record.id].verified
Pushed == CountedIsPushed /\ TakenIsPushed

LEMMA InitPushed == Init => Pushed
  BY DEF Init, Pushed, CountedIsPushed, TakenIsPushed, At, NoOp

\* No step but a few touches what Pushed is about; a subscription that is lost or destroyed is harmless.
LEMMA PushedLasts ==
  ASSUME Pushed, UNCHANGED <<record, misled>>, op' = op \/ op'.at # "verified",
         \A i \in Ids : subs'[i] = subs[i] \/ subs'[i] = None
  PROVE  Pushed'
  BY DEF Pushed, CountedIsPushed, TakenIsPushed, Live, At

\* What isn't verified doesn't count.
LEMMA UncountedIsPushed ==
  ASSUME record' = None \/ ~record'.verified \/ misled', op'.at # "verified" PROVE Pushed'
  BY DEF Pushed, CountedIsPushed, TakenIsPushed, At

LEMMA ServerPushed ==
  ASSUME TypeOK, Pushed,
         \/ KeyChanges \/ ReadsSession \/ Register \/ SwitchedOn
         \/ \E i \in Ids : ServerPushes(i) \/ ServerLoses(i)
         \/ \E m \in Message : MessageLost(m)
  PROVE  Pushed'
<1>1. UNCHANGED <<record, misled, op>>
  BY DEF KeyChanges, ReadsSession, Register, SwitchedOn, ServerPushes, ServerLoses, MessageLost
<1>2. \A i \in Ids : subs'[i] = subs[i] \/ subs'[i] = None
  BY DEF KeyChanges, ReadsSession, Register, SwitchedOn, ServerPushes, ServerLoses, MessageLost, server, TypeOK
<1> QED
  BY <1>1, <1>2, PushedLasts

\* What maintenance goes on with.
LEMMA MaintainsOn ==
  ASSUME Maintains
  PROVE  (op'.at = "destroy" /\ op'.ids = {record.id}) \/ op'.at \in {"renew", "idle"}
<1>1. CASE op' = NoOp
  BY <1>1 DEF NoOp
<1>2. CASE op' = Destroying({record.id}, "register")
  BY <1>2, DestroyingIs
<1>3. CASE op' = ThenCreates([NoOp EXCEPT !.at = "renew"], record.endpoint)
  BY <1>3 DEF ThenCreates, NoOp
<1>4. ASSUME NEW lost, op' = [ThenCreates(Destroying({record.id}, "create"), record.endpoint) EXCEPT !.lost = lost]
      PROVE  op'.at = "destroy" /\ op'.ids = {record.id}
  BY <1>4 DEF Destroying, ThenCreates, NoOp
<1> QED
  BY <1>1, <1>2, <1>3, <1>4 DEF Maintains

LEMMA MaintainsSteps == ASSUME Maintains PROVE op'.at \in {"destroy", "renew", "idle"}
  BY MaintainsOn

LEMMA RequestPushed ==
  ASSUME TypeOK, Pushed,
         \/ OursAnswer \/ DestroyCarried \/ DestroyFails \/ Cut \/ Maintain \/ Subscribe
         \/ \E m \in Message : VerificationArrives(m)
  PROVE  Pushed'
<1> USE DEF server
<1>0. op \in [at : Steps, next : {"end", "create", "register"}, ids : SUBSET Ids, endpoint : Endpoint \union {None},
              lost : 0..Patience]
  BY DEF TypeOK
<1>1. UNCHANGED <<record, misled>>
  BY DEF OursAnswer, DestroyCarried, DestroyFails, Cut, Maintain, Subscribe, VerificationArrives
<1>2. op'.at # "verified"
  <2>1. CASE OursAnswer \/ DestroyCarried \/ DestroyFails \/ Cut
    BY <1>0, <2>1, NoOpIs DEF OursAnswer, DestroyCarried, DestroyFails, Cut, Ends
  <2>2. CASE Maintain
    BY <2>2, MaintainsSteps DEF Maintain
  <2>3. CASE Subscribe
    BY <2>3, MaintainsSteps, NoOpIs, OursIs DEF Subscribe
  <2>4. ASSUME NEW m \in Message, VerificationArrives(m) PROVE op'.at # "verified"
    BY <2>4 DEF VerificationArrives, NoOp
  <2> QED
    BY <2>1, <2>2, <2>3, <2>4
<1>3. \A i \in Ids : subs'[i] = subs[i] \/ subs'[i] = None
  BY DEF OursAnswer, DestroyCarried, DestroyFails, Cut, Maintain, Subscribe, VerificationArrives, TypeOK
<1> QED
  BY <1>1, <1>2, <1>3, PushedLasts

LEMMA RecordPushed ==
  ASSUME TypeOK, Pushed, Destroyed \/ CreateCarried \/ Created \/ RenewAnswer \/ Unsubscribe PROVE Pushed'
<1> USE DEF server
<1>0. op \in [at : Steps, next : {"end", "create", "register"}, ids : SUBSET Ids, endpoint : Endpoint \union {None},
              lost : 0..Patience]
  BY DEF TypeOK
<1>1. op'.at # "verified"
  <2>1. CASE Destroyed \/ CreateCarried
    BY <1>0, <2>1, NoOpIs DEF Destroyed, CreateCarried
  <2>2. CASE Created
    BY <2>2, NoOpIs, DestroyingIs DEF Created, Ends
  <2>3. CASE RenewAnswer
    BY <1>0, <2>3, NoOpIs DEF RenewAnswer, Ends
  <2>4. CASE Unsubscribe
    BY <2>4, NoOpIs, DestroyingIs DEF Unsubscribe
  <2> QED
    BY <2>1, <2>2, <2>3, <2>4
<1>2. CASE CreateCarried
  <2>1. record' = None
    BY <1>2 DEF CreateCarried, TypeOK
  <2> QED
    BY <1>1, <2>1, UncountedIsPushed
<1>3. CASE Created
  <2>1. ~record'.verified
    BY <1>3 DEF Created
  <2> QED
    BY <1>1, <2>1, UncountedIsPushed
<1>4. CASE Destroyed \/ RenewAnswer \/ Unsubscribe
  <2>1. subs' = subs
    BY <1>4 DEF Destroyed, RenewAnswer, Unsubscribe
  <2>2. record' = None \/ UNCHANGED <<record, misled>>
        \/ (record # None /\ misled' = misled /\ record' = [record EXCEPT !.since = 0])
    BY <1>4 DEF Destroyed, RenewAnswer, Unsubscribe, Forgets
  <2>3. CASE record' = None \/ UNCHANGED <<record, misled>>
    BY <1>1, <2>1, <2>3, PushedLasts, UncountedIsPushed
  <2>4. CASE record # None /\ misled' = misled /\ record' = [record EXCEPT !.since = 0]
    <3>1. record'.id = record.id /\ record'.verified = record.verified
      BY <2>4 DEF TypeOK, Record
    <3> QED
      BY <1>1, <2>1, <2>4, <3>1 DEF Pushed, CountedIsPushed, TakenIsPushed, Live, At
  <2> QED
    BY <2>2, <2>3, <2>4
<1> QED
  BY <1>2, <1>3, <1>4

LEMMA TimePushed == ASSUME TypeOK, Pushed, TimePasses PROVE Pushed'
<1>1. subs' = subs /\ misled' = misled /\ op' = op
  BY DEF TimePasses, server
<1>2. record # None /\ record'.id = record.id /\ record'.verified = record.verified
  BY DEF TimePasses, TypeOK, Record
<1> QED
  BY <1>1, <1>2 DEF Pushed, CountedIsPushed, TakenIsPushed, Live, At

\* The server takes the code, and UwUMail notes it.
LEMMA VerifyPushed == ASSUME TypeOK, Pushed, VerifyCarried \/ Verified PROVE Pushed'
<1> USE DEF server
<1>1. CASE VerifyCarried
  <2>1. PICK i \in op.ids :
          IF i \in Live THEN subs' = [subs EXCEPT ![i].verified = TRUE] /\ op' = [op EXCEPT !.at = "verified"]
          ELSE Ends /\ UNCHANGED subs
    BY <1>1 DEF VerifyCarried
  <2>2. i = record.id /\ i \in Ids /\ UNCHANGED <<record, misled>>
    BY <1>1 DEF VerifyCarried, TypeOK
  <2>3. CASE i \in Live
    <3>1. subs[i] \in Sub
      BY <2>3 DEF Live, TypeOK
    <3>2. subs'[i].verified
      BY <2>1, <2>2, <2>3, <3>1 DEF Sub, TypeOK
    <3> QED
      BY <2>2, <3>2 DEF Pushed, CountedIsPushed, TakenIsPushed
  <2>4. CASE i \notin Live
    <3>1. subs' = subs /\ op'.at # "verified"
      BY <2>1, <2>4 DEF Ends, NoOp
    <3> QED
      BY <2>2, <3>1, PushedLasts
  <2> QED
    BY <2>3, <2>4
<1>2. CASE Verified
  <2>1. subs' = subs /\ record'.id = record.id /\ op'.at # "verified"
    BY <1>2 DEF Verified, Ends, NoOp, TypeOK, Record
  <2>2. record.id \notin Live \/ subs[record.id].verified
    BY <1>2 DEF Verified, Pushed, TakenIsPushed
  <2> QED
    BY <2>1, <2>2 DEF Pushed, CountedIsPushed, TakenIsPushed, Live, At
<1> QED
  BY <1>1, <1>2

\* A change of another subscription's misleads UwUMail, or what is kept is verified.
LEMMA ChangePushed == ASSUME TypeOK, Pushed, NEW m \in Message, ChangeArrives(m) PROVE Pushed'
<1>1. UNCHANGED <<subs, op>>
  BY DEF ChangeArrives
<1>2. CASE UNCHANGED <<record, misled>>
  BY <1>1, <1>2, PushedLasts
<1>3. CASE /\ At("idle") /\ record # None /\ record' = [record EXCEPT !.verified = TRUE, !.lost = 0]
           /\ misled' = (record.id \in Live /\ ~subs[record.id].verified)
  <2>1. record'.id = record.id
    BY <1>3 DEF TypeOK, Record
  <2> QED
    BY <1>1, <1>3, <2>1 DEF Pushed, CountedIsPushed, TakenIsPushed, Live, At
<1> QED
  BY <1>2, <1>3 DEF ChangeArrives

LEMMA PushedStays == ASSUME Pushed, UNCHANGED vars PROVE Pushed'
  BY DEF Pushed, CountedIsPushed, TakenIsPushed, vars, Live, At

LEMMA PushedStep == ASSUME TypeOK, Pushed, [Next]_vars PROVE Pushed'
  BY ServerPushed, RequestPushed, RecordPushed, TimePushed, VerifyPushed, ChangePushed, PushedStays DEF Next, OpStep

\* What UwUMail counts as verified the server pushes to, unless it has lost it, or a change of another
\* subscription's was taken for its own (push_ops.rs push_received; the guard of set_push_verified).
THEOREM CountedIsPushedHolds == Spec => []CountedIsPushed
<1>1. Init => TypeOK /\ Pushed
  BY InitTypes, InitPushed
<1>2. TypeOK /\ Pushed /\ [Next]_vars => TypeOK' /\ Pushed'
  BY TypesStep, PushedStep
<1>3. Pushed => CountedIsPushed
  BY DEF Pushed
<1> QED
  BY <1>1, <1>2, <1>3, PTL DEF Spec

-----------------------------------------------------------------------------
(***************************************************************************)
(* No more is left behind than things went wrong.                          *)
(***************************************************************************)

Kept == {r.id : r \in {record} \ {None}}

\* What UwUMail means to have on the server, at each step of what holds the lock.
Meant ==
    IF op.at \in {"destroyed", "create"} THEN {}
    ELSE IF op.at = "created" THEN op.ids ELSE Kept
FewLeft == Cardinality(Live \ Meant) <= faults
GoesToo ==
    /\ op.at \in {"ours", "destroy"} => Kept \subseteq op.ids
    /\ op.at = "created" => \E i \in Ids : op.ids = {i}
Counted == FewLeft /\ GoesToo

LEMMA KeptIs == (record = None => Kept = {}) /\ (record # None => Kept = {record.id})
  BY DEF Kept
LEMMA KeptIsAfter == (record' = None => Kept' = {}) /\ (record' # None => Kept' = {record'.id})
  BY DEF Kept

LEMMA SomeIds == ASSUME NEW S \in SUBSET Ids PROVE IsFiniteSet(S) /\ Cardinality(S) \in Nat
  BY IdsAssumption, FS_Subset, FS_CardinalityType

LEMMA Fewer == ASSUME NEW S \in SUBSET Ids, NEW T \in SUBSET S PROVE Cardinality(T) <= Cardinality(S)
  BY SomeIds, FS_Subset

LEMMA OneMore ==
  ASSUME NEW S \in SUBSET Ids, NEW i \in Ids, NEW T \in SUBSET (S \union {i})
  PROVE  Cardinality(T) <= Cardinality(S) + 1
<1>1. Cardinality(S \union {i}) <= Cardinality(S) + 1
  BY SomeIds, FS_AddElement
<1>2. Cardinality(T) <= Cardinality(S \union {i})
  BY Fewer
<1> QED
  BY <1>1, <1>2, SomeIds

\* No more is left on the server, and nothing went wrong or one thing more did.
LEMMA NoMoreLeft ==
  ASSUME TypeOK, Counted, faults' = faults \/ Fault, Live' \ Meant' \subseteq Live \ Meant
  PROVE  FewLeft'
<1> DEFINE S == Live \ Meant
           T == Live' \ Meant'
<1>1. S \in SUBSET Ids /\ T \in SUBSET S
  BY DEF Live
<1>2. Cardinality(S) <= faults /\ faults \in Nat /\ faults <= faults'
  BY DEF Counted, FewLeft, TypeOK, Fault
<1>3. FewLeft' <=> Cardinality(T) <= faults'
  BY DEF FewLeft
<1> HIDE DEF S, T
<1>4. T \in SUBSET Ids /\ Cardinality(T) <= Cardinality(S)
  BY <1>1, Fewer
<1> QED
  BY <1>1, <1>2, <1>3, <1>4, SomeIds, BoundsAssumption DEF Fault

\* One more is left, for what went wrong.
LEMMA OneMoreLeft ==
  ASSUME TypeOK, Counted, Fault, NEW i \in Ids, Live' \ Meant' \subseteq (Live \ Meant) \union {i}
  PROVE  FewLeft'
<1> DEFINE S == Live \ Meant
           T == Live' \ Meant'
<1>1. S \in SUBSET Ids /\ T \in SUBSET (S \union {i})
  BY DEF Live
<1>2. Cardinality(S) <= faults /\ faults \in Nat /\ faults' = faults + 1
  BY DEF Counted, FewLeft, TypeOK, Fault
<1>3. FewLeft' <=> Cardinality(T) <= faults'
  BY DEF FewLeft
<1> HIDE DEF S, T
<1>4. T \in SUBSET Ids /\ Cardinality(T) <= Cardinality(S) + 1
  BY <1>1, OneMore
<1> QED
  BY <1>1, <1>2, <1>3, <1>4, SomeIds

LEMMA InitCounted == Init => Counted
<1> SUFFICES ASSUME Init PROVE Counted
  OBVIOUS
<1>1. Live = {} /\ faults = 0
  BY DEF Init, Live
<1>2. FewLeft
  BY <1>1, FS_EmptySet DEF FewLeft
<1>3. GoesToo
  BY DEF Init, NoOp, GoesToo
<1> QED
  BY <1>2, <1>3 DEF Counted

LEMMA ServerCounted ==
  ASSUME TypeOK, Counted,
         \/ KeyChanges \/ ReadsSession \/ Register \/ SwitchedOn
         \/ \E i \in Ids : ServerPushes(i) \/ ServerLoses(i)
         \/ \E m \in Message : MessageLost(m)
  PROVE  Counted'
<1>1. UNCHANGED <<record, op>> /\ (faults' = faults \/ Fault)
  BY DEF KeyChanges, ReadsSession, Register, SwitchedOn, ServerPushes, ServerLoses, MessageLost
<1>2. \A i \in Ids : subs'[i] = subs[i] \/ subs'[i] = None
  BY DEF KeyChanges, ReadsSession, Register, SwitchedOn, ServerPushes, ServerLoses, MessageLost, server, TypeOK
<1>3. Live' \subseteq Live /\ Meant' = Meant /\ GoesToo'
  BY <1>1, <1>2 DEF Live, Meant, Kept, GoesToo, Counted
<1> QED
  BY <1>1, <1>3, NoMoreLeft DEF Counted

LEMMA DestroyCounted == ASSUME TypeOK, Counted, OursAnswer \/ DestroyCarried \/ DestroyFails \/ Destroyed PROVE Counted'
<1> USE DEF server
<1>0. op \in [at : Steps, next : {"end", "create", "register"}, ids : SUBSET Ids, endpoint : Endpoint \union {None},
              lost : 0..Patience]
  BY DEF TypeOK
<1>1. CASE OursAnswer
  <2>1. op'.at = "destroy" /\ op.ids \subseteq op'.ids /\ op.at = "ours"
    BY <1>0, <1>1 DEF OursAnswer, At
  <2>2. Live' = Live /\ Kept' = Kept /\ (faults' = faults \/ Fault)
    BY <1>1 DEF OursAnswer, Live, Kept
  <2>3. Meant' = Meant /\ GoesToo'
    BY <2>1, <2>2 DEF Meant, GoesToo, Counted
  <2> QED
    BY <2>2, <2>3, NoMoreLeft DEF Counted
<1>2. CASE DestroyCarried
  <2>1. op.at = "destroy" /\ op'.at = "destroyed" /\ faults' = faults
    BY <1>0, <1>2 DEF DestroyCarried, At
  <2>2. Kept \subseteq op.ids /\ Live' = Live \ op.ids
    BY <2>1, <1>2 DEF Counted, GoesToo, DestroyCarried, Live
  <2>3. Live' \ Meant' \subseteq Live \ Meant /\ GoesToo'
    BY <2>1, <2>2 DEF Meant, GoesToo
  <2> QED
    BY <2>1, <2>3, NoMoreLeft DEF Counted
<1>3. CASE DestroyFails
  <2>1. op.at = "destroy" /\ op'.at = "destroyed" /\ Fault /\ Live' = Live
    BY <1>0, <1>3 DEF DestroyFails, At, Live
  <2>2. Meant = Kept /\ Meant' = {} /\ GoesToo'
    BY <2>1 DEF Meant, GoesToo
  <2>3. CASE record = None
    BY <2>1, <2>2, <2>3, KeptIs, NoMoreLeft DEF Counted
  <2>4. CASE record # None
    BY <2>1, <2>2, <2>4, KeptIs, RecordIds, OneMoreLeft DEF Counted
  <2> QED
    BY <2>3, <2>4
<1>4. CASE Destroyed
  <2>1. op.at = "destroyed" /\ op'.at \in {"create", "idle"} /\ faults' = faults /\ Live' = Live
    BY <1>0, <1>4 DEF Destroyed, At, NoOp, Live
  <2>2. Live' \ Meant' \subseteq Live \ Meant /\ GoesToo'
    BY <2>1 DEF Meant, GoesToo
  <2> QED
    BY <2>1, <2>2, NoMoreLeft DEF Counted
<1> QED
  BY <1>1, <1>2, <1>3, <1>4

LEMMA CreateCounted == ASSUME TypeOK, Counted, CreateCarried \/ Created PROVE Counted'
<1> USE DEF server
<1>0. op \in [at : Steps, next : {"end", "create", "register"}, ids : SUBSET Ids, endpoint : Endpoint \union {None},
              lost : 0..Patience]
  BY DEF TypeOK
<1>1. CASE CreateCarried
  <2>1. PICK i \in Unused :
          /\ op.at = "create" /\ op' = [op EXCEPT !.at = "created", !.ids = {i}] /\ faults' = faults
          /\ subs' = [subs EXCEPT ![i] = [endpoint |-> op.endpoint, verified |-> FALSE]]
    BY <1>1 DEF CreateCarried, At
  <2>2. op'.at = "created" /\ op'.ids = {i}
    BY <1>0, <2>1
  <2>3. Live' \subseteq Live \union {i}
    BY <2>1 DEF Live, TypeOK
  <2>4. Live' \ Meant' \subseteq Live \ Meant /\ GoesToo'
    BY <2>1, <2>2, <2>3 DEF Meant, GoesToo, Unused
  <2> QED
    BY <2>1, <2>4, NoMoreLeft DEF Counted
<1>2. CASE Created
  <2>1. PICK i \in op.ids :
          /\ record' = [id |-> i, endpoint |-> op.endpoint, key |-> known, verified |-> FALSE, lost |-> op.lost,
                        since |-> 0]
          /\ op' = NoOp \/ op' = Destroying({i}, "register")
          /\ faults' = faults \/ Fault
    BY <1>2 DEF Created, Ends
  <2>2. op.at = "created" /\ Live' = Live
    BY <1>2 DEF Created, At, Live
  <2>3. Kept' = {i}
    <3>1. op.endpoint \in Endpoint /\ known \in Keys /\ i \in Ids /\ op.lost \in 0..Patience
      BY <1>0, <2>2, BoundsAssumption DEF TypeOK, At, Keys
    <3>2. record' \in Record
      BY <2>1, <3>1 DEF Record
    <3> QED
      BY <2>1, <3>2, KeptIsAfter, RecordAssumption
  <2>4. op'.at \in {"idle", "destroy"} /\ (op'.at = "destroy" => op'.ids = {i})
    BY <2>1, NoOpIs, DestroyingIs
  <2>5. op.ids = {i}
    BY <2>1, <2>2 DEF Counted, GoesToo
  <2>6. Live' \ Meant' \subseteq Live \ Meant /\ GoesToo'
    BY <2>2, <2>3, <2>4, <2>5 DEF Meant, GoesToo
  <2> QED
    BY <2>1, <2>6, NoMoreLeft DEF Counted
<1> QED
  BY <1>1, <1>2

LEMMA MaintainsCounted ==
  ASSUME TypeOK, Counted, record # None, op.at = "idle", Maintains, UNCHANGED <<subs, record>> PROVE Counted'
<1>1. faults' = faults \/ Fault
  BY DEF Maintains
<1>2. (op'.at = "destroy" /\ op'.ids = {record.id}) \/ op'.at \in {"renew", "idle"}
  BY MaintainsOn
<1>3. Live' = Live /\ Kept' = Kept /\ Kept = {record.id}
  BY KeptIs DEF Live, Kept
<1>4. Live' \ Meant' \subseteq Live \ Meant /\ GoesToo'
  BY <1>2, <1>3 DEF Meant, GoesToo
<1> QED
  BY <1>1, <1>4, NoMoreLeft DEF Counted

LEMMA MaintainCounted == ASSUME TypeOK, Counted, Maintain \/ Subscribe PROVE Counted'
<1> USE DEF server
<1>1. op.at = "idle" /\ UNCHANGED <<subs, record>>
  BY DEF Maintain, Subscribe, Handed, At
<1>2. CASE record # None /\ Maintains
  BY <1>1, <1>2, MaintainsCounted
<1>3. CASE /\ op' = ThenCreates([Destroying(Kept, "create") EXCEPT !.at = "ours"], given)
           /\ UNCHANGED faults
  <2>1. op'.at = "ours" /\ op'.ids = Kept
    BY <1>3, OursIs
  <2>2. Live' = Live /\ Kept' = Kept
    BY <1>1 DEF Live, Kept
  <2>3. Live' \ Meant' \subseteq Live \ Meant /\ GoesToo'
    BY <1>1, <2>1, <2>2 DEF Meant, GoesToo
  <2> QED
    BY <1>3, <2>3, NoMoreLeft DEF Counted
<1> QED
  BY <1>2, <1>3 DEF Maintain, Subscribe, Kept

\* A step without an operation that destroys or creates, that keeps the same subscription.
LEMMA SameCounted ==
  ASSUME TypeOK, Counted, Live' = Live, Kept' = Kept, faults' = faults,
         op.at \notin {"ours", "destroy", "destroyed", "create", "created"},
         op'.at \notin {"ours", "destroy", "destroyed", "create", "created"}
  PROVE  Counted'
<1>1. Meant' = Meant /\ GoesToo'
  BY DEF Meant, GoesToo
<1> QED
  BY <1>1, NoMoreLeft DEF Counted

LEMMA VerifyCounted ==
  ASSUME TypeOK, Counted,
         \/ VerifyCarried \/ Verified
         \/ \E m \in Message : VerificationArrives(m)
  PROVE  Counted'
<1> USE DEF server
<1>0. op \in [at : Steps, next : {"end", "create", "register"}, ids : SUBSET Ids, endpoint : Endpoint \union {None},
              lost : 0..Patience]
  BY DEF TypeOK
<1>1. faults' = faults /\ op.at \in {"idle", "verify", "verified"} /\ op'.at \in {"idle", "verify", "verified"}
  <2>1. CASE VerifyCarried \/ Verified
    BY <1>0, <2>1, NoOpIs DEF VerifyCarried, Verified, At, Ends
  <2>2. ASSUME NEW m \in Message, VerificationArrives(m)
        PROVE  faults' = faults /\ op.at = "idle" /\ op'.at \in {"idle", "verify"}
    BY <2>2 DEF VerificationArrives, At, NoOp
  <2> QED
    BY <2>1, <2>2
<1>2. Live' = Live
  <2>1. CASE subs' = subs
    BY <2>1 DEF Live
  <2>2. ASSUME NEW i \in Live, subs' = [subs EXCEPT ![i].verified = TRUE] PROVE Live' = Live
    <3>1. subs[i] \in Sub /\ i \in Ids
      BY DEF Live, TypeOK
    <3>2. subs'[i] \in Sub /\ \A j \in Ids \ {i} : subs'[j] = subs[j]
      BY <2>2, <3>1 DEF Sub, TypeOK
    <3> QED
      BY <3>1, <3>2, RecordAssumption DEF Live
  <2> QED
    BY <2>1, <2>2 DEF VerifyCarried, Verified, VerificationArrives
<1>3. Kept' = Kept
  <2>1. CASE record' = record
    BY <2>1 DEF Kept
  <2>2. CASE Verified
    <3>1. record # None /\ record' = [record EXCEPT !.verified = TRUE, !.lost = 0]
      BY <2>2 DEF Verified, TypeOK
    <3> QED
      BY <3>1, SameRecord, KeptIs, KeptIsAfter
  <2> QED
    BY <2>1, <2>2 DEF VerifyCarried, VerificationArrives
<1> QED
  BY <1>1, <1>2, <1>3, SameCounted

LEMMA ChangeCounted ==
  ASSUME TypeOK, Counted, TimePasses \/ \E m \in Message : ChangeArrives(m) PROVE Counted'
<1>1. UNCHANGED <<op, faults>> /\ Live' = Live
  BY DEF ChangeArrives, TimePasses, Live, server
<1>2. Kept' = Kept
  <2>1. CASE record' = record
    BY <2>1 DEF Kept
  <2>2. CASE record # None /\ (TimePasses \/ record' = [record EXCEPT !.verified = TRUE, !.lost = 0])
    <3>1. record' # None /\ record'.id = record.id
      BY <2>2, SameRecord DEF TimePasses
    <3> QED
      BY <2>2, <3>1, KeptIs, KeptIsAfter
  <2> QED
    BY <2>1, <2>2 DEF ChangeArrives, TimePasses
<1>3. Meant' = Meant /\ GoesToo'
  BY <1>1, <1>2 DEF Meant, GoesToo, Counted
<1> QED
  BY <1>1, <1>3, NoMoreLeft DEF Counted

\* What is renewed is there, or nothing is meant any more.
LEMMA RenewCounted == ASSUME TypeOK, Counted, RenewAnswer PROVE Counted'
<1> USE DEF server
<1>1. op.at = "renew" /\ record # None /\ Live' = Live /\ faults' = faults
  BY DEF RenewAnswer, At, Live
<1>2. CASE Ends /\ record' = [record EXCEPT !.since = 0]
  <2>1. Kept' = Kept /\ op'.at = "idle"
    BY <1>1, <1>2, SameRecord, KeptIs, KeptIsAfter DEF Ends, NoOp
  <2> QED
    BY <1>1, <2>1, SameCounted
<1>3. CASE record.id \notin Live /\ op' = [op EXCEPT !.at = "create"]
  <2>1. Kept = {record.id} /\ op'.at = "create"
    BY <1>1, <1>3, KeptIs DEF TypeOK
  <2>2. Live' \ Meant' \subseteq Live \ Meant /\ GoesToo'
    BY <1>1, <1>3, <2>1 DEF Meant, GoesToo
  <2> QED
    BY <1>1, <2>2, NoMoreLeft DEF Counted
<1> QED
  BY <1>2, <1>3 DEF RenewAnswer

\* What is cut off leaves one behind, and so does what is forgotten before the server knows.
LEMMA CutCounted == ASSUME TypeOK, Counted, Cut \/ Unsubscribe PROVE Counted'
<1> USE DEF server
<1>1. Fault /\ Live' = Live /\ Live \subseteq Ids
  BY DEF Cut, Unsubscribe, Live
<1>2. CASE Cut
  <2>1. op'.at = "idle" /\ Kept' = Kept
    BY <1>2 DEF Cut, Ends, NoOp, Kept
  <2>2. Meant' = Kept /\ GoesToo'
    BY <2>1 DEF Meant, GoesToo
  <2>3. CASE op.at = "created"
    <3>1. PICK i \in Ids : op.ids = {i}
      BY <2>3 DEF Counted, GoesToo
    <3>2. Live' \ Meant' \subseteq (Live \ Meant) \union {i}
      BY <1>1, <2>3, <3>1 DEF Meant
    <3> QED
      BY <1>1, <2>2, <3>2, OneMoreLeft DEF Counted
  <2>4. CASE op.at # "created"
    <3>1. Live' \ Meant' \subseteq Live \ Meant
      BY <1>1, <2>2, <2>4 DEF Meant
    <3> QED
      BY <1>1, <2>2, <3>1, NoMoreLeft DEF Counted
  <2> QED
    BY <2>3, <2>4
<1>3. CASE Unsubscribe
  <2>1. op.at = "idle" /\ record' = None /\ op'.at \in {"idle", "destroy"}
    BY <1>3 DEF Unsubscribe, Forgets, At, Destroying, NoOp
  <2>2. Meant = Kept /\ Meant' = {} /\ Kept' = {} /\ GoesToo'
    BY <2>1, KeptIsAfter DEF Meant, GoesToo
  <2>3. CASE record = None
    BY <1>1, <2>2, <2>3, KeptIs, NoMoreLeft DEF Counted
  <2>4. CASE record # None
    BY <1>1, <2>2, <2>4, KeptIs, RecordIds, OneMoreLeft DEF Counted
  <2> QED
    BY <2>3, <2>4
<1> QED
  BY <1>2, <1>3

LEMMA CountedStays == ASSUME Counted, UNCHANGED vars PROVE Counted'
  BY DEF Counted, FewLeft, GoesToo, Meant, Kept, Live, vars

LEMMA CountedStep == ASSUME TypeOK, Counted, [Next]_vars PROVE Counted'
  BY ServerCounted, DestroyCounted, CreateCounted, MaintainCounted, VerifyCounted, ChangeCounted, RenewCounted,
     CutCounted, CountedStays DEF Next, OpStep

LEMMA CountedIsEnough == TypeOK /\ Counted => OneIsKept
<1> SUFFICES ASSUME TypeOK, Counted PROVE OneIsKept
  OBVIOUS
<1> DEFINE S == Live \ Meant
           T == Live \ (op.ids \union Kept)
<1>1. S \in SUBSET Ids /\ T \in SUBSET S
  BY DEF Live, Meant
<1>2. Cardinality(S) <= faults /\ faults \in Nat
  BY DEF Counted, FewLeft, TypeOK
<1>3. OneIsKept <=> Cardinality(T) <= faults
  BY DEF OneIsKept, Kept
<1> HIDE DEF S, T
<1>4. T \in SUBSET Ids /\ Cardinality(T) <= Cardinality(S)
  BY <1>1, Fewer
<1> QED
  BY <1>1, <1>2, <1>3, <1>4, SomeIds

\* "One subscription per account" (push_ops.rs create_push destroys what there is first): the server
\* has another one only for every time something went wrong.
THEOREM OneIsKeptHolds == Spec => []OneIsKept
<1>1. Init => TypeOK /\ Counted
  BY InitTypes, InitCounted
<1>2. TypeOK /\ Counted /\ [Next]_vars => TypeOK' /\ Counted'
  BY TypesStep, CountedStep
<1> QED
  BY <1>1, <1>2, CountedIsEnough, PTL DEF Spec

=============================================================================
