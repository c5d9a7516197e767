--------------------------- MODULE MCSettingsSync ---------------------------
(***************************************************************************)
(* SettingsSync on small instances: a choice, a list entry, a signature.   *)
(***************************************************************************)
EXTENDS SettingsSync, TLC

CONSTANTS d1, d2, choice, entry, signature, a, b

TwoDevices == {d1, d2}
Agreeing == {TwoDevices}
AnyAgree == SUBSET TwoDevices
S0 == {{}}
S1 == {{d1}}
S2 == {TwoDevices}
JustEntry == {entry}
JustSignature == {signature}
ChoiceAndEntry == {choice, entry}
EntryAndSignature == {entry, signature}
NoKeys == {}
OneValue == [k \in Keys |-> {a}]
TwoChoices == [k \in Keys |-> IF k \in Lists THEN {a} ELSE {a, b}]
NothingWeaker == {}
BWeakens == {<<choice, b>>}
Answers == {"answer"}
Stores == {"store"}
Looks == {"look"}
AnswersAndLooks == {"answer", "look"}
AnyFault == {"request", "answer", "read", "look", "store", "full"}
AllButLooks == AnyFault \ Looks

\* Devices that start alike are interchangeable.
DeviceSymmetry == Permutations(TwoDevices)

=============================================================================
