------------------------------ MODULE MCOutbox ------------------------------
(* Instances of Outbox for TLC; the .cfg files choose among these values. *)
EXTENDS Outbox, TLC

CONSTANTS m1, m2, w1, w2

NoMails == {}
Only1 == {m1}
Only2 == {m2}
Both == {m1, m2}
OneWindow == {w1}
TwoWindows == {w1, w2}
OneRetry == <<1>>
TwoRetries == <<1, 2>>

=============================================================================
