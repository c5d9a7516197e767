----------------------------- MODULE MCImapSync -----------------------------
(* ImapSync on small instances. *)
EXTENDS ImapSync, TLC

CONSTANTS m1, m2, inbox, trash, c1, c2, r1, r2, r3

NoMails == {}
OneMail == {m1}
TwoMails == {m1, m2}
AllOrNone == {{}, TwoMails}
JustSecond == {m2}
TwoRows == {r1, r2}
ThreeRows == {r1, r2, r3}
OneCall == {c1}
TwoCalls == {c1, c2}
JustMove == {"move"}
Nothing == {}
RowIds == Permutations(Rows)

=============================================================================
