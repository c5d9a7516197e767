----------------------------- MODULE MCJmapSync -----------------------------
(* JmapSync on small instances. *)
EXTENDS JmapSync, TLC

CONSTANTS e1, e2, inbox, trash, c1, c2

NoMails == {}
OneMail == {e1}
TwoMails == {e1, e2}
Deep == {e2}
TwoBoxes == {inbox, trash}
OnlyInbox == {inbox}
OneCall == {c1}
TwoCalls == {c1, c2}
JustTrash == {"trash"}
Nothing == {}
Windows == Permutations(TwoCalls)

=============================================================================
