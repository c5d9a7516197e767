---------------------------- MODULE MCAutoLabels ----------------------------
(***************************************************************************)
(* Two mails of one sender, three labels of which one has a rule that      *)
(* matches the second mail.                                                *)
(***************************************************************************)
EXTENDS AutoLabels, TLC

CONSTANTS m1, m2, l1, l2, l3, sender, c1, c2

OneMail == {m1}
TwoMails == {m1, m2}
TwoLabels == {l1, l2}
ThreeLabels == {l1, l2, l3}
OneSender == {sender}
SameSender == [m \in Mails |-> sender]
FirstByRule == Mails \X {l1}
SomeSymmetry == Permutations({m1, m2}) \union Permutations({l2, l3})
LabelSymmetry == Permutations({l2, l3})
OneCaller == {c1}
TwoCallers == {c1, c2}

WindowSymmetry == LabelSymmetry \union Permutations({c1, c2})
=============================================================================
