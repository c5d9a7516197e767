------------------------- MODULE MCServerScheduled -------------------------
(***************************************************************************)
(* ServerScheduled on small instances.                                     *)
(***************************************************************************)
EXTENDS ServerScheduled, TLC

CONSTANTS m1, m2, s1, s2, s3, c1, c2

OneMail == {m1}
TwoMails == {m1, m2}
ThreeSubs == {s1, s2, s3}
OneCall == {c1}
TwoCalls == {c1, c2}
NoLateOnes == {"lost", "silent", "refused"}

=============================================================================
