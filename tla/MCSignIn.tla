------------------------------ MODULE MCSignIn ------------------------------
(* Model values, sets and bounds for TLC. *)
EXTENDS SignIn, TLC

CONSTANTS m, s, t, c1, c2, c3

OneShared == {s}
TwoShared == {s, t}
TwoCalls == {c1, c2}
ThreeCalls == {c1, c2, c3}
AllUses == Ops
CallSymmetry == Permutations(Calls)
FullSymmetry == Permutations(Calls) \union Permutations(Shared)

=============================================================================
