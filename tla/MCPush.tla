------------------------------- MODULE MCPush -------------------------------
(* Model values and bounds for TLC: a subscription is kept while two others are left behind. *)
EXTENDS Push

CONSTANTS i1, i2, i3

ThreeIds == {i1, i2, i3}

=============================================================================
