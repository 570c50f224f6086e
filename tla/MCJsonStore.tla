----------------------------- MODULE MCJsonStore -----------------------------
(* Instances of JsonStore for TLC.                                          *)
EXTENDS JsonStore, TLC

CONSTANTS p1, p2, r1, r2, on

TwoProcs == {p1, p2}
TwoIds == {r1, r2}
OneVal == {on}

Writers == Permutations(TwoProcs)

EveryFault == {"garble", "tear", "repair", "move", "unreach", "full", "restart"}
=============================================================================
