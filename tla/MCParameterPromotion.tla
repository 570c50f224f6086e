------------------------ MODULE MCParameterPromotion ------------------------
(* Instances of ParameterPromotion for TLC.                                 *)
EXTENDS ParameterPromotion, TLC

CONSTANTS q1, q2, q3, q4, narrow, wide, k1, k2, w1, c1

AllProposals == {q1, q2, q3, q4}
\* q1 moves a key of the narrow scope and q2 the other key of the wide one;
\* q3 is of the immutable core and q4 is for a scope no reader resolves.
Sc == q1 :> narrow @@ q2 :> wide @@ q3 :> wide @@ q4 :> narrow
Moves == q1 :> (k1 :> 3) @@ q2 :> (k2 :> 3)
         @@ q3 :> (k1 :> 3) @@ q4 :> (k2 :> 3)
Core == {q3}
Dead == {q4}
TwoScopes == {narrow, wide}
Chain == narrow :> <<narrow, wide>> @@ wide :> <<wide>>
TwoKeys == {k1, k2}
Values == {1, 3}
FirstSnapshot == [scope |-> wide, vals |-> (k1 :> 1 @@ k2 :> 1)]
OneWorker == {w1}
OneClerk == {c1}

Turns == {{"seeded", "hand", "force"}, {"seeded", "fault"}, {"hand", "bootstrap"},
          {"seeded", "off", "hand"}, {"seeded", "overlap", "hand"}}
=============================================================================
