---------------------------- MODULE MCAccessLog -----------------------------
(* Instances of AccessLog for TLC.                                          *)
EXTENDS AccessLog

CONSTANTS r1, r2, r3

ThreeReads == {r1, r2, r3}
\* Two small bodies fill the queue; the large one fits only an empty queue.
Sizes == [r \in ThreeReads |-> IF r = r3 THEN 2 ELSE 1]
AllModes == {{"raise", "shutdown"}, {"garbled", "watch"}, {"nothread", "raise"},
             {"nothread", "shutdown"}, {"watch", "shutdown"}}
=============================================================================
