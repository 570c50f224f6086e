----------------------------- MODULE MCFeedback -----------------------------
(* Instances of Feedback for TLC. *)
EXTENDS Feedback, TLC

CONSTANTS keyword, graph, comment, r1, r2

TwoGrades == {1, 2}
OneGoverned == {comment}

\* The first pack served two strategies, the second one.
ServedBy == <<{keyword, graph}, {keyword}>>
TwoReconcilers == {r1, r2}

\* Passes in turns with one trouble or two, or passes that overlap.
Troubled == {{"read"}, {"append"}, {"crash", "store"}, {"repeat", "crash"}, {"overlap"}}

Symmetry == Permutations({r1, r2})
=============================================================================
