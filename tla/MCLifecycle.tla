---------------------------- MODULE MCLifecycle ----------------------------
(* Instances of Lifecycle for TLC.                                          *)
EXTENDS Lifecycle, TLC

CONSTANTS lesson, extern, origin, entity, noise, c1, c2

OneLearned == {lesson}
OneOutside == {extern}
OneMint == {entity}
OneNoisy == {noise}
TwoCallers == {c1, c2}
Alike == Permutations({c1, c2})

Mixed == {{"approve", "demote", "reinstate", "prune", "restore"},
          {"approve", "demote", "redact", "embed"},
          {"approve", "demote", "redact", "embed", "death", "outage"},
          {"demote", "reinstate", "redact", "embed"},
          {"demote", "reinstate", "redact", "death"},
          {"redact", "prune", "restore", "confirm", "outage"},
          {"reinstate", "redact", "demote", "overlap"},
          {"approve", "demote", "reinstate", "prune", "restore", "overlap"}}
=============================================================================
