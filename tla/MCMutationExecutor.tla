------------------------- MODULE MCMutationExecutor -------------------------
(* Instances of MutationExecutor for TLC. *)
EXTENDS MutationExecutor, TLC

CONSTANTS w1, w2, k1, k2

TwoWorkers == {w1, w2}
TwoKeys == {k1, k2}
HookedKey == {k2}

\* One key submitted twice in a batch, and a command without a key.
Repeats == {<<k1, k2, k1>>, <<NULL, k1>>}

SymmetricWorkers == Permutations({w1, w2})
=============================================================================
