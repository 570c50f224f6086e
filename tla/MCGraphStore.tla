---------------------------- MODULE MCGraphStore ----------------------------
(* Instances of GraphStore for TLC.                                        *)
EXTENDS GraphRefinement, TLC

CONSTANTS p1, p2, n1, n2, alpha, beta, semantic, curated

TwoProcs == {p1, p2}
OneNode == {n1}
TwoNodes == {n1, n2}
OneName == {alpha}
TwoNames == {alpha, beta}
OneRole == {semantic}
TwoRoles == {semantic, curated}

Symmetry2 == Permutations({p1, p2})

\* The governed writers of a node, with purge and compaction beside them.
ConditionalOps == {"rewrite", "replace", "delete", "compact"}
BindingOps == {"upsert", "link", "dangle", "unlink", "alias", "bind", "delete", "compact"}
=============================================================================
