---------------------------- MODULE MCCorpusSync ----------------------------
(* Instances of CorpusSync for TLC. *)
EXTENDS CorpusSync, TLC

CONSTANTS p, q, short, mid, long, a, b, c, d

TwoPaths == {p, q}
AllTexts == {short, mid, long}
AllPieces == {a, b, c, d}

\* A text that is not cut, one of two pieces, and one that keeps the first of
\* them and has two others.
Cut == short :> <<>> @@ mid :> <<a, b>> @@ long :> <<a, c, d>>

\* One file with chunks at the start, which may shrink at once: the other path
\* is free for copies and moves.
OneFile == {p :> long @@ q :> NONE}

\* What may happen together in one behaviour.
Disturbed == {{"fault", "prune"}, {"vectors"}, {"prune", "classify"},
              {"prune", "partial"}, {"overlap"}}
PartRuns == {{"partial"}}
DyingPrunes == {{"fault", "prune"}}

=============================================================================
