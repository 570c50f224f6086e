---------------------------- MODULE MCTraceEmbed ----------------------------
(* Instances of TraceEmbed for TLC.                                         *)
EXTENDS TraceEmbed

CONSTANTS a, b, p1

\* Three traces at one instant, wider than a page, and a later one.
Tied == <<1, 1, 1, 2>>
TwoDocs == {a, b}
\* Trace 1 cites a, trace 2 cites both, the others nothing.
Citing == <<{a}, {a, b}, {}, {}>>
OneInvalid == {3}
OneTerse == {4}
OnePass == {p1}

Alone == {{"fault", "unreadable", "terse"}, {"stop", "unreadable", "relabel"},
          {"redact", "reset", "unreadable"}, {"local", "relabel", "unreadable"},
          {"late", "fault"}, {"fault", "relabel"}}
=============================================================================
