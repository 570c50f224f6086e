----------------------------- MODULE TraceEmbed -----------------------------
(* The worker that makes traces searchable                                  *)
(* (trellis_workers/trace_embed): a pass renders each trace to a summary    *)
(* document, gives it the strictest label of the documents the trace cites, *)
(* embeds it when those may reach the embedder, and moves a cursor kept in  *)
(* a file.  A trace it could not embed yet goes on a bounded retry list in  *)
(* the same file.  A restamp sweep raises the summaries whose citations     *)
(* were relabelled since.  Passes may run at once, stop early or die.       *)
(*                                                                          *)
(* Traces are numbered in the order the cursor sorts them, created_at then  *)
(* id; At gives the timestamps, which may tie.  A cursor is a number, 0     *)
(* before the first trace.  Labels are 0 internal, 1 confidential and 2     *)
(* restricted.  A step is a call of a store, save that the reads that judge *)
(* one trace are one step, and so are a document write and the mirror of    *)
(* its label on the vector row, which may fail.  A dry run writes nothing   *)
(* and is left out.                                                         *)
EXTENDS Integers, FiniteSets

CONSTANTS
    N, At,              \* the traces and their timestamps
    Invalid,            \* traces no evidence write accepts: a hazardous id
    ErrorsOnly,         \* traces whose only prose is a step error
    Docs, Cites,        \* the documents, and those each trace cites
    Passes,             \* the passes that may run at once
    PageSize, MaxScan, Ceiling, RetryLimit,
    MaxActs, MaxFaults, \* bounds: edits of the documents; stops, resets, faults
    Modes               \* what may happen in a behaviour: subsets of Events

\* A trace is appended behind a newer one; a store stops answering for a
\* document; a document is relabelled; a summary is redacted; the file is
\* reset; two passes overlap; a pass stops; a pass dies, or the embedder, the
\* mirror or the save fails; the embedder is declared local; step errors are not rendered;
\* every trace is there at the start.
Events == {"backlog", "late", "unreadable", "relabel", "redact", "reset", "overlap",
           "stop", "fault", "local", "terse"}

Traces == 1..N

ASSUME TraceAssumption ==
    /\ N \in Nat
    /\ At \in [Traces -> 1..N]
    /\ \A t, u \in Traces : t <= u => At[t] <= At[u]
    /\ Invalid \subseteq Traces /\ ErrorsOnly \subseteq Traces
    /\ Cites \in [Traces -> SUBSET Docs]
    /\ PageSize \in Nat \ {0} /\ MaxScan \in Nat \ {0} /\ Ceiling \in Nat
    /\ RetryLimit \in Nat /\ MaxActs \in Nat /\ MaxFaults \in Nat
    /\ Modes \subseteq SUBSET Events

VARIABLES
    env,     \* the events that may happen, fixed at the start
    store,   \* the traces appended so far
    level,   \* the label of each cited document
    answers, \* the documents a store can answer for
    doc,     \* the summary document of each trace
    vec,     \* the label on its vector row
    file,    \* the watermark on disk
    pass,    \* the locals of each pass
    spent,   \* how much of each bound is used up
    late,    \* history: traces appended behind a newer one
    waived,  \* history: traces a pass declined for a label
    lagging  \* history: traces whose vector row missed a label of its document

world == <<env, store, level, answers, late>>
vars == <<env, store, level, answers, doc, vec, file, pass, spent, late, waived, lagging>>

Labels == 0..2
Absent == [state |-> "absent", label |-> 0]
Summary(l) == [state |-> "live", label |-> l]
Tombstone == [state |-> "tomb", label |-> 0]
Rows == [state : {"absent", "live", "tomb"}, label : Labels]
NoVector == -1

Watermark == [cursor : 0..N, retry : SUBSET Traces, swept : BOOLEAN]

Forgotten == [cursor |-> 0, retry |-> {}, swept |-> FALSE]

Idle == [pc |-> "idle", phase |-> "retry", wm |-> Forgotten,
         held |-> {}, todo |-> {}, frontier |-> 0, contiguous |-> TRUE,
         stopped |-> FALSE, terse |-> FALSE, seen |-> {}, upper |-> 0, window |-> 0,
         trace |-> 0, verdict |-> "permitted", label |-> 0, marked |-> FALSE]

Verdicts == {"permitted", "withheld", "unreadable"}

PassState ==
    [pc : {"idle", "retry", "page", "walk", "put", "embed", "sweep", "raise", "save"},
     phase : {"retry", "walk"}, wm : Watermark, held : SUBSET Traces,
     todo : SUBSET Traces, frontier : 0..N, contiguous : BOOLEAN,
     stopped : BOOLEAN, terse : BOOLEAN, seen : SUBSET Traces, upper : 0..N,
     window : Nat, trace : 0..N, verdict : Verdicts, label : Labels,
     marked : BOOLEAN]

Oldest(S) == CHOOSE t \in S : \A u \in S : t <= u

Init ==
    /\ env \in Modes
    /\ store = IF "backlog" \in env THEN Traces ELSE {}
    /\ late = {} /\ waived = {} /\ lagging = {}
    /\ level = [d \in Docs |-> 0]
    /\ answers = Docs
    /\ doc = [t \in Traces |-> Absent]
    /\ vec = [t \in Traces |-> NoVector]
    /\ file = Forgotten
    /\ pass = [p \in Passes |-> Idle]
    /\ spent = [acts |-> 0, faults |-> 0]

Goto(p, pc) == pass' = [pass EXCEPT ![p].pc = pc]
Spend(b) == spent' = [spent EXCEPT ![b] = @ + 1]

-----------------------------------------------------------------------------
(* The rest of the system                                                   *)

\* trace.ingest: created_at is the caller's, so a trace may arrive
\* behind a newer one.
Ingest(t) ==
    /\ t \notin store
    /\ LET behind == \E u \in store : u > t IN
       /\ behind => "late" \in env
       /\ late' = IF behind THEN late \cup {t} ELSE late
    /\ store' = store \cup {t}
    /\ UNCHANGED <<env, level, answers, doc, vec, file, pass, spent, waived, lagging>>

\* classification.set on a cited document.
Relabel(d) ==
    /\ "relabel" \in env /\ spent.acts < MaxActs
    /\ level' = [level EXCEPT ![d] = 1 - @]
    /\ Spend("acts")
    /\ UNCHANGED <<env, store, answers, doc, vec, file, pass, late, waived, lagging>>

\* A store stops answering for a document, or answers again.
Flip(d) ==
    /\ "unreadable" \in env /\ spent.acts < MaxActs
    /\ answers' = IF d \in answers THEN answers \ {d} ELSE answers \cup {d}
    /\ Spend("acts")
    /\ UNCHANGED <<env, store, level, doc, vec, file, pass, late, waived, lagging>>

\* redaction.execute on a summary: its vector goes and a tombstone stays.
Redact(t) ==
    /\ "redact" \in env /\ spent.acts < MaxActs
    /\ doc[t].state = "live"
    /\ doc' = [doc EXCEPT ![t] = Tombstone]
    /\ vec' = [vec EXCEPT ![t] = NoVector]
    /\ lagging' = lagging \ {t}
    /\ Spend("acts")
    /\ UNCHANGED <<world, file, pass, waived>>

\* The restamp interval is over.
Lapse ==
    /\ file.swept \/ \E p \in Passes : pass[p].wm.swept
    /\ file' = [file EXCEPT !.swept = FALSE]
    /\ pass' = [p \in Passes |-> [pass[p] EXCEPT !.wm.swept = FALSE]]
    /\ UNCHANGED <<world, doc, vec, spent, waived, lagging>>

-----------------------------------------------------------------------------
(* Judging a trace                                                          *)

\* EgressGate._cited: what the documents a trace cites say of its summary.
Unread(t) == Cites[t] \ answers
Inherited(t) ==
    IF Unread(t) # {} THEN 2
    ELSE IF \E d \in Cites[t] : level[d] = 1 THEN 1 ELSE 0
Withholds(t) == "local" \notin env /\ \E d \in Cites[t] \cap answers : level[d] > 0

\* strictest_verdict: a fault never hides a permanent refusal.
Verdict(t) == IF Withholds(t) THEN "withheld"
              ELSE IF Unread(t) # {} THEN "unreadable" ELSE "permitted"

-----------------------------------------------------------------------------
(* One pass                                                                 *)

\* run_trace_embed_pass: load the watermark, or forget it in memory.
Load(p, wm) ==
    /\ pass[p].pc = "idle"
    /\ "overlap" \in env \/ \A q \in Passes : pass[q].pc = "idle"
    /\ \E terse \in {FALSE, "terse" \in env} :
         pass' = [pass EXCEPT ![p] =
            [Idle EXCEPT !.pc = "retry", !.wm = wm, !.held = wm.retry,
                         !.todo = wm.retry, !.frontier = wm.cursor, !.terse = terse]]
    /\ UNCHANGED <<world, doc, vec, file, waived, lagging>>

Start(p) == Load(p, file) /\ UNCHANGED spent

\* --reset-watermark, by hand.
StartAfresh(p) ==
    /\ "reset" \in env /\ spent.faults < MaxFaults
    /\ Load(p, Forgotten)
    /\ Spend("faults")

\* _retry_held is over: collect_candidates starts from now, walking back.
Collect(p) ==
    /\ pass[p].pc = "retry" /\ pass[p].todo = {}
    /\ pass' = [pass EXCEPT ![p].pc = "page", ![p].upper = N, ![p].window = PageSize]
    /\ UNCHANGED <<world, doc, vec, file, spent, waived, lagging>>

\* TraceStore.query: the newest `window' traces of the range; both ends are
\* inclusive and ties come in any order.
Since(self, t) == self.wm.cursor # 0 => At[t] >= At[self.wm.cursor]
InRange(self) == {t \in store : At[t] <= self.upper /\ Since(self, t)}

Pages(self) ==
    LET rows == InRange(self) IN
    {S \in SUBSET rows :
        /\ Cardinality(S) <= self.window
        /\ Cardinality(S) < self.window => S = rows
        /\ \A t \in S, u \in rows \ S : At[t] >= At[u]}

\* The oldest MaxScan traces after the cursor.
Behind(S, t) == Cardinality({u \in S : u < t})
Slice(S, cursor) ==
    LET after == {t \in S : t > cursor} IN {t \in after : Behind(after, t) < MaxScan}

\* A full page of rows already seen is a cluster of equal timestamps: the
\* same place is read again with a wider window.
Stalled(self, page) == page \subseteq self.seen

\* One page of collect_candidates.
Page(p) ==
    /\ pass[p].pc = "page"
    /\ \E page \in Pages(pass[p]) :
         LET self == pass[p]
             seen == self.seen \cup page
         IN pass' = [pass EXCEPT ![p] =
              IF page # {} /\ Cardinality(seen) > Ceiling
              THEN Idle                      \* TraceEmbedScanLimitError
              ELSE IF Cardinality(page) < self.window
              THEN [self EXCEPT !.pc = "walk", !.phase = "walk", !.seen = {},
                                !.todo = Slice(seen, self.wm.cursor),
                                !.upper = 0, !.window = 0]
              ELSE IF Stalled(self, page)
              THEN [self EXCEPT !.window = 2 * @]
              ELSE [self EXCEPT !.seen = seen, !.upper = At[Oldest(page)]]]
    /\ UNCHANGED <<world, doc, vec, file, spent, waived, lagging>>

\* What the driver does with process(trace).  On the retry list, a trace
\* that ended well leaves it.  On the walk, one that did not is listed while
\* there is room, and otherwise pins the cursor behind it.
HoldInstead(self, ok) == FALSE
ListIt(self, ok) ==
    ~ok /\ self.contiguous /\ Cardinality(self.held) < RetryLimit

Passed(self, ok) == self.contiguous /\ (ok \/ ListIt(self, ok))

Ended(self, t, ok) ==
    LET done == [self EXCEPT !.pc = self.phase, !.todo = @ \ {t}, !.trace = 0,
                             !.verdict = "permitted", !.label = 0]
    IN IF self.phase = "retry"
       THEN [done EXCEPT !.held = IF ok THEN @ \ {t} ELSE @]
       ELSE [done EXCEPT !.held = IF ListIt(self, ok) THEN @ \cup {t} ELSE @,
                         !.frontier = IF Passed(self, ok) THEN t ELSE @,
                         !.contiguous = @ /\ (ok \/ ListIt(self, ok))]

\* trace_is_embedded asks the vector store, not the watermark.
Embedded(t) == vec[t] # NoVector

\* _process_one up to the write: what needs none of it, or is judged.
Take(p) ==
    LET self == pass[p]
        t == Oldest(self.todo)
    IN /\ self.pc \in {"retry", "walk"} /\ self.todo # {}
       /\ pass' = [pass EXCEPT ![p] =
            IF t \in Invalid \/ Embedded(t) THEN Ended(self, t, TRUE)
            ELSE IF self.terse /\ t \in ErrorsOnly THEN Ended(self, t, FALSE)
            ELSE [self EXCEPT !.pc = "put", !.trace = t,
                              !.verdict = Verdict(t), !.label = Inherited(t)]]
       /\ UNCHANGED <<world, doc, vec, file, spent, waived, lagging>>

PutDocAlone(t, l) ==
    /\ doc' = [doc EXCEPT ![t] = Summary(l)]
    /\ UNCHANGED <<vec, lagging, spent>>

\* put_document writes the row unless it is a tombstone, and mirrors the
\* label on a vector row that is there.  A mirror that throws is logged and
\* the write stands.
PutDoc(t, l) ==
    /\ doc' = [doc EXCEPT ![t] = Summary(l)]
    /\ \/ /\ vec' = [vec EXCEPT ![t] = IF @ = NoVector THEN NoVector ELSE l]
          /\ lagging' = lagging \ {t}
          /\ UNCHANGED spent
       \/ /\ "fault" \in env /\ spent.faults < MaxFaults
          /\ vec[t] \notin {NoVector, l}
          /\ lagging' = lagging \cup {t}
          /\ Spend("faults")
          /\ UNCHANGED vec

\* EvidenceIngestHandler.handle: a tombstone is refused for good, a withheld
\* summary is stored and passed, an unreadable one is stored and held.
Put(p) ==
    LET self == pass[p]
        t == self.trace
        refused == doc[t].state = "tomb"
    IN /\ self.pc = "put"
       /\ IF refused THEN UNCHANGED <<doc, vec, lagging, spent>> ELSE PutDoc(t, self.label)
       /\ waived' = IF ~refused /\ self.verdict = "withheld"
                    THEN waived \cup {t} ELSE waived
       /\ pass' = [pass EXCEPT ![p] =
            IF ~refused /\ self.verdict = "permitted" THEN [self EXCEPT !.pc = "embed"]
            ELSE Ended(self, t, refused \/ self.verdict = "withheld")]
       /\ UNCHANGED <<world, file>>

\* _embed_strict: the vector row carries the label the document was given.
Embed(p) ==
    LET self == pass[p]
        t == self.trace
    IN /\ self.pc = "embed"
       /\ vec' = [vec EXCEPT ![t] = self.label]
       /\ lagging' = lagging \ {t}
       /\ pass' = [pass EXCEPT ![p] = Ended(self, t, TRUE)]
       /\ UNCHANGED <<world, doc, file, spent, waived>>

\* The embedder or the vector store fails: the command does.
EmbedFails(p) ==
    /\ "fault" \in env /\ spent.faults < MaxFaults
    /\ pass[p].pc = "embed"
    /\ pass' = [pass EXCEPT ![p] = Ended(pass[p], pass[p].trace, FALSE)]
    /\ Spend("faults")
    /\ UNCHANGED <<world, doc, vec, file, waived, lagging>>

\* should_continue is asked before each trace.
Stop(p) ==
    /\ "stop" \in env /\ spent.faults < MaxFaults
    /\ pass[p].pc \in {"retry", "walk"} /\ pass[p].todo # {}
    /\ pass' = [pass EXCEPT ![p].pc = "walk", ![p].phase = "walk",
                            ![p].todo = {}, ![p].stopped = TRUE]
    /\ Spend("faults")
    /\ UNCHANGED <<world, doc, vec, file, waived, lagging>>

-----------------------------------------------------------------------------
(* Commit: the restamp sweep when one is due, then the file                 *)

Live(t) == doc[t].state = "live"

Commit(p) ==
    LET due == ~pass[p].stopped /\ ~pass[p].wm.swept
    IN /\ pass[p].pc = "walk" /\ pass[p].todo = {}
       /\ pass' = [pass EXCEPT ![p].pc = IF due THEN "sweep" ELSE "save",
                               ![p].todo = IF due THEN {t \in Traces : Live(t)} ELSE {}]
       /\ UNCHANGED <<world, doc, vec, file, spent, waived, lagging>>

\* restamp_summaries: one summary, in the listing's order.  A restricted one
\* is not judged; one that cannot be judged waits for the next sweep.
RaisesTwoSteps(t) == Unread(t) = {} /\ Inherited(t) > doc[t].label + 1
Raises(t) == Unread(t) = {} /\ Inherited(t) > doc[t].label

Judge(p) ==
    LET self == pass[p] IN
    /\ self.pc = "sweep"
    /\ \E t \in self.todo :
         LET judged == Live(t) /\ doc[t].label < 2 IN
         pass' = [pass EXCEPT ![p] =
            [self EXCEPT !.todo = @ \ {t},
                         !.marked = @ \/ judged,
                         !.pc = IF judged /\ Raises(t) THEN "raise" ELSE "sweep",
                         !.trace = IF judged /\ Raises(t) THEN t ELSE 0,
                         !.label = IF judged /\ Raises(t) THEN Inherited(t) ELSE 0]]
    /\ UNCHANGED <<world, doc, vec, file, spent, waived, lagging>>

Higher(l, m) == IF l > m THEN l ELSE m

\* The command judges the citations again and keeps the higher label.
Raise(p) ==
    LET self == pass[p]
        t == self.trace
    IN /\ self.pc = "raise"
       /\ IF doc[t].state = "tomb" THEN UNCHANGED <<doc, vec, lagging, spent>>
          ELSE PutDoc(t, Higher(self.label, Inherited(t)))
       /\ pass' = [pass EXCEPT ![p].pc = "sweep", ![p].trace = 0, ![p].label = 0]
       /\ UNCHANGED <<world, file, waived>>

Swept(p) ==
    /\ pass[p].pc = "sweep" /\ pass[p].todo = {}
    /\ pass' = [pass EXCEPT ![p].pc = "save",
                            ![p].wm.swept = @ \/ pass[p].marked]
    /\ UNCHANGED <<world, doc, vec, file, spent, waived, lagging>>

\* _commit, TraceEmbedWatermark.save: nothing is written unless the cursor
\* moved, the list changed or a sweep was marked.
Dirty(self) == \/ self.frontier # self.wm.cursor
               \/ self.held # self.wm.retry
               \/ self.marked
KeptWithoutList(self) ==
    [cursor |-> self.frontier, retry |-> self.wm.retry, swept |-> self.wm.swept]
Kept(self) == [cursor |-> self.frontier, retry |-> self.held, swept |-> self.wm.swept]

Save(p) ==
    /\ pass[p].pc = "save"
    /\ file' = IF Dirty(pass[p]) THEN Kept(pass[p]) ELSE file
    /\ pass' = [pass EXCEPT ![p] = Idle]
    /\ UNCHANGED <<world, doc, vec, spent, waived, lagging>>

\* The process dies, or the save raises an OSError that is swallowed: what
\* the pass knew is lost, and the file is as it was.
Die(p) ==
    /\ "fault" \in env /\ spent.faults < MaxFaults
    /\ pass[p].pc # "idle"
    /\ pass' = [pass EXCEPT ![p] = Idle]
    /\ Spend("faults")
    /\ UNCHANGED <<world, doc, vec, file, waived, lagging>>

-----------------------------------------------------------------------------
Step(p) == \/ Start(p) \/ Collect(p) \/ Page(p) \/ Take(p) \/ Put(p) \/ Embed(p)
           \/ Commit(p) \/ Judge(p) \/ Raise(p) \/ Swept(p) \/ Save(p)

Next ==
    \/ \E t \in Traces : Ingest(t) \/ Redact(t)
    \/ \E d \in Docs : Relabel(d) \/ Flip(d)
    \/ Lapse
    \/ \E p \in Passes : Step(p) \/ StartAfresh(p) \/ EmbedFails(p) \/ Stop(p) \/ Die(p)

Spec == Init /\ [][Next]_vars

\* The worker runs again and again, and the interval ends every time.
FairSpec == Spec /\ WF_vars(Lapse) /\ \A p \in Passes : WF_vars(Step(p))

-----------------------------------------------------------------------------
(* Properties                                                               *)

\* Every variable keeps its type.
TypeOK ==
    /\ env \in SUBSET Events
    /\ store \in SUBSET Traces /\ late \in SUBSET store
    /\ waived \in SUBSET Traces /\ lagging \in SUBSET Traces
    /\ level \in [Docs -> {0, 1}] /\ answers \in SUBSET Docs
    /\ doc \in [Traces -> Rows]
    /\ vec \in [Traces -> Labels \cup {NoVector}]
    /\ file \in Watermark
    /\ pass \in [Passes -> PassState]
    /\ spent \in [acts : 0..MaxActs, faults : 0..MaxFaults]

\* Embedded, or refused for good: an id no write accepts, a redacted summary,
\* or a label that keeps it off the embedder.
Done(t) == \/ t \in Invalid \/ Embedded(t)
           \/ doc[t].state = "tomb" \/ t \in waived

Accounted(cursor, list) ==
    \A t \in store \ late : t <= cursor => Done(t) \/ t \in list

\* No trace is stepped over: behind the cursor on disk, and behind the one
\* each pass will save, every trace is done or on the list beside it,
\* whatever passes overlap, stop, die, lose their save or start afresh.  And
\* the list never outgrows its bound.
NothingSkipped ==
    /\ Accounted(file.cursor, file.retry)
    /\ Cardinality(file.retry) <= RetryLimit
    /\ \A p \in Passes : pass[p].pc # "idle" =>
         /\ Accounted(pass[p].frontier, pass[p].held)
         /\ Cardinality(pass[p].held) <= RetryLimit

\* A vector row of a summary that stands carries the label of its document,
\* save that a mirror that failed leaves it the older one until the document
\* is written again, and two passes at work on one trace can do the same.
VectorsCarryLabel ==
    \A t \in Traces :
        Live(t) /\ Embedded(t) /\ "overlap" \notin env /\ t \notin lagging =>
            vec[t] = doc[t].label

Healthy(t) == /\ Cites[t] \subseteq answers
              /\ "terse" \in env => t \notin ErrorsOnly
Stuck == {t \in store : ~Healthy(t)}

\* A trace that cannot be embedded yet does not starve the others: while the
\* stuck traces fit the retry list, every other trace is done in the end.
NothingStarves ==
    <>[](Cardinality(Stuck) <= RetryLimit =>
            \A t \in store \ late : Healthy(t) => Done(t))

\* A summary whose citation is relabelled above it is raised in the end when
\* the citations can be read and passes take turns, and its vector row with
\* it.  The sweep judges the document alone, so a vector row whose mirror
\* failed stays behind it for as long as no higher label comes.
RelabelReaches ==
    <>[](\A t \in Traces :
            Live(t) /\ Unread(t) = {} /\ "overlap" \notin env =>
                /\ doc[t].label >= Inherited(t)
                /\ Embedded(t) /\ t \notin lagging => vec[t] >= Inherited(t))
=============================================================================
