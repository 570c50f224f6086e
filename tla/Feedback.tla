------------------------------ MODULE Feedback ------------------------------
(***************************************************************************)
(* Grades of context packs (trellis/feedback).  record_feedback writes a   *)
(* grade three times over: a line of pack_feedback.jsonl, an event of the  *)
(* event log, and outcome rows, one for the pack builder and one for each  *)
(* strategy the pack served.  Only the line is sure; every later write     *)
(* fails soft.  Two passes repair what is missing: reconcile emits events  *)
(* for lines, and the backfill replays events into rows.                   *)
(*                                                                         *)
(* A grade is a feedback_id.  The event has it for its key: a call made    *)
(* again with the same id logs nothing more.  The line and the rows have   *)
(* no key: such a call appends another line and every row once more.       *)
(*                                                                         *)
(* A grade is a number, and grades are numbered in the order of their      *)
(* timestamps, which a grade carries from its first call on.  Calls of one *)
(* grade follow each other.  What a pack recorded of itself is read-only   *)
(* here.                                                                   *)
(***************************************************************************)
EXTENDS Naturals, Sequences, FiniteSets, SequencesExt

CONSTANTS
    Grades,       \* the feedback_ids record_feedback is called with, 1..n
    Governed,     \* grades of feedback.record: an event, no attribution
    Served,       \* the mapped strategies the pack of each grade served
    Reconcilers,  \* processes that run a reconcile
    ChunkSize,    \* _APPEND_CHUNK
    MaxCalls,     \* bound on the calls, where they may be made again
    MaxPasses,    \* bound on the reconciles and backfills begun
    MaxCrowded,   \* ... where they may overlap, or calls be made again
    Modes,        \* what may happen in this instance: subsets of Troubles
    NoGrade

\* A pass overlaps a call or another pass; a call is made again; a process
\* dies; a read of the event log fails; an append to it fails; an append to the
\* outcome store fails.
Troubles == {"overlap", "repeat", "crash", "read", "append", "store"}

\* The pack level row's component, and the strategies'.
PackBuilder == "pack"
Components == {PackBuilder} \cup UNION {Served[g] : g \in Grades}

\* The learning cell of a row: the axes the pack recorded, or none.
Cells == {"scoped", "unscoped"}

ASSUME FeedbackConstants ==
    /\ IsFiniteSet(Grades) /\ Grades = 1..Cardinality(Grades)
    /\ IsFiniteSet(Governed) /\ IsFiniteSet(Reconcilers)
    /\ Governed \cap (Grades \cup {NoGrade}) = {} /\ NoGrade \notin Grades
    /\ DOMAIN Served = Grades
    /\ \A g \in Grades : IsFiniteSet(Served[g]) /\ PackBuilder \notin Served[g]
    /\ ChunkSize \in Nat \ {0} /\ MaxCalls \in Nat /\ MaxPasses \in Nat /\ MaxCrowded \in Nat
    /\ Modes \subseteq SUBSET Troubles

VARIABLES
    env,      \* the troubles of this behaviour
    lines,    \* how many lines of each grade pack_feedback.jsonl has
    events,   \* the FEEDBACK_RECORDED events, oldest first
    rows,     \* the outcome rows, in the order they were appended
    call,     \* each call: its stage, the cell and strategies it looked up
    recon,    \* each reconciler: its stage, its lines, those left, its failures
    fill,     \* the backfill: its stage, its plan, and what it has read
    passes    \* passes begun

feedbackVars == <<env, lines, events, rows, call, recon, fill, passes>>

Stages == {"new", "check", "emit", "pack", "fan", "done"}

Event(g, packed) == [of |-> g, packed |-> packed]
Row(g, c, cell) == [of |-> g, at |-> c, cell |-> cell]
Logged == {events[i].of : i \in DOMAIN events}
InFile == {g \in Grades : lines[g] > 0}

\* _row_key; a row of a governed grade would have none.
RowKey(r) == <<r.of, r.at>>
KeysOf(s) == {RowKey(s[i]) : i \in DOMAIN s}

\* A grade of a trace, or of a pack that recorded nothing, has no axes.
CellOf(g) == IF Served[g] = {} THEN "unscoped" ELSE "scoped"

EventType == [of: Grades \cup Governed, packed: BOOLEAN]
RowType == [of: Grades, at: Components, cell: Cells]
CallType == [pc: Stages, cell: Cells, todo: SUBSET Components]
ReconType == [pc: {"idle", "scan", "emit", "done"}, lines: SUBSET Grades, todo: [Grades -> Nat],
              at: Grades \cup {NoGrade}, failed: SUBSET Grades]
FillType == [pc: {"idle", "count", "query", "write", "done"}, seen: SUBSET Grades,
             plan: Seq(RowType), count: Nat]

FeedbackTypeOK ==
    /\ env \in Modes
    /\ lines \in [Grades -> Nat]
    /\ events \in Seq(EventType)
    /\ rows \in Seq(RowType)
    /\ call \in [Grades -> CallType]
    /\ recon \in [Reconcilers -> ReconType]
    /\ fill \in FillType
    /\ passes \in Nat

FeedbackInit ==
    /\ env \in Modes
    /\ rows = <<>>
    \* The first grades may be from before the bridge to the outcome store.
    \* feedback.record's events have no feedback_id and never had rows.
    /\ \E old \in {1..n : n \in 0..Cardinality(Grades)} :
         /\ lines = [g \in Grades |-> IF g \in old THEN 1 ELSE 0]
         /\ events = [i \in old |-> Event(i, Served[i] # {})]
                      \o SetToSeq({Event(g, FALSE) : g \in Governed})
         /\ call = [g \in Grades |-> [pc   |-> IF g \in old THEN "done" ELSE "new",
                                      cell |-> "unscoped", todo |-> {}]]
    /\ recon = [r \in Reconcilers |->
                  [pc |-> "idle", lines |-> {}, todo |-> [g \in Grades |-> 0],
                   at |-> NoGrade, failed |-> {}]]
    /\ fill = [pc |-> "idle", seen |-> {}, plan |-> <<>>, count |-> 0]
    /\ passes = 0

-----------------------------------------------------------------------------
CallsRest == \A g \in Grades : call[g].pc \in {"new", "done"}
PassesRest ==
    /\ \A r \in Reconcilers : recon[r].pc \in {"idle", "done"}
    /\ fill.pc \in {"idle", "done"}

Stage(g, pc) == call' = [call EXCEPT ![g].pc = pc]

\* What one bridge may find when it looks a pack up: its axes and its
\* strategies are two reads, and each fails soft to nothing.
Lookups(g) ==
    IF "read" \in env THEN {CellOf(g), "unscoped"} \X {Served[g], {}}
    ELSE {<<CellOf(g), Served[g]>>}

\* record_outcome never raises: a row that cannot be appended is gone.
Recorded(r) ==
    \/ rows' = Append(rows, r)
    \/ "store" \in env /\ UNCHANGED rows

\* The line comes first, whether the grade is new or was recorded before.
AppendLine(g) ==
    /\ \/ /\ call[g].pc = "new"
          /\ \A h \in Grades : h < g => call[h].pc # "new"
       \/ "repeat" \in env /\ call[g].pc = "done" /\ FoldFunction(+, 0, lines) < MaxCalls
    /\ PassesRest \/ "overlap" \in env
    /\ lines' = [lines EXCEPT ![g] = @ + 1]
    /\ Stage(g, "check")
    /\ UNCHANGED <<env, events, rows, recon, fill, passes>>

\* No lookup: the event is emitted as the line was appended.
CheckNothing(g) ==
    /\ call[g].pc = "check"
    /\ Stage(g, "emit")
    /\ UNCHANGED <<env, lines, events, rows, recon, fill, passes>>

\* _feedback_id_in_event_log; a read that raises leaves the event out.
CheckEvent(g) ==
    /\ call[g].pc = "check"
    /\ \/ g \in Logged /\ Stage(g, "pack")
       \/ g \notin Logged /\ Stage(g, "emit")
       \/ "read" \in env /\ Stage(g, "pack")
    /\ UNCHANGED <<env, lines, events, rows, recon, fill, passes>>

EmitEvent(g) ==
    /\ call[g].pc = "emit"
    /\ \/ events' = Append(events, Event(g, Served[g] # {}))
       \/ "append" \in env /\ UNCHANGED events
    /\ Stage(g, "pack")
    /\ UNCHANGED <<env, lines, rows, recon, fill, passes>>

\* _resolve_scope, once for all rows of the grade, the pack builder's row, and
\* the strategies the others are for.
PackRow(g) ==
    /\ call[g].pc = "pack"
    /\ \E found \in Lookups(g) :
         /\ Recorded(Row(g, PackBuilder, found[1]))
         /\ call' = [call EXCEPT ![g] =
                       [pc   |-> IF found[2] = {} THEN "done" ELSE "fan",
                        cell |-> found[1], todo |-> found[2]]]
    /\ UNCHANGED <<env, lines, events, recon, fill, passes>>

StrategyRow(g) ==
    /\ call[g].pc = "fan"
    /\ \E c \in call[g].todo :
         /\ Recorded(Row(g, c, call[g].cell))
         /\ call' = [call EXCEPT ![g].todo = @ \ {c},
                                 ![g].pc = IF call[g].todo = {c} THEN "done" ELSE @]
    /\ UNCHANGED <<env, lines, events, recon, fill, passes>>

CallDies(g) ==
    /\ "crash" \in env
    /\ call[g].pc \notin {"new", "done"}
    /\ Stage(g, "done")
    /\ UNCHANGED <<env, lines, events, rows, recon, fill, passes>>

-----------------------------------------------------------------------------
BeginPass ==
    /\ passes < IF env \cap {"overlap", "repeat"} # {} THEN MaxCrowded ELSE MaxPasses
    /\ passes' = passes + 1
    /\ "overlap" \in env \/ (CallsRest /\ PassesRest)

\* load_feedback_log
LoadLines(r) ==
    /\ recon[r].pc \in {"idle", "done"}
    /\ BeginPass
    /\ recon' = [recon EXCEPT ![r] =
                   [pc |-> "scan", lines |-> InFile, todo |-> lines,
                    at |-> NoGrade, failed |-> {}]]
    /\ UNCHANGED <<env, lines, events, rows, call, fill>>

\* One line: nothing to do if its event is there.
Scan(r) ==
    /\ recon[r].pc = "scan"
    /\ \E g \in Grades :
         /\ recon[r].todo[g] > 0
         /\ recon' = [recon EXCEPT ![r].todo[g] = @ - 1,
                                   ![r].pc = IF g \in Logged THEN "scan" ELSE "emit",
                                   ![r].at = IF g \in Logged THEN NoGrade ELSE g]
    /\ UNCHANGED <<env, lines, events, rows, call, fill, passes>>

\* The pack is found again in the line's metadata, where the writers put it.
Replayed(g) == Event(g, Served[g] # {})

\* The emit of a line found missing, some time after it was.
ReEmit(r) ==
    /\ recon[r].pc = "emit"
    /\ \/ /\ events' = Append(events, Replayed(recon[r].at))
          /\ recon' = [recon EXCEPT ![r].pc = "scan", ![r].at = NoGrade]
       \/ /\ "append" \in env
          /\ recon' = [recon EXCEPT ![r].pc = "scan", ![r].at = NoGrade,
                                    ![r].failed = @ \cup {recon[r].at}]
          /\ UNCHANGED events
    /\ UNCHANGED <<env, lines, rows, call, fill, passes>>

Report(r) ==
    /\ recon[r].pc = "scan" /\ \A g \in Grades : recon[r].todo[g] = 0
    /\ recon' = [recon EXCEPT ![r].pc = "done"]
    /\ UNCHANGED <<env, lines, events, rows, call, fill, passes>>

\* The process dies, or a check raises, which nothing in the loop catches.
ReconcileStops(r) ==
    /\ \/ "crash" \in env /\ recon[r].pc \in {"scan", "emit"}
       \/ "read" \in env /\ recon[r].pc = "scan"
    /\ recon' = [recon EXCEPT ![r].pc = "idle"]
    /\ UNCHANGED <<env, lines, events, rows, call, fill, passes>>

-----------------------------------------------------------------------------
\* The rows the bridge makes of an event, the pack's own first.  Without a
\* feedback_id the event is another writer's, without a pack_id a trace's.
Bridged(e, found) ==
    IF e.of \in Governed THEN <<>>
    ELSE IF ~e.packed THEN <<Row(e.of, PackBuilder, "unscoped")>>
    ELSE LET cell == found[e.of][1]
             served == SetToSeq(found[e.of][2])
         IN  <<Row(e.of, PackBuilder, cell)>>
             \o [i \in DOMAIN served |-> Row(e.of, served[i], cell)]

\* All events are bridged into a store in memory.
Plan ==
    /\ fill.pc \in {"idle", "done"}
    /\ BeginPass
    /\ \E found \in [Grades -> Cells \X SUBSET Components] :
         /\ \A g \in Grades : found[g] \in Lookups(g)
         /\ fill' = [pc |-> "count", seen |-> Logged \ Governed, count |-> 0,
                     plan |-> FlattenSeq([i \in DOMAIN events |-> Bridged(events[i], found)])]
    /\ UNCHANGED <<env, lines, events, rows, call, recon>>

CountRows ==
    /\ fill.pc = "count"
    /\ fill' = [fill EXCEPT !.pc = "query", !.count = Len(rows)]
    /\ UNCHANGED <<env, lines, events, rows, call, recon, passes>>

\* The first n rows by when the grade was given and then by rowid.
FirstRows(n) ==
    LET Before(j, i) == rows[j].of < rows[i].of \/ (rows[j].of = rows[i].of /\ j < i)
    IN  {rows[i] : i \in {i \in DOMAIN rows :
            Cardinality({j \in DOMAIN rows : Before(j, i)}) < n}}

\* query with its own default limit, small here.
OldestByDefault(limit) == FirstRows(2)

\* query: the oldest rows up to a limit.
Oldest(limit) == FirstRows(limit)

\* Whether a row is there already, were the grade its identity.
PresentByGrade(r, found) == \E s \in found : s.of = r.of

\* What is in the store already is not written again.
Present(r, found) == \E s \in found : RowKey(s) = RowKey(r)

\* Room for one more row than were counted.
QueryRows ==
    /\ fill.pc = "query"
    /\ LET found == Oldest(fill.count + 1)
           pending == FlattenSeq([i \in DOMAIN fill.plan |->
                          IF Present(fill.plan[i], found) THEN <<>> ELSE <<fill.plan[i]>>])
       IN  fill' = [fill EXCEPT !.plan = pending, !.count = 0,
                                !.pc = IF pending = <<>> THEN "done" ELSE "write"]
    /\ UNCHANGED <<env, lines, events, rows, call, recon, passes>>

\* append_many, one transaction for each chunk.
WriteChunk ==
    /\ fill.pc = "write"
    /\ LET n == IF Len(fill.plan) < ChunkSize THEN Len(fill.plan) ELSE ChunkSize
       IN  /\ rows' = rows \o SubSeq(fill.plan, 1, n)
           /\ fill' = [fill EXCEPT !.plan = SubSeq(@, n + 1, Len(@)),
                                   !.pc = IF n = Len(fill.plan) THEN "done" ELSE @]
    /\ UNCHANGED <<env, lines, events, call, recon, passes>>

\* The process dies, or the store refuses a chunk and the pass raises.
BackfillStops ==
    /\ \/ "crash" \in env /\ fill.pc \in {"count", "query", "write"}
       \/ "store" \in env /\ fill.pc = "write"
    /\ fill' = [pc |-> "idle", seen |-> {}, plan |-> <<>>, count |-> 0]
    /\ UNCHANGED <<env, lines, events, rows, call, recon, passes>>

Call(g) ==
    \/ AppendLine(g) \/ CheckEvent(g) \/ EmitEvent(g)
    \/ PackRow(g) \/ StrategyRow(g) \/ CallDies(g)
Reconcile(r) == LoadLines(r) \/ Scan(r) \/ ReEmit(r) \/ Report(r) \/ ReconcileStops(r)
Backfill == Plan \/ CountRows \/ QueryRows \/ WriteChunk \/ BackfillStops

FeedbackNext ==
    \/ \E g \in Grades : Call(g)
    \/ \E r \in Reconcilers : Reconcile(r)
    \/ Backfill

FeedbackSpec == FeedbackInit /\ [][FeedbackNext]_feedbackVars

-----------------------------------------------------------------------------
(* Properties.                                                             *)

\* The rows a grade makes in all.
Fan(g) == {g} \X ({PackBuilder} \cup Served[g])

EventsOf(g) == {i \in DOMAIN events : events[i].of = g}

Copies(g, c) == {i \in DOMAIN rows : RowKey(rows[i]) = <<g, c>>}

\* "A record or replay cannot double-count the same feedback" (PackFeedback):
\* a grade has one event at most, however often its call was made again, and
\* calls and reconciles died half way or failed and were run again.  The lookup
\* and the emit are two steps, so where passes overlap calls and each other
\* there is one event more at most for each reconciler.
EventLoggedOnce ==
    \A g \in Grades :
        Cardinality(EventsOf(g))
          <= 1 + IF "overlap" \in env THEN Cardinality(Reconcilers) ELSE 0

\* "A replayed feedback_id re-emits every row" (bridge_feedback_to_outcomes),
\* and nothing else writes a row twice: where passes and calls take turns a
\* component has at most one row of a grade for each call made with it, whatever
\* backfills came between, died and were run again.  And where the log can be
\* read all rows of a grade are in one learning cell, whichever pass or call
\* wrote them.
RowsWrittenOnce ==
    /\ "overlap" \notin env =>
         \A g \in Grades, c \in Components : Cardinality(Copies(g, c)) <= lines[g]
    /\ "read" \notin env =>
         \A i, j \in DOMAIN rows : rows[i].of = rows[j].of => rows[i].cell = rows[j].cell

\* A reconcile that reports has an event for every line it loaded, or names
\* the line among its failures; a backfill that reports has the whole fan of
\* rows of every grade whose event it read, the remainder of a fan or a chunk
\* that was cut short included.  Overlapping calls and passes take nothing
\* from either.
PassesComplete ==
    /\ \A r \in Reconcilers : recon[r].pc = "done" =>
         recon[r].lines \subseteq Logged \cup recon[r].failed
    /\ fill.pc = "done" /\ "read" \notin env =>
         \A g \in fill.seen : Fan(g) \subseteq KeysOf(rows)
=============================================================================
