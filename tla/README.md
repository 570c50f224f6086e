# A verification project for Trellis

Trellis keeps a memory graph for agents: versioned nodes, edges and aliases,
documents, traces, policies and advisories, all written through one governed
mutation pipeline by several processes (a REST API, an MCP server, a CLI run
from cron).  This directory holds TLA+ models of the parts whose correctness
depends on interleavings, failures and long histories, TLC configurations that
check them on small instances, and TLAPS proofs of their main properties for
every value of their constants.

All paths below are relative to `src/src/trellis/` unless they start with `src/`.

## 1. Inventory

`PROJECT.json` lists every component with its status.  The ones that carry
state of their own and a protocol worth modelling:

| Component | State | Operations | Hard behaviour |
|---|---|---|---|
| Graph store, `stores/sqlite/graph.py` | rows of `nodes`, `edges`, `entity_aliases`, each with `valid_from`, `valid_to` | conditional and unconditional node writes, edge and alias writes, purge, compaction | the clock is read outside the write lock; rows are read before it; the version token is a timestamp; no unique index on edge triples |
| Graph handlers, `mutate/handlers/graph.py`, `_common.py`, `mutate/name_aliases.py` | none (locals across several store calls) | entity.create, entity.update, alias.upsert, link.create | check-then-act over several transactions, bounded retry |
| Mutation executor, `mutate/executor.py` | the request's key cache; the event log | execute, execute_batch | idempotency across requests, evictions and restarts; a log that raises; crashes between write and audit event |
| Whole-file JSON stores, `stores/degradable_json_store.py` and its five subclasses | one file, and a view of it in each process | load, guarded edits, save | several writers of one file, partial loads, failed writes, `stat` that fails |
| Policy gate, `mutate/policy_gate.py`, `policy_source.py`, `sensitivity_floor.py` | policies loaded strictly | evaluate | fail-closed when the file is unreadable |
| Documents and vectors, `core/document_write.py`, `core/vector_metadata.py`; redaction, `mutate/handlers/redaction.py` | documents, vector rows, tombstones | put, mirror, redact | a write that lands during a redaction; a crash half way |
| Precedent lifecycle, `mutate/handlers/precedent.py` | a node, a document and a vector row for one precedent, and its last event | promote, demote, reinstate | three stores and a log, no common transaction; an approval between the read and the write of another |
| Retention, `mutate/retention.py`, `retention_handlers.py` | lifecycle stamps of documents and nodes | prune, restore | a stamp that hides an older one; retries over partly pruned sets |
| Trace embed worker, `src/src/trellis_workers/trace_embed/` | a cursor and a bounded retry list in one file; summary documents and their vectors | pass, restamp sweep, start afresh | a cursor over timestamps that tie, pages, stops, dead passes, overlapping passes, traces that cannot be embedded yet |
| Parameter tuning, `learning/tuners/` | proposals, parameter snapshots, three kinds of events | tune, promote by hand or unattended, reject, monitor, roll back | four stores written in turn by passes and people who overlap or die |
| Access log, `core/access_log.py` | a bounded queue under a condition variable, failure counts under a lock | submit, write, wait_idle, shutdown | one condition for two kinds of waiters; an event log that stops answering; a process that exits |
| Feedback, `feedback/recording.py`, `feedback/backfill.py` | for one grade a line of a file, an event, and a fan of outcome rows | record, reconcile, backfill | three sinks written in turn, two of them fail-soft, repaired later by two passes |
| Corpus sync, `ingest_corpus/sync.py` | rows of a document, its chunks and their vectors, for every file of a directory | sync, with moves and prune | crash in the middle, re-runs, redacted and demoted chunks, partial runs |
| Scheduling, `core/cron.py`, `schedule/` | jobs and their last runs | match, overdue | calendar boundaries |

The rest builds commands (the surfaces, extraction), ranks and formats
(retrieval, operations reports), or wraps one-row writes (traces, blobs, keys);
`PROJECT.json` gives the reason for each.

How they interact.  A surface builds a `CommandBatch` and a fresh
`MutationExecutor` for a request.  The executor asks the policy gate, the
event log (has this key run?), then a handler; the handler reads and writes
the graph store in several transactions; the executor appends the audit event.
Requests share nothing but the stores: SQLite's write lock orders their
transactions, and nothing is held between them.  The JSON stores are shared
by processes through the file alone.  A corpus sync writes documents and vectors
without the executor, through the same write seam as redactions and the
feedback loop, and is held apart from them by nothing.  The trace embed worker
and the unattended tuning pass are loops of their own processes: they meet the
rest in the stores, and meet other copies of themselves in a file or in the tables.
The lifecycle handlers run behind the executor and write the graph, the documents
and the vectors of one precedent in turn.  The access log is inside each serving
process: transports hand it a read, its one thread writes the rows, and a read
that could not be recorded waits, as a count, for a row that can carry it.  Feedback is
written by the serving processes without the executor; a reconcile runs in a worker
before its cycle, a backfill by hand, and the outcome rows are what tuning reads.

What makes each part correct:

* graph store: one current row for a key; the versions of a node form one
  timeline without gap or overlap; no lost update; nothing of a purged node
  returns; compaction changes no answer at or after its cutoff;
* executor: an answer says what happened (SUCCESS and DUPLICATE mean applied,
  FAILED and REJECTED mean nothing was written); a key runs once, up to
  requests in flight together and audit events lost; a batch returns and
  answers every command;
* corpus sync: whatever dies, the next quiet run makes the store the directory
  again and the one after writes nothing; nothing redacted returns, nothing
  demoted is promoted, no document goes while its file is there;
* trace embedding: no trace is stepped over, none that is stuck starves the rest,
  and a relabelled citation reaches the summary and its vector;
* tuning: an unattended change can always be taken back, a rollback restores
  exactly what it undoes, and what degrades is rolled back in the end;
* lifecycle: a demotion stands until a person reinstates; search serves nothing the
  graph withholds; the planes and the log agree between commands; a redacted
  text is in no copy;
* access log: every read is queued, in hand, written or counted; no waiter sleeps
  over work; counts add up and reach a row once the log answers;
* feedback: whatever dies or fails, a grade is counted once and the passes bring its
  event and all its rows;
* JSON stores: a write deletes nothing that its caller did not name, and
  overwrites no other process's write that it could have seen.

The hazards behind these, each at its line, are in `PROJECT.json`.

## 2. Modules

| Module | What it is |
|---|---|
| `GraphStore` | the SQLite graph store and the handlers that write it |
| `NodeRegister` | abstract: a node is a register, a command one atomic read-modify-write |
| `GraphRefinement` | the mapping under which `GraphStore` implements `NodeRegister` |
| `GraphStoreProofs` | TLAPS proofs about `GraphStore`, and that it implements `NodeRegister` |
| `MutationExecutor`, `MutationExecutorProofs` | the pipeline, and proofs about it |
| `JsonStore` | the whole-file JSON stores |
| `CorpusSync`, `CorpusSyncProofs` | the sync of a directory, the document write seam, and the redactions and demotions that write the same rows; proofs |
| `TraceEmbed`, `TraceEmbedProofs` | the trace embed worker with its watermark file, retry list and restamp sweep; proofs |
| `ParameterPromotion`, `ParameterPromotionProofs` | proposals, promotion, monitoring and rollback; proofs |
| `Lifecycle`, `LifecycleProofs` | precedents, retention and the second half of a redaction, over graph, documents, vectors and log; proofs |
| `AccessLog`, `AccessLogProofs` | the access log's queue, threads, counts and shutdown; proofs |
| `Feedback` | the grades of packs: line, event and rows, and the reconcile and backfill that repair them |
| `JsonFileProofs` | proofs about `JsonStore`, and after them, on their own, about `Feedback`: the two that keep a file of their own |
| `MCGraphStore`, `MCMutationExecutor`, `MCJsonStore`, `MCCorpusSync`, `MCTraceEmbed`, `MCParameterPromotion`, `MCLifecycle`, `MCAccessLog`, `MCFeedback` | model values and definitions for TLC |

Some operators stand beside a definition under a comment that names a mistake
(`RoleUnchecked`, `NotRolledBack`, ...).  They are not part of `Next`: each is
a plausible bug in the definition it stands beside, and `PROJECT.json` pairs it
with the property that must notice it.

### GraphStore

`nodes`, `edges` and `aliases` are the three tables, as sets of rows.  `proc`
holds the locals of the operation each writer is in: the operation, the point
it has reached, the row it read, the time it read, the attempts it lost.  An
action is the code between two points where another writer can get in: a read
outside a transaction is one, `utc_now()` is one, and a `with conn` block is
one, because SQLite's write lock is held from its first write to its commit.

* `rewrite` is `_rewrite_current_node` (entity.update, and the demotion, archive
  and label writers that share it); `replace` is `_write_node_replacing_read`
  under entity.create; both end in `UpdateIfCurrent` or `CreateIfAbsent`,
  and read again when those find another version.
* `upsert` is `upsert_node`: the clock first, the read second, the transaction
  last.
* `link`, `alias` and `bind` are the handlers of link.create and alias.upsert with
  the store calls they make; `dangle` allows a link without endpoint checks.
  A node write that names the entity goes on to bind the name alias in the
  same command (`ThenBindName`).
* `DeleteNode`, `DeleteEdge` and `CompactVersions` are single transactions.

A property bag is reduced to the entity's name, the one property other code
reads back (alias binding); names stand for their normalised keys.  One edge
type; several would only repeat the triple.  `Ops` selects the operations the
clients of an instance issue.  A failed validation is `Declines`, possible at any
read, since what makes it fail is data.

### MutationExecutor

A command is its idempotency key, or NULL.  `pc` is the stage (Stage 1 and 2
`validate`, Stage 3 `check` and `persisted`, Stage 4 `handle`, Stage 5 `emit`), `cache` is
`_seen_idempotency_keys` in order of age, `results` the answers so far.
`applied`, `logged` and `lost` count, per key, handler successes, audit events, and
successes whose event was never appended; `wrote` (history) records the
positions in a batch whose write landed.  A handler is one step: what it does
inside is GraphStore's subject, and what the pipeline depends on is whether it
wrote and how it ended.  `Losses` selects what may fail: the log's read, its
append, the process, or a handler after its write.

### JsonStore

`file` is the contents of the path, `version` the identity a change gives it (the
inode, mtime and size of the code; `None` is NONE, an `UnknownFileIdentity` is
UNKNOWN), `reach` whether the file system answers, and `inst` each process's store
object.  The constructor is three steps, `Stat`, `Load`, `TakePrint`, because the file
can change between them; a write is `Edit` (guards, then memory), `Save` (guards
again), `Replace` or `WriteFails`, and `Reprint`.  Every write method of the
five subclasses is an edit: values for some ids, or no row for one id, or no
rows.  `Open` is a new instance, after a refusal, an exit, or a crash at any
step.  The environment edits, breaks, mends and moves the file and takes the
file system away.  `read` and `seen` are history: the identity the view came
from and the version at the last check.

### CorpusSync

`docs` and `vecs` are the two stores, by document id: `<<path, 0>>` is the document of
a file, `<<path, i>>` its chunk i (`#chunk-(i-1)`).  A row is its text, its
`chunk_count`, its tag (`content_tags`, reduced to the demotion and one other value)
and whether it is a redaction's tombstone.  `file` is the directory.  Texts and
pieces are model values and `Spans` says how `chunk_spans` cuts a text.

`sync` holds the locals of `sync_records` and what it calls.  `Start` is `sync_corpus`: all
files are read before anything is written.  `Plan` is `_plan_record`; then, in the order
of `_apply_record`, `ReadStored`, `Guard` and `PutParent`, for each chunk `ReadChunk`,
`Guard`, `WriteChunk`, `EmbedChunk`, then `ProbeSurplus` with `DeleteSurplus` and `DeleteVector`,
`WholeVector`, and for a move `Retire` and `DeleteTree`.  `ListCandidates` and `Prune` are
`_prune_vanished`.  `Guard` is the read of `put_document`, apart from its write because
its docstring grants a window between them; the document write and the mirror
on the vector row are one step, with a mirror that may fail.  `Raise` is a step
that fails: the run ends, or, with the boundary for each record that some
callers set, goes on without this one.

`RedactVector`, `ReadDeclared`, `RedactChunk`, `RedactParent` are redaction.apply on a
document, row by row; `Demote` is `apply_noise_tags`; `ChangeFile` is the owner of the
directory.  `Modes` says which events meet in a behaviour (`env`, drawn at the start):
runs that die, prune, classification on write, runs over part of the
directory, a vector store or embedder that fails, and other writers that do not
wait for a sync to end.  `quiet`, `late` and `settled` are history.

### TraceEmbed

Traces are numbered in the order the cursor sorts them; `At` gives their timestamps,
which may tie.  `file` is the watermark on disk (cursor and retry list), `pass` the
locals of each pass: its frontier, the list it holds, the page it reads and the
trace it is at.  A pass first takes up its retry list, then pages newest first from
the store down to its cursor (`collect_candidates`), then embeds oldest first: judge
the trace by its citations, put the summary document, upsert its vector, and at the
end save the file.  `level` and `answers` are the labels of the cited documents
and which of them a store answers for.  `Relabel`, `Flip` (a store that stops or
resumes answering), `Redact`, `Ingest`, `Stop`, `Die`, `EmbedFails`, `StartAfresh` are
what meets a pass, and `Lapse` is the interval between passes.  A document write
(`PutDoc`) mirrors its label on the vector row that is there, and the mirror may fail
without the write failing.  `late`, `waived` and `lagging` (the vector rows a failed mirror
left behind) are history.

### ParameterPromotion

`prop` is the proposals table, `snaps` the snapshots in their order (a version is a
place in it; `from` says what a rollback restored), `updated`, `auto`, `rolled` the three
kinds of events.  `run` holds the locals of each actor: an unattended pass tunes,
promotes what clears its gate, and then watches what it promoted; a person
promotes, forces, bootstraps or rejects.  A promotion is, in the code's order,
the gate and the merge (one step), the snapshot, the proposal's status, the
update event, and for an unattended one the promotion event that anchors its
monitoring; an actor can die between any two.  `health` is what the outcomes of a
version say against its baseline.

### Lifecycle

Each item has versions of a node, a document row, and the metadata on its vector
row; `log` is the last lifecycle event of a precedent and `gone` what a
REDACTION_APPLIED event names.  Commands are approve, demote, reinstate, prune,
restore, confirm and redact, each a sequence of store calls with one step for a
call and the read it is computed from.  Text is one bit: whether it is copied
from the source that may be redacted.  A redaction here is the vector, the blank
row, the scan for precedents that quote the target, their scrub (detach, purge,
create again) and the purge of the target; the walk over chunks is CorpusSync's.
After a reinstatement's node write a failed restamp of the document leaves the row
withheld and the command goes on; its repair, issued when only the row is withheld
(`strict`), ends on a failure or a tombstone instead.

### AccessLog

A step is one critical section of the writer's condition or of the failure state's
lock, or one call of the event log.  `waiters` is the condition's queue, as in
`threading.Condition`, so that `notify` wakes the oldest of two kinds of waiters.
`owed` are the counts not yet on a failure row, `snap` what each signaller read of
them, `limited` the minute between signals.  Callers may fail before they hand
over, send a body that does not parse, or fail to start the thread; `Shutdown`,
`Deadline` and `Exit` are the end of the process, `Outage` the event log.

### Feedback

`lines` is how many lines of each grade `pack_feedback.jsonl` has, one for a call; `events` the FEEDBACK_RECORDED events,
`rows` the outcome rows in the order they were appended.  `call` holds each call of
`record_feedback`, in the code's order: the line, the check for an event, the event, the
pack builder's row, and a row for each strategy the pack served.  A call may be made
again with the same `feedback_id`, whether it ended or died: it appends another line, finds
the event or logs it, and re-emits every row, which the code says of itself.  `recon` is each
reconcile: the lines it loaded, the one it is at, and what failed; `fill` is the backfill:
the plan it bridged from the events in memory, the count, the query of the oldest rows
up to that count and one, and the chunks.  A grade may be from before the bridge, and
`feedback.record` leaves events without a `feedback_id`, which no pass may replay.
`env` says what fails: the log's reads or appends, the outcome store, processes; and
whether calls are made again, and whether passes overlap calls and each other.

## 3. Runs

| Run | Instance | Shows |
|---|---|---|
| `gs_cond` | 2 writers, 1 node, 2 names, 2 roles, 2 attempts, clock to 5; rewrite, replace, delete, compact | `VersionsAgree`, `TimelineExact`, `WriteReplacesRead`, `CompactionKeepsReads`; and `ImplementsRegister`: the conditional commands are atomic |
| `gs_links` | 2 writers, 2 nodes, 1 name; upserts, edges, aliases, binds, purges, compaction; clock to 4 | `LinksAgree` |
| `ex_race` | 2 workers, 3 requests, 2 keys, a key twice in a batch, keyless commands, cache of 1, every loss | what an answer may claim, how often a key runs, and that a batch is answered: `AnsweredMeansApplied`, `RunsAreAccounted`, `FailedWroteNothing`, `BatchIsAnswered` |
| `js_race` | 2 processes, 2 rows, 1 content, 3 changes of the path, every fault | `GuardedViewIsFile`, `WriteLosesOnlyAsked`, `WriteReplacesView` |
| `cs_sync` | 2 paths, 3 texts of 0, 2 and 3 chunks, 3 edits, redactions or demotions, 1 fault, any number of runs; five modes; 3.2 million states | `RedactedIsBlank`, `RunLandsRecords`, `VectorsMirrorRows`, `TombstoneStays`, `SecondRunWritesNothing`, `DemotionKept`, `StoreHoldsDirectory` |
| `cs_gap` | the same, runs that prune and die, 2 faults | violation of `NoTextLeft` |
| `cs_part` | the same, runs over part of the directory | violation of `OnlyGoneIsMoved` |
| `te_pass` | one pass at a time over 4 traces, three at one instant, pages of 1, scan bound 2, retry list of 1, 2 edits, 1 fault (an embedder, a mirror, a save, a reset, a stop or a death); six modes; fair; 0.6 million states | `NothingSkipped`, `VectorsCarryLabel`, `NothingStarves`, `RelabelReaches` |
| `pp_turns` | 1 unattended worker, 1 person, 4 proposals (one governed, one unreachable), 2 scopes, 4 versions; five modes; fair | `AutoReversible`, `RollbackRestores`, `DecisionsTell`, `DegradedRolledBack` |
| `lc_turns` | 2 callers, a precedent with a row, one without, their source, a minted entity, a noisy document; 5 commands, 1 fault; eight modes; 1.4 million states | `DemotionStands`, `RowWithheldWithNode`, `PlanesAgree`, `NoTextAfterPurge`, `TombstoneStands` |
| `al_drain` | 3 reads of 1, 1 and 2 bytes, a queue of 2 entries and 2 bytes, 1 outage; five modes; fair; 1.3 million states | `ReadsAccounted`, `NobodySleepsThrough`, `TalliesAddUp`, `CatchesUp` |
| `fb_replay` | 2 grades (a pack two strategies served, and one that one served), a governed grade, 2 reconcilers, chunks of 2, 3 calls, 3 passes, or 2 where they overlap or calls are made again; five modes; 3.9 million states | `EventLoggedOnce`, `RowsWrittenOnce`, `PassesComplete` |

A type invariant is stated in every module and proved (section 5), so no run
spends time on it.  Deadlock is checked in the `js_`, `cs_` and `te_` runs.  In `gs_`, `ex_`, `lc_`, `pp_`
and `fb_` the bound on the clock, on requests, on commands, on versions, or on calls and passes stops the
system, and in `al_drain` the process exits, so it is switched off there.

### Bounds, and why they suffice

* Two writers.  Every hazard listed is one actor's read made stale by another;
  purge and compaction are further actors with no locals, so three parties
  already meet.  The proofs cover any number.
* `Attempts = 2` (the code has 5): a lost attempt, and a last one.
* `MaxClock = 5`: five writes, so a version can be read, replaced twice, purged,
  created again and written with the old token.  `MaxClock` also bounds
  generated ids.
* `MaxRequests = 3`, batches of three: a first request, a concurrent retry and a
  later one; a key, another that evicts it, and the first again.
* `MaxVersion = 3`: another process's file, its change, and the write over it,
  with the file system going away any number of times.
* `MaxActs = 3`, `MaxFaults = 1`: an edit that a run dies over, a redaction, and an
  edit back; or a demotion between two edits.  Two paths give a copy and a move;
  the texts share a piece, so a chunk is kept, rewritten, added and removed.
  Two surplus chunks are the least whose order of deletion matters, and three
  chunks the least that has them past a kept one.  The directory starts with one
  long file, so the first edit may already shrink it.  Runs are not bounded.
  `cs_gap` takes a second fault: one run dies felling the document, one shrinking it.
  `RedactedIsBlank` and `RunLandsRecords` also hold with 2 faults, and with a text of one
  piece in place of the one of two (3 to 4 million states; not kept as runs).
* `te_pass`: three traces at one instant are wider than a page, so paging has to go
  on inside a timestamp; a scan bound of 2 stops collecting before the cursor is
  reached; a list of 1 is full with one stuck trace, so a second one overflows it.
  One pass at a time: overlapping passes are the theorem's, which holds for any
  number of them.
* `pp_turns`: 4 versions are the snapshot that is there, a promotion, its rollback,
  and one that follows; two scopes of which one falls back on the other make the
  merge and the restored baseline differ.  `MaxSnaps` stops the actors.
* `lc_turns`: 5 commands are an approval, a demotion, an archival, a restore and a
  reinstatement, or a demotion between the two halves of a redaction and its
  repetition.  An item of each kind, since what a command does depends on the kind.
* `al_drain`: two small reads fill the queue and a large one fits only an empty queue;
  three callers, the writer and `wait_idle` are the least with two waiters of
  different kinds and someone to notify the wrong one.
* `fb_replay`: two grades, so that rows of one can hide rows of the other from an ordered
  and limited query; three passes are a reconcile, a backfill that dies, and one
  that finishes; the third call is one of the two made again; chunks of 2 leave a fan of rows cut in the middle of the plan.
* Symmetry over writers, workers, processes or callers, which no definition orders and
  which no run with liveness uses.
* The two `overlap` modes that a run keeps apart from the others (`cs_sync`, `pp_turns`,
  `lc_turns`) are there so that each property is exercised both where actors take
  turns and where they do not; a property that needs turns says so in its text.

### Fairness

* `TraceEmbed`: weak fairness of each pass's steps and of `Lapse`: the worker is a loop
  that sleeps for its interval and runs again.  Stops, deaths, relabels and outages
  have none, and are bounded.
* `ParameterPromotion`: weak fairness of each worker's step or next pass (it is
  scheduled) and of a command a person began.
* `AccessLog`: weak fairness of the writer's steps, of the time-out of its wait
  (`Condition.wait(timeout)`), of the minute between signals, and of the rest of a call
  that began.  Nobody is bound to read, and the event log comes back or not.

No other liveness is claimed: the conditional writers of the graph give up after
their attempts by design, a store whose file stays unreadable refuses for ever
by design, and a sync runs when someone starts it.

## 4. What the runs found

* `cs_part`: a document found by its hash is taken for a moved one unless a
  record of this run stands for it.  A run over part of the directory
  (`--include`, one file, a file that cannot be read now) has no record for the
  rest, so a copy of an unread file deletes that file's document.  The comment
  says "whose item is gone", the module's docstring that "not having seen a
  source is not evidence that it is gone".
* `cs_gap`: `_delete_document_tree` deletes a document's chunks from the first up, the
  order that `_delete_surplus_chunks` says would hide rows.  A prune that dies half way
  leaves the upper chunks; the file comes back shorter, and a run replaces the count the
  parent declares and dies before it deletes the surplus.  A redaction walks to the new
  end, meets the gap and stops, and the old text above it is still served.  One death
  is enough with one edit more: a shrink that dies, a prune that then deletes only the
  declared chunks, and a file that comes back short.  A later run does not find these
  rows either.  `RedactedIsBlank` and `RunLandsRecords` therefore except what is
  beyond a gap, where something died, or where a put was refused because writers overlap.

Seen on the way, by hand or by a run that is no longer kept.  Where a docstring
says otherwise, it is named.

* Graph.  `upsert_node` reads the clock (`graph.py:417`) before its transaction; a
  writer that stalls in between closes a version before its beginning, and an
  `as_of` read matches two rows.  link.create checks its endpoints in reads of its
  own (`mutate/handlers/graph.py:865`): a purge in between leaves an orphan edge,
  which the handler says cannot be created.
* Executor.  evidence.ingest in strict embed mode raises after it stored the
  document (`evidence_handler.py:353`) and is answered FAILED, against "nothing was
  committed" in `_emit_event`; the model has a status of its own for it (`broken`), and
  `FailedWroteNothing` speaks of the others.
  A success whose event was not appended is known to the key cache alone, and
  runs again once other keys evicted it.
* JSON stores.  The fingerprint that detects another process's write is taken
  after the load, so a write that lands in between counts as loaded and the
  next save deletes it; the module docstring grants only the window between check
  and `os.replace`.
* Corpus sync.  `_delete_document_tree` deletes the chunks the parent declares; a run
  that died while shrinking a document leaves more, which the prune of a file
  that then goes does not see, nor the first run of a file that comes back
  (`quiet` therefore asks for no such rows at the start).  A vector whose delete
  failed survives the redaction of its document.  A sync between a chunk's write
  and its embed restores the vector of a chunk redacted meanwhile; one still
  writing chunks adds rows behind a redaction's walk; a demotion between a sync's
  read of a row and its put is lost.
* Trace embedding.  A trace appended behind a newer one is stepped over for good
  (the docstring of `collect_candidates` grants it; `late` in the model).  Two passes
  at once can set the cursor on disk back, which `watermark.py:212` says they
  cannot; nothing is lost by it.  Two passes at once may leave an older label on a
  vector row, and a redaction between a summary's put and its upsert leaves a
  vector over a tombstone.  A summary withheld for its label is not tried again
  when the label is lowered.  When the mirror of a restamp fails, the document has the
  higher label and the vector row the older one; the next sweep compares the document alone
  (`restamp.py:201`) and passes it over, so the row stays until the summary is given a higher
  label or somebody runs `resync-vector-metadata`.
* Tuning.  `RuleTuner.run` reads a proposal's status and then calls `put_proposal`, an
  INSERT OR REPLACE that looks at no status (`rule_tuner.py:618`): a decision that lands
  in between is set back to pending, against "never overwritten" at line 480.
  Two promotions into one scope that overlap lose one of the two merges,
  against the comment at `promotion.py:446`; a rollback takes a newer promotion in its
  scope with it; a pass that dies between the update event and the promotion event
  leaves a version nobody watches; one that dies before the status is written leaves
  live parameters of a pending proposal, as a rejection that races a promotion
  leaves them of a rejected one.
* Lifecycle.  A demotion between a redaction's scan and its re-create is lost with the
  node; an approval that read the row before a demotion writes it back without the
  stamp; a demotion whose check came before an archival writes `demoted` over
  `archived`, so a restore no longer finds it; a vector sync that comes after a
  reinstatement mirrors the older stamp; an entity confirmed between resolve and
  archive is archived all the same, against the docstring of `retention_handlers`;
  a prune reports a node as not archived when a row of its id is not; a
  precedent without a row that is demoted, archived and restored is picked again by
  the next prune; a crash between a scrub's purge and its re-create loses the node
  and its stamp, as documented.
* Access log.  When the thread cannot be started the entry stays queued and is also
  counted as dropped, so it may be written later too (the docstring of `submit` says
  "dropped"); two signallers at once, one of them held for over a minute by the
  event log, report the same counts twice, and counts go below zero until the next
  row corrects it; reads left in the queue past the deadline of the shutdown are
  neither written nor counted, as documented; counts taken before the first entry
  wait until one is written.
* Feedback.  A call and a reconcile, or two reconciles, that check for the same event
  before either emits it both emit it, against "cannot double-count" in `PackFeedback`;
  the backfill then plans the rows of both events and writes each twice.  Rows of an
  older grade that land between the backfill's count and its query push newer, counted
  rows past the limit, and those are written again, against "Harmless -- the extra
  row is in the skip set" (`backfill.py:438`).  A line without a `feedback_id` gets a
  fresh one at every load, so every reconcile emits it again, against "never double-emits"
  in `_reconcile_before_cycle`.  `record_outcome` swallows the store's errors, so
  `outcome_emitted` is true of a row that is lost.  A lookup that fails while a grade is
  recorded leaves its rows unscoped while the backfill writes the missing ones scoped,
  against "every row lands in the same learning cell".  One torn line makes
  `load_feedback_log` raise and stops every later reconcile; the check for an event is
  outside the loop's `try`, so a failed read ends the pass.

## 5. What is proved

Every theorem is of the form `Spec => []P` or `Spec => [][A]_vars` and holds for
every value of the constants under the module's named assumptions.

`GraphStoreProofs` (its constants are typed, NULL is none of the values and, by `NullIsApart`,
no command or content of a register either):

* `TypeCorrect`: `TypeOK`, for any set of operations.
* `VersionsAlwaysAgree`: `VersionsAgree`, where `upsert` is not among the
  operations, whatever the clock does.  `upsert_node` checks the role on a read outside its
  transaction, so the property is not its to keep.  `VersionsAgree` alone
  is not inductive: a conditional write takes role and created_at from the
  current row, so the invariant adds that a node with any row at all has exactly
  one current row (`OneCurrentNode`, `HasCurrentNode`), which is where a purge
  that left an old version behind would fail.
* `WritesReplaceReads`: `WriteReplacesRead`, where no two clock readings are equal
  (`Distinct`).  The version token is a timestamp, so the invariant has to
  carry why a timestamp identifies a version: at most one current row for a
  node, no row stamped later than the clock, a writer's pending stamp
  belongs to no row and no other writer, and a row a writer has seen that
  still has its stamp is the row it saw.
* `TimelineAlwaysExact`: `TimelineExact`, under `Distinct` and without `upsert`.  Three
  facts carry it.  `AllPrepared`: a writer reads the clock after the row, so what
  it has seen starts before its stamp, and it never means "only if absent" over a row
  it saw.  `HistoryInv`: a version that is closed ends exactly where the next one
  begins (`Succeeded`), and the versions of one node do not overlap (`Apart`).  That some
  version has the greatest start at or before a time is the least-element principle
  of well-founded induction, used on the distance from that time.
* `CompactionAlwaysKeepsReads`: `CompactionKeepsReads`, from the types alone: the
  step removes only versions that ended by the cutoff, and a read after it asks for none.
* `CommandsAreAtomic`: `ImplementsRegister`, under `Distinct` and without `upsert`.  Initial
  states map to initial states; each step maps to Take, Drop, Create, Change or Purge of
  the register, or to a stutter.  The step that counts is the conditional write: by the
  invariant behind `WritesReplaceReads` the row whose token matches is the row the writer saw
  (`TokensName`), so the register's read and write fall into one step.
* `LinksAlwaysAgree`: `LinksAgree`, for any set of operations, equal clock readings
  included.  `LinkInv` adds that ids are never used again (`IdsUsed`), so a row that
  a writer saw and that still has its id is that row (`SeenAlias`, `SeenAgree`), even
  though the alias and edge writers look before their transaction.

`MutationExecutorProofs`:

* `TypeCorrect`: `TypeOK`, with the bound on the cache.  The invariant adds that a
  serving worker has a command before it and a status exactly while an event
  is due.
* `AnsweredAlwaysApplied`: `AnsweredMeansApplied`, under every loss.  The
  invariant (`AppliedInv`) covers what an answer may come from: every cached key and
  every logged key has been applied, and so has a pending success.
* `FailedNeverWrote`: `FailedWroteNothing`, under every loss.  The invariant (`WroteInv`) says which positions have written while the
  current one is under way.
* `RunsAlwaysAccounted`: `RunsAreAccounted`, for a finite set of workers.  A counting
  argument (`CountInv`): the successes of a key are its events, its losses and the
  workers whose event is due, and the events with the workers that have looked and found
  none are never more than the workers, since once an event is logged nobody new gets past
  the check.  Within one executor (`OnceInv`) a key that succeeded n commands ago is cached
  unless n has reached `CacheSize` (`Cached`, which every command ages by at most one), and what has
  succeeded is logged or lost; so a second success needs an eviction and a loss.
  The proof corrected the property: in an earlier form it said that one executor runs a key
  to success at most once, which a lost event and an eviction together refute.  The run held
  it only because its cache took every key it had; it now has a cache of 1.
* `BatchesAlwaysAnswered`: `BatchIsAnswered`.  The invariant (`BatchInv`): a worker that goes on
  under STOP_ON_ERROR has no error behind it.

`JsonFileProofs`, about `JsonStore`, all from one inductive invariant `Inv`:

* `TypeCorrect`, `GuardedViewsAreTheFile`, `WritesLoseOnlyAsked` and
  `WritesReplaceTheirView`.  The invariant speaks of what an instance held
  before the edit it has under way (`Base`): if its load was whole and the path
  still has the identity it read, that is the file.  It needs that identities
  read are never newer than the path's (so a change always differs), that a
  view of an absent file is empty (so an absence that returns is no
  surprise), and what the last check established while a replace is pending.

`CorpusSyncProofs`, for any directory, texts, cuts into chunks and bounds:

* `TypeCorrect`, `TombstonesStay` (`TombstoneStays`) and `DemotionsStay` (`DemotionKept`).  The
  invariant has three parts.  `SyncOK` is about the locals alone: which points have a
  record under way, that its next chunk is one of its text's, and that a list of
  deletions is either of the record's own chunks or of another document's tree.
  `RowsOK` says that a tombstone is blank, which is why no move takes one for its
  origin.  `Knows` ties locals to rows: a put that passed its guard meets a tombstone
  only if it is late; where writers wait, the row a sync read is the row it will
  replace, and nothing it is about to delete is a tombstone.  The other writers
  keep it because they wait for the sync or set `late`; that probes stay inside the
  chunks a document can have needs the least-element principle (`ProbeEnds`).
* `RedactedAlwaysBlank` (`RedactedIsBlank`), where writers wait.  On top of `Inv`, the
  invariant `BlankInv` says four things.  A sync finds the rows as its own steps left them
  (`Stands`): from its put to its end a record's parent is served with the record's count,
  what is embedded is served, a candidate of a prune is the row it was, and of a tree the
  parent goes last.  Where nothing dies, a chunk that is served is one its document
  declares, or is within the count before the update and still to be deleted, or on the
  list of deletions (`Reached`).  What a redaction's walk has passed is blank, and it ends
  past the declared end, at an absent row or the last one (`Walked`).  A vector stands for
  a row that is served, or the one just deleted (`Mirrors`).  So when the parent is blanked
  a chunk still served lies beyond the row the walk stopped at: without deaths there is
  none, and with deaths the absent row is the gap.  No sync fills that row again, since
  it puts only below a parent that is no tombstone (`BlankIn`).
* `DirectoriesHeld` (`StoreHoldsDirectory`), where writers wait.  The invariant (`DirInv`): what
  a run has read is still in the directory, the document a run moved is gone or is the next
  to go, and the tree it deletes is that of the moved document or of a file
  that is not there.  A run over part of the directory is left out of the part about moves:
  `cs_part` shows that it does not hold there.
* `VectorsAlwaysMirror` (`VectorsMirrorRows`), where writers wait and no call fails.  The
  invariant (`VecInv`) adds to `Mirrors` that what a record has put so far has the text it
  was given (`Written`), that a vector has the text and tag of its row unless the record
  that embeds it is at work there (`Exact`), and that a document has a vector of its
  own or chunks (`OneOrOther`), up to the one a sync or a redaction has in hand.
* `RecordsAlwaysLand` (`RunLandsRecords`), with every trouble and with writers that do not
  wait.  The invariant (`LandInv`): a record a quiet run has under way is in place up to
  the chunk it is at (`Holds`), what is served beyond its chunks is on its list of deletions or
  behind a gap (`Clear`, `Ready`), and a record it is done with has landed (`Done`).  The other
  writers only blank or demote rows, and one that comes while a run is at work ends its
  quiet.
* `SecondRunsWriteNothing` (`SecondRunWritesNothing`).  The invariant (`SettledInv`): once a run over all
  of the directory has ended well, every file's document is in place or redacted, and a run
  at work skips what it plans or deletes what has no file.  `LandSkips` is the hinge: what
  `Lands` means for the store is what `SkipRecord` asks before it skips.
  Both proofs needed that `NONE` is no row, no vector and no tag, which the assumption of
  `CorpusSync` now says.

`TraceEmbedProofs`, for any traces, timestamps, page, bounds, citations and any number
of passes at once:

* `TypeCorrect`, and `NothingIsSkipped`: `NothingSkipped`.  What a pass collected is
  exactly what is between its cursor and what is newer than all it has to do; a
  page goes on from the oldest trace of the last one, inside a timestamp if need
  be; the frontier moves to a trace only when all that is older is done or held;
  and what is done stays done, whichever pass did it.  So whichever pass saves the
  file last, the cursor and the list it saves account for everything behind them.
* `VectorsAlwaysCarryLabel` (`VectorsCarryLabel`), where passes do not overlap, redactions and edits may,
  and up to the rows that a failed mirror left behind (`lagging`).  The invariant (`LabelInv`): at most one
  pass runs (`Lone`), the document a pass is about to embed bears the label the pass
  holds unless it has been redacted since (`Carries`), and a vector bears its document's
  label (`RowCarries`).

`ParameterPromotionProofs`, for any proposals, scopes, fall-back chains, passes and
people:

* `TypeCorrect`; `AutoAlwaysReversible` (`AutoReversible`) and `RollbackAlwaysRestores`
  (`RollbackRestores`).  The invariant says what the stores hold of an actor's version at
  each point of its promotion: before the put an older baseline, after it a
  version nobody else holds and no event names yet, after the update event an
  anchor that is sound.  The unattended gate needs a baseline it can compare with,
  which is what makes every automatic version reversible.
* `DecisionsAlwaysTell` (`DecisionsTell`).  Whoever is about to mark a proposal holds the version
  it promoted (`MarkedInv`), overlaps and deaths included.  Where actors take turns and none dies (`TurnInv`) only one actor holds a
  version, what the stores and the events tell of each proposal agrees with its status (`Told`, `Recorded`), and a proposal has
  one live version and one that was rolled back at most (`LiveOnce`, `UndoneOnce`).  The
  assumption that "none" names no proposal came out of this proof.

`LifecycleProofs`, for any items, callers and bounds:

* `TypeCorrect` and `BlankRowsStay` (`TombstoneStands`).  What a command holds at each
  stage (`RunOK`) includes that retention leaves promoted precedents alone, which
  the type of a restored stamp depends on; the version a restore goes back to
  exists by the least-element principle; and whoever writes a document row has
  read one that is not a tombstone in the same step.
* `RowsAlwaysWithheld` (`RowWithheldWithNode`), where commands take turns, over every
  death and outage.  Only the command that runs holds anything (`Alone`), and what it
  holds (`HoldsIn`) is kept by the order of its two writes: a demotion is about
  to mark a node whose row it has withheld, a reinstatement to restamp a row whose
  node is no longer demoted, a promotion to write the stamp its node has, and a redaction
  carries, from its scan to the node it puts back, stamps whose rows are
  withheld, which no scrub undoes.  A command that dies holds nothing, so the rows
  alone must be right at every step, and are.
* `DemotionsStand` (`DemotionStands`), where nothing is redacted or commands neither overlap nor fail.
  The invariant (`StandInv`): once a node has been ruled out, the last
  version that is not an archival is a demoted one, or a redaction holds the stamp it will put back
  (`Turned`); restores and archivals only ever bring back that version.
* `NoTextStays` (`NoTextAfterPurge`), where commands take turns, over every death and outage.  The invariant (`TextInv`): text in a row or a snapshot is in
  some version of its node; and for each copy a redaction that has scanned still has the
  precedent that holds it to scrub.
* `PlanesStayAgreed` (`PlanesAgree`), where commands take turns and none dies or fails.  The invariant
  (`PlaneInv`): node and row agree except at the item that the running command is rewriting
  or the precedent it is deciding, and there its next step's outcome does.

`AccessLogProofs`, for any reads, sizes and bounds of the queue:

* `TypeCorrect`; `NobodyOversleeps` (`NobodySleepsThrough`): the invariant (`Stations`) has every
  waiter in the queue of the condition once and at its wait, and the writer waits
  alone, since an idle queue lets `wait_idle` go; so the one `notify` of a submit
  cannot go to the wrong thread; `EveryReadAccounted` (`ReadsAccounted`): a read is new
  and nowhere, or somewhere, and without a writer thread only counted reads are
  queued.
* `TalliesAlwaysAddUp` (`TalliesAddUp`).  The invariant (`Tally`) is the property with the sums
  named: what is reported and not yet taken off is the sum of the counts that the
  signallers at their last step hold (`Reported`), and a read is counted as dropped once
  (`Unasked`).  The sums are the fold of the community modules; that it has the laws of a
  sum over any finite set (`SumTake`, `SumAdd`, `SumSame`, `SumMoved`) is proved from the fold's
  own definition, by a least counterexample (`LeastSubset`) in the place of an induction.

`JsonFileProofs`, about `Feedback`, for any finite set of grades numbered in order, and any
governed grades, packs, reconcilers, chunks and bounds; every theorem from one inductive
invariant, `FeedbackInv`:

* `FeedbackTypesHold` (`FeedbackTypeOK`).
* `EventsLoggedOnce` (`EventLoggedOnce`).  Where passes take turns one is at work at a time, and
  no call with it (`Turns`).  The events of a grade, the reconcilers that looked and
  found none, and the call that did, are together never more than allowed (`Once`); a check
  adds to them only where no event is logged, an emit moves one over.
* `RowsAreWrittenOnce` (`RowsWrittenOnce`).  The rows of a component and the one that the call
  at work still owes (`Owed`) are never more than the lines of the grade (`Counted`): a call that
  is made again brings its own line first.  What a backfill plans has no key twice and,
  once queried, no key that is in place (`Planned`): since no row landed between its count and
  its query, room for one more is room for all (`FirstRowsAre`); and a grade whose event it
  read has a line and no call that owes a row.  Cells: a row, planned or in
  place, is in the cell of its grade where the log can be read (`Celled`).
* `PassesAlwaysComplete` (`PassesComplete`), overlapping passes included.  A line that a pass
  loaded is logged, failed, at hand or still to do (`Swept`), and a row of what the backfill
  saw is planned or in place (`Filled`): the query takes from the plan only what it found, and
  a chunk moves its rows over whole.  That needs every event of a pack to say so, which the
  line keeps for a replay (`Packed`).
  What `FlattenSeq` makes of the parts (`Flattened`: their items, none twice unless a part has
  one twice or two parts share one) is proved from its definition, by the least place at
  which it fails, and `BridgedIs` says what the parts are.

Model-checked only: liveness.  Every invariant and action property of a passing run has its
theorem; `NothingStarves`, `RelabelReaches`, `DegradedRolledBack` and `CatchesUp` stay with
TLC, for the provers installed here handle neither fairness nor ENABLED.  Nor can they
instantiate the library's induction theorems; where a proof needs an induction it takes the
least counterexample instead (`ProbeEnds`, `LeastSubset`, `Flattened`).  No module of this
project declares a RECURSIVE operator.

## 6. Limits of the models

* The clock of GraphStore is monotone.  `utc_now()` is the wall clock, and a step
  backwards would break more than is modelled here.
* A SQLite transaction is one step; busy timeouts appear as the operation not
  being taken.  The other backends (Postgres, Neo4j, ArcadeDB) promise the same
  contract through their servers' isolation, which is not in this repository.
* The bulk writers `upsert_nodes_bulk` and `upsert_edges_bulk`, which only the stores and their
  tests call, and the records that observation.record and measurement.record add, are
  not modelled yet.
* A hand edit of a JSON file is one step; an editor that writes in place could
  expose half a file, which a load then reports as degraded.
* A reused inode with equal size and mtime does not occur (the code argues why in
  `core/path_presence.py`).
* One sync at a time.  What `put_document` writes in two stores is one step, and so
  are a demotion and the blanking of one row, so a race inside those is not seen.
  A plan, a probe or a listing reads at one instant.
* Left out of CorpusSync: dry runs, near-duplicate warnings, extraction, events,
  `updated_at`, operator tags, the label a move carries, a re-ingest that is flagged
  as such, the egress gate, and the precedent and graph half of a redaction.
  Records are taken in any order, the code's being that of the walk.
* A document write and its mirror are one step in TraceEmbed as in CorpusSync; the mirror may
  fail, and the properties about vector rows except the rows it failed for.
* Left out of TraceEmbed: dry runs, the `limit` of a pass, a trace that is missing when
  its retry comes, labels that others set on a summary, and the steps inside a
  redaction.  Overlapping passes are covered by the theorem alone.
* Left out of ParameterPromotion: dry runs, the cursor, other floors than the defaults,
  values that are no numbers, the registry's cache, the post-promotion sweep, the
  limits of 30 days and 200 events, the events nobody reads, and the stamp a
  snapshot takes just before its put.
* Left out of Lifecycle: edges, aliases, names, the unattended callers and their
  policies, dry runs, chunks, and the window inside `put_document` that CorpusSync has.
  A compare-and-set loop is one step, on the strength of `ImplementsRegister`.
* Left out of AccessLog: the report, item ids, the transports' parsing, the creation of
  the singleton, reads that carry no key, and the warning without a registry.
* Left out of Feedback: dry runs, the limit and the window of events, lines without an id
  and torn lines, the second log directory, calls of one grade that overlap each other,
  an intent family that the feedback itself names, and how a rating is derived.
  How many rows of a grade there may be is bounded where passes take turns; where they overlap
  it is described above and not bounded.
* Duplicate rows of a policy file are one garbled row: the load degrades on them.

## 7. Plan

The order is by what a silent error would cost.

1. Done: `GraphStore` with `NodeRegister`, `MutationExecutor`, `JsonStore`, `CorpusSync` with
   the document write seam, `Lifecycle` (precedents, retention, the graph half of a
   redaction), `ParameterPromotion`, `TraceEmbed`, `AccessLog`, `Feedback`, and the proofs above.
2. `PolicyGate`: strict loading against the lenient `JsonStore` view; deny wins; the
   sensitivity floor.  It replaces the free choice in `MutationExecutor`'s
   `Validate` by INSTANCE, and reads the file `JsonStore` writes.
3. `CorpusSync` against an abstract map from files to documents.
4. `Cron`: the matcher as an operator against a reference definition over bounded
   inputs.
5. The bulk writers of the graph store, and the observation and measurement
   handlers, in `GraphStore`; clock readings that may be equal (`Distinct = FALSE`),
   for which only the theorems about `VersionsAgree` and the links speak now.
6. `Lifecycle` over the steps of `CorpusSync`'s redaction, in one composition.

Runs are few and each asks one question, so later components share a run where
they compose.

Proofs, in order: that `CorpusSync` implements the abstract map of item 3; `TimelineExact` and
`WriteReplacesRead` as far as they hold where clock readings may be equal; that `MutationExecutor`
with a policy gate answers only what the gate let through.
