----------------------------- MODULE CorpusSync -----------------------------
(* The idempotent sync of a directory of files with the document store      *)
(* (ingest_corpus/sync.py), the document write seam it writes through       *)
(* (core/document_write.py), and the two other writers of its rows: a       *)
(* redaction, which blanks a document and its chunks                        *)
(* (mutate/handlers/redaction.py), and the feedback loop, which demotes a   *)
(* row (classify/feedback.py).                                              *)
(*                                                                          *)
(* A document is <<path, 0>>, its chunks <<path, 1>>, <<path, 2>>, ...      *)
(* (#chunk-0, #chunk-1, ...).  A text is a model value; Spans gives the     *)
(* pieces it is cut into, none for a short text.  A row's content_hash is   *)
(* its text.  One sync runs at a time, and a step is one call of the        *)
(* document or vector store, save that the reads of one plan, probe or      *)
(* listing are one step, the two writes of a put_document are one, and so   *)
(* is all of a demotion and the blanking of a row.                          *)
EXTENDS Integers, Sequences, FiniteSets

CONSTANTS
    Paths, Texts, Pieces,
    Spans,          \* chunk_spans: the pieces of each text
    MaxChunks,      \* bound: the longest text, in chunks
    MaxActs,        \* bound on the edits, redactions and demotions together
    MaxFaults,      \* bound on the runs and redactions that die
    Firsts,         \* bound on what the directory holds at the start
    Modes,          \* what may happen in a behaviour: subsets of Events
    NONE, BLANK

\* A step raises or the process dies; a sync prunes; a sync classifies; a sync
\* reads only part of the directory; the vector store or the embedder fails or
\* is off; the other writers do not wait for a sync to end.
Events == {"fault", "prune", "classify", "partial", "vectors", "overlap"}

Ids == Paths \X (0..MaxChunks)
Tags == {"noise", "standard", NONE}
Row == [text: Texts \cup Pieces \cup {BLANK}, count: 0..MaxChunks,
        tag: Tags, tomb: BOOLEAN]
VectorRow == [text: Texts \cup Pieces, tag: Tags]

ASSUME CorpusAssumption ==
    /\ MaxChunks \in Nat /\ MaxActs \in Nat /\ MaxFaults \in Nat
    /\ Spans \in [Texts -> Seq(Pieces)]
    /\ \A t \in Texts : Len(Spans[t]) <= MaxChunks
    /\ NONE \notin Paths \cup Texts /\ BLANK \notin Texts \cup Pieces
    /\ NONE \notin Ids \cup Row \cup VectorRow /\ NONE \notin {"noise", "standard"}
    /\ Firsts \subseteq [Paths -> Texts \cup {NONE}]
    /\ Modes \subseteq SUBSET Events

VARIABLES
    env,      \* the events that may happen, fixed at the start
    file,     \* the directory: the text at each path, or NONE
    docs,     \* the document store
    vecs,     \* the vector store
    sync,     \* locals of the sync in progress, or of the last one
    redact,   \* locals of the redaction in progress
    spent,    \* how much of each bound is used up
    settled   \* history: a full run ended well and no file changed since

stores == <<docs, vecs>>
vars == <<env, file, docs, vecs, sync, redact, spent, settled>>

Whole(p) == <<p, 0>>

Live(d) == docs[d] # NONE /\ ~docs[d].tomb
Tomb(d) == docs[d] # NONE /\ docs[d].tomb

\* No chunk serves the text of a document that is not there.
NoStrayChunk ==
    \A p \in Paths, i \in 1..MaxChunks : Live(<<p, i>>) => docs[Whole(p)] # NONE

Count(p) == IF docs[Whole(p)] = NONE THEN 0 ELSE docs[Whole(p)].count
TagOf(row) == IF row = NONE THEN NONE ELSE row.tag

\* The first index from i on with no row: what every probe upward stops at.
FirstAbsent(p, i) ==
    CHOOSE j \in i..(MaxChunks + 1) :
        /\ j > MaxChunks \/ docs[<<p, j>>] = NONE
        /\ \A k \in i..(j - 1) : docs[<<p, k>>] # NONE

Idle == [pc |-> "idle", records |-> <<>>, todo |-> {}, failed |-> {},
         moved |-> {}, cands |-> <<>>, prune |-> FALSE, classify |-> FALSE,
         path |-> NONE, action |-> NONE, from |-> NONE, row |-> NONE,
         tag |-> NONE, old |-> 0, next |-> 0, dels |-> <<>>,
         quiet |-> TRUE, late |-> FALSE]

AtRest == [pc |-> "idle", id |-> NONE, declared |-> 0, next |-> 0]

Init ==
    /\ env \in Modes
    /\ file \in Firsts
    /\ docs = [d \in Ids |-> NONE]
    /\ vecs = [d \in Ids |-> NONE]
    /\ sync = Idle
    /\ redact = AtRest
    /\ spent = [acts |-> 0, faults |-> 0]
    /\ settled = FALSE

Resting == sync.pc \in {"idle", "done"}
\* The other actors wait for the sync, unless the environment overlaps.
FreeToWrite == Resting \/ "overlap" \in env

-----------------------------------------------------------------------------
(* The write seam.                                                         *)

\* _guard_tombstone, on the row read first: a live row is not written over a
\* tombstone.  A row that stays a tombstone is never refused.
Refused(d) == Tomb(d)

NotMirrored(d, row) == vecs

\* sync_vector_metadata_outcome: the vector row keeps its embedding and takes
\* the tag just written.
Mirrored(d, row) ==
    IF vecs[d] = NONE THEN vecs ELSE [vecs EXCEPT ![d].tag = row.tag]

\* put_document past its guard: the authority first, then the fail-soft mirror.
PutDocument(d, row) ==
    /\ docs' = [docs EXCEPT ![d] = row]
    /\ \/ vecs' = Mirrored(d, row)
       \/ "vectors" \in env /\ UNCHANGED vecs

\* run_embed_on_ingest: rebuilds the row, or is off, or fails.
Embed(d, text, tag) ==
    \/ vecs' = [vecs EXCEPT ![d] = [text |-> text, tag |-> tag]]
    \/ "vectors" \in env /\ UNCHANGED vecs

\* _delete_vector_row
DropVector(d) ==
    \/ vecs' = [vecs EXCEPT ![d] = NONE]
    \/ "vectors" \in env /\ UNCHANGED vecs

-----------------------------------------------------------------------------
(* A run of the sync.                                                      *)

Text == sync.records[sync.path]
Size == Len(Spans[Text])
Chunk == <<sync.path, sync.next>>
Piece == Spans[Text][sync.next]

\* sync_corpus: every readable file in scope is read before anything is
\* written.  quiet is history: no stray chunk at the start, and no other writer
\* since.
Scopes == IF "partial" \in env THEN SUBSET Paths ELSE {Paths}

Start ==
    /\ Resting
    /\ redact.pc = "idle" \/ "overlap" \in env
    /\ \E scope \in Scopes, prune, classify \in BOOLEAN :
         LET found == {p \in scope : file[p] # NONE} IN
         /\ prune => "prune" \in env
         /\ classify => "classify" \in env
         /\ sync' = [Idle EXCEPT !.pc = "plan", !.todo = found,
                                 !.records = [p \in found |-> file[p]],
                                 !.prune = prune, !.classify = classify,
                                 !.quiet = redact.pc = "idle" /\ NoStrayChunk]
    /\ UNCHANGED <<env, file, stores, redact, spent, settled>>

HasText(d, text) == docs[d] # NONE /\ docs[d].text = text

\* As if a tombstone were not the row it stands for.
TextsLanded(p, t) ==
    /\ \A i \in 1..Len(Spans[t]) : HasText(<<p, i>>, Spans[t][i])
    /\ FirstAbsent(p, Len(Spans[t]) + 1) = Len(Spans[t]) + 1

\* record_landed: every span's row is there with its text, and no live row is
\* in the run that follows the last span.  A tombstone counts as landed.
RecordLanded(p, t) ==
    LET n == Len(Spans[t])
    IN  /\ \A i \in 1..n : Tomb(<<p, i>>) \/ HasText(<<p, i>>, Spans[t][i])
        /\ n > 0 => \A i \in (n + 1)..(FirstAbsent(p, n + 1) - 1) : Tomb(<<p, i>>)

\* A parent with the text is taken for a document that landed.
SkipOnHash(p, t) == Tomb(Whole(p)) \/ HasText(Whole(p), t)

\* _plan_record
SkipRecord(p, t) ==
    \/ Tomb(Whole(p))
    \/ HasText(Whole(p), t) /\ RecordLanded(p, t)

\* get_by_hash gives one row with the text; it is a move when that row is a
\* whole document that no record of this run stands for.
Hits(t) == {d \in Ids : docs[d] # NONE /\ docs[d].text = t}
Movable(hit) == hit[2] = 0 /\ hit[1] \notin DOMAIN sync.records
Actions(p, t) ==
    IF docs[Whole(p)] # NONE THEN {<<"update", NONE>>}
    ELSE IF Hits(t) = {} THEN {<<"new", NONE>>}
    ELSE {IF Movable(d) THEN <<"move", d[1]>> ELSE <<"new", NONE>> : d \in Hits(t)}

EndOfRecord(s) ==
    [s EXCEPT !.pc = "plan", !.todo = @ \ {s.path}, !.path = NONE,
              !.action = NONE, !.from = NONE, !.row = NONE, !.tag = NONE,
              !.old = 0, !.next = 0, !.dels = <<>>]

Plan(p) ==
    /\ sync.pc = "plan" /\ p \in sync.todo
    /\ LET t == sync.records[p] IN
       IF SkipRecord(p, t)
       THEN sync' = [sync EXCEPT !.todo = @ \ {p}]
       ELSE \E a \in Actions(p, t) :
              sync' = [sync EXCEPT
                  !.pc = IF a[1] = "update" THEN "stored" ELSE "put",
                  !.path = p, !.action = a[1], !.from = a[2],
                  !.moved = IF a[1] = "move" THEN @ \cup {a[2]} ELSE @]
    /\ UNCHANGED <<env, file, stores, redact, spent, settled>>

\* An update reads the stored row again, for its count and to merge under it.
ReadStored ==
    /\ sync.pc = "stored"
    /\ sync' = [sync EXCEPT !.pc = "put", !.row = docs[Whole(sync.path)],
                            !.old = Count(sync.path)]
    /\ UNCHANGED <<env, file, stores, redact, spent, settled>>

\* Classify-on-write fills a tag that is absent and replaces none.
ParentTag ==
    IF TagOf(sync.row) = NONE /\ sync.classify THEN "standard" ELSE TagOf(sync.row)

\* What is about to be put, and the guard's read of the row it would replace.
Target == IF sync.pc \in {"put", "putting"} THEN Whole(sync.path) ELSE Chunk

Guard ==
    /\ sync.pc \in {"put", "write"} /\ ~Refused(Target)
    /\ sync' = [sync EXCEPT !.pc = IF @ = "put" THEN "putting" ELSE "writing",
                            !.late = FALSE]
    /\ UNCHANGED <<env, file, stores, redact, spent, settled>>

\* The surplus is looked for on an update only.
AfterChunks == IF sync.action = "update" THEN "probe" ELSE "whole"

PutParent ==
    /\ sync.pc = "putting"
    /\ PutDocument(Whole(sync.path),
           [text |-> Text, count |-> Size, tag |-> ParentTag, tomb |-> FALSE])
    /\ sync' = [sync EXCEPT !.tag = ParentTag, !.next = 1, !.row = NONE,
                            !.pc = IF Size > 0 THEN "chunk" ELSE AfterChunks]
    /\ UNCHANGED <<env, file, redact, spent, settled>>

NextChunk(s) ==
    [s EXCEPT !.next = @ + 1, !.row = NONE,
              !.pc = IF s.next < Size THEN "chunk" ELSE AfterChunks]

\* _write_chunks: one read settles whether a chunk is written, and why.
Changed(row) == row = NONE \/ row.text # Piece
ChunkIsCurrent(row) ==
    /\ ~Changed(row)
    /\ row.count = Size
    /\ sync.tag # NONE => row.tag # NONE

ReadChunk ==
    /\ sync.pc = "chunk"
    /\ IF Tomb(Chunk) \/ ChunkIsCurrent(docs[Chunk])
       THEN sync' = NextChunk(sync)
       ELSE sync' = [sync EXCEPT !.pc = "write", !.row = docs[Chunk]]
    /\ UNCHANGED <<env, file, stores, redact, spent, settled>>

\* The parent's tag wins on every write.
ChunkTagOfParent == IF sync.tag # NONE THEN sync.tag ELSE TagOf(sync.row)

\* The parent's tag wins over a chunk that is rewritten, and fills only what a
\* refreshed one lacks.
ChunkTag ==
    IF sync.tag # NONE /\ (Changed(sync.row) \/ TagOf(sync.row) = NONE)
    THEN sync.tag ELSE TagOf(sync.row)

WriteChunk ==
    /\ sync.pc = "writing"
    /\ PutDocument(Chunk, [text |-> Piece, count |-> Size,
                           tag |-> ChunkTag, tomb |-> FALSE])
    /\ sync' = IF Changed(sync.row) THEN [sync EXCEPT !.pc = "embed"]
                                    ELSE NextChunk(sync)
    /\ UNCHANGED <<env, file, redact, spent, settled>>

EmbedChunk ==
    /\ sync.pc = "embed"
    /\ Embed(Chunk, Piece, ChunkTag)
    /\ sync' = NextChunk(sync)
    /\ UNCHANGED <<env, file, docs, redact, spent, settled>>

\* _delete_surplus_chunks: from the end of the rows down to the last span.
Larger(i, j) == IF i > j THEN i ELSE j
Downward(p, n, stop) == [k \in 1..(stop - n) |-> <<p, stop + 1 - k>>]

SurplusBeforeEnd(p, n) ==
    Downward(p, n, FirstAbsent(p, Larger(n, sync.old) + 1) - 1)

ProbeSurplus ==
    /\ sync.pc = "probe"
    /\ sync' = [sync EXCEPT !.pc = "surplus",
                            !.dels = SurplusBeforeEnd(sync.path, Size)]
    /\ UNCHANGED <<env, file, stores, redact, spent, settled>>

NeverKept(d) == FALSE

\* A tombstone is left in place.
KeptAsTombstone(d) == Tomb(d)

DeleteSurplus ==
    /\ sync.pc = "surplus"
    /\ IF sync.dels = <<>>
       THEN sync' = [sync EXCEPT !.pc = "whole"] /\ UNCHANGED docs
       ELSE IF KeptAsTombstone(Head(sync.dels))
       THEN sync' = [sync EXCEPT !.dels = Tail(@)] /\ UNCHANGED docs
       ELSE /\ docs' = [docs EXCEPT ![Head(sync.dels)] = NONE]
            /\ sync' = [sync EXCEPT !.pc = "vector"]
    /\ UNCHANGED <<env, file, vecs, redact, spent, settled>>

\* The vector row of a document just deleted goes after it.
DeleteVector ==
    /\ sync.pc = "vector"
    /\ DropVector(Head(sync.dels))
    /\ sync' = [sync EXCEPT !.dels = Tail(@),
                            !.pc = IF Head(sync.dels)[1] = sync.path
                                   THEN "surplus" ELSE "tree"]
    /\ UNCHANGED <<env, file, docs, redact, spent, settled>>

\* A short document is embedded whole; one with chunks has no row of its own.
WholeVector ==
    /\ sync.pc = "whole"
    /\ IF Size = 0 THEN Embed(Whole(sync.path), Text, sync.tag)
                   ELSE DropVector(Whole(sync.path))
    /\ sync' = IF sync.from = NONE THEN EndOfRecord(sync)
                                   ELSE [sync EXCEPT !.pc = "retire"]
    /\ UNCHANGED <<env, file, docs, redact, spent, settled>>

ParentAlone(p, count) == <<Whole(p)>>

\* _delete_document_tree: the declared chunks, then the parent.  Tombstones
\* are kept; all are read before the first chunk goes.
Tree(p, count) ==
    LET chunks == [i \in 1..count |->
                     IF KeptAsTombstone(<<p, i>>) THEN NONE ELSE <<p, i>>]
    IN  Append(chunks, Whole(p))

Retire ==
    /\ sync.pc = "retire"
    /\ sync' = [sync EXCEPT !.pc = "tree", !.dels = Tree(sync.from, Count(sync.from))]
    /\ UNCHANGED <<env, file, stores, redact, spent, settled>>

DeleteTree ==
    /\ sync.pc = "tree"
    /\ IF sync.dels = <<>>
       THEN /\ sync' = IF sync.path = NONE THEN [sync EXCEPT !.pc = "prune"]
                                           ELSE EndOfRecord(sync)
            /\ UNCHANGED docs
       ELSE IF Head(sync.dels) = NONE
       THEN sync' = [sync EXCEPT !.dels = Tail(@)] /\ UNCHANGED docs
       ELSE /\ docs' = [docs EXCEPT ![Head(sync.dels)] = NONE]
            /\ sync' = [sync EXCEPT !.pc = "vector"]
    /\ UNCHANGED <<env, file, vecs, redact, spent, settled>>

\* _prune_vanished: the whole documents no record of this run stands for.
ListCandidates ==
    /\ sync.pc = "plan" /\ sync.todo = {} /\ sync.prune
    /\ LET gone == {p \in Paths \ (DOMAIN sync.records \cup sync.moved) :
                        docs[Whole(p)] # NONE}
       IN  sync' = [sync EXCEPT !.pc = "prune",
                        !.cands = [p \in gone |-> docs[Whole(p)]]]
    /\ UNCHANGED <<env, file, stores, redact, spent, settled>>

Without(cands, p) == [q \in DOMAIN cands \ {p} |-> cands[q]]

\* Only a file that is not there is vanished.
Vanished(p) == file[p] = NONE

Prune(p) ==
    /\ sync.pc = "prune" /\ p \in DOMAIN sync.cands
    /\ sync' = IF Vanished(p) /\ ~sync.cands[p].tomb
               THEN [sync EXCEPT !.pc = "tree", !.cands = Without(@, p),
                                 !.dels = Tree(p, sync.cands[p].count)]
               ELSE [sync EXCEPT !.cands = Without(@, p)]
    /\ UNCHANGED <<env, file, stores, redact, spent, settled>>

EndOfRun ==
    /\ \/ sync.pc = "plan" /\ sync.todo = {} /\ ~sync.prune
       \/ sync.pc = "prune" /\ sync.cands = <<>>
    /\ sync' = [sync EXCEPT !.pc = "done", !.moved = {}]
    /\ settled' = (sync.failed = {} /\ sync.quiet
                   /\ \A p \in Paths : file[p] # NONE =>
                        p \in DOMAIN sync.records /\ sync.records[p] = file[p])
    /\ UNCHANGED <<env, file, stores, redact, spent>>

\* A step raises: the seam refuses, a store fails, or the process dies.  The
\* run ends, or, with a boundary for each record, goes on without this one.
Spend(what) == spent' = [spent EXCEPT ![what] = @ + 1]

Raise ==
    /\ ~Resting
    /\ \/ /\ "fault" \in env /\ spent.faults < MaxFaults
          /\ Spend("faults")
       \/ /\ sync.pc \in {"put", "write"} /\ Refused(Target)
          /\ UNCHANGED spent
    /\ \/ sync' = Idle
       \/ /\ sync.path # NONE
          /\ sync' = [EndOfRecord(sync) EXCEPT !.failed = @ \cup {sync.path}]
    /\ settled' = FALSE
    /\ UNCHANGED <<env, file, stores, redact>>

-----------------------------------------------------------------------------
(* The other writers.  A run in progress is no longer quiet, and a row that *)
(* is blanked between its put's guard and its write is late.                *)
Disturb(blanked) ==
    sync' = IF Resting THEN sync
            ELSE [sync EXCEPT !.quiet = FALSE,
                     !.late = @ \/ (sync.pc \in {"putting", "writing"}
                                     /\ Target \in blanked)]

\* A file is written, edited, removed or, in two changes, moved.
ChangeFile(p, t) ==
    /\ FreeToWrite
    /\ spent.acts < MaxActs /\ Spend("acts")
    /\ file[p] # t /\ file' = [file EXCEPT ![p] = t]
    /\ settled' = FALSE
    /\ UNCHANGED <<env, stores, sync, redact>>

\* apply_noise_tags: the row as read, with the tag, through the seam.
Demote(d) ==
    /\ FreeToWrite
    /\ redact.pc = "idle" \/ "overlap" \in env
    /\ docs[d] # NONE /\ docs[d].tag # "noise"
    /\ spent.acts < MaxActs /\ Spend("acts")
    /\ PutDocument(d, [docs[d] EXCEPT !.tag = "noise"])
    /\ Disturb({})
    /\ UNCHANGED <<env, file, redact, settled>>

\* redaction.apply on a document: its vector row first.
RedactVector(d) ==
    /\ FreeToWrite
    /\ redact.pc = "idle"
    /\ docs[d] # NONE
    /\ spent.acts < MaxActs /\ Spend("acts")
    /\ vecs' = [vecs EXCEPT ![d] = NONE]
    /\ redact' = [redact EXCEPT !.pc = "read", !.id = d]
    /\ Disturb({})
    /\ UNCHANGED <<env, file, docs, settled>>

\* _tombstone_redacted_documents reads the count.  A chunk's own chunks are
\* probed too, and are never there.
ReadDeclared ==
    /\ redact.pc = "read"
    /\ redact' = IF redact.id[2] = 0
                 THEN [redact EXCEPT !.pc = "chunk", !.next = 1,
                                     !.declared = Count(redact.id[1])]
                 ELSE [redact EXCEPT !.pc = "parent"]
    /\ Disturb({})
    /\ UNCHANGED <<env, file, stores, spent, settled>>

\* _tombstone_document: the vector row, then the blank row in its place.
Blanked(row) == [text |-> BLANK, count |-> row.count, tag |-> NONE, tomb |-> TRUE]

Tombstone(d) ==
    IF docs[d] = NONE THEN UNCHANGED stores
    ELSE /\ vecs' = [vecs EXCEPT ![d] = NONE]
         /\ docs' = [docs EXCEPT ![d] = Blanked(@)]

\* The walk goes on past the declared end until a row is absent.
PastDeclared(i) == i > redact.declared
PastEnd(i) == PastDeclared(i) /\ (i > MaxChunks \/ docs[<<redact.id[1], i>>] = NONE)

RedactChunk ==
    /\ redact.pc = "chunk"
    /\ IF PastEnd(redact.next)
       THEN redact' = [redact EXCEPT !.pc = "parent"] /\ UNCHANGED stores
       ELSE /\ Tombstone(<<redact.id[1], redact.next>>)
            /\ redact' = [redact EXCEPT !.next = @ + 1]
    /\ Disturb({<<redact.id[1], redact.next>>})
    /\ UNCHANGED <<env, file, spent, settled>>

\* Chunks first and the parent last.
RedactParent ==
    /\ redact.pc = "parent"
    /\ Tombstone(redact.id)
    /\ redact' = AtRest
    /\ Disturb({redact.id})
    /\ UNCHANGED <<env, file, spent, settled>>

\* The redaction raises (a vector store that fails does fail it) or dies,
\* perhaps between a row's vector and its blank.
RedactionFails ==
    /\ redact.pc # "idle"
    /\ {"fault", "vectors"} \cap env # {}
    /\ spent.faults < MaxFaults /\ Spend("faults")
    /\ \/ UNCHANGED vecs
       \/ /\ redact.pc = "chunk" /\ redact.next <= MaxChunks
          /\ docs[<<redact.id[1], redact.next>>] # NONE
          /\ vecs' = [vecs EXCEPT ![<<redact.id[1], redact.next>>] = NONE]
    /\ redact' = AtRest
    /\ UNCHANGED <<env, file, docs, sync, settled>>

-----------------------------------------------------------------------------
Record ==
    \/ ReadStored \/ Guard \/ PutParent
    \/ ReadChunk \/ WriteChunk \/ EmbedChunk
    \/ ProbeSurplus \/ DeleteSurplus \/ DeleteVector
    \/ WholeVector \/ Retire \/ DeleteTree

Run ==
    \/ \E p \in Paths : Plan(p) \/ Prune(p)
    \/ Record \/ ListCandidates \/ EndOfRun

Redaction ==
    \/ \E d \in Ids : RedactVector(d)
    \/ ReadDeclared \/ RedactChunk \/ RedactParent \/ RedactionFails

Others ==
    \/ \E p \in Paths, t \in Texts \cup {NONE} : ChangeFile(p, t)
    \/ \E d \in Ids : Demote(d)

Next == Start \/ Run \/ Raise \/ Redaction \/ Others

Spec == Init /\ [][Next]_vars

-----------------------------------------------------------------------------
(* Properties.                                                             *)

SyncStates == {"idle", "plan", "stored", "put", "putting", "chunk", "write",
               "writing", "embed", "probe", "surplus", "vector", "whole",
               "retire", "tree", "prune", "done"}

\* A function on some of the paths.
Partial(V) == UNION {[S -> V] : S \in SUBSET Paths}

\* Every variable keeps its type.
TypeOK ==
    /\ env \in SUBSET Events
    /\ file \in [Paths -> Texts \cup {NONE}]
    /\ docs \in [Ids -> Row \cup {NONE}]
    /\ vecs \in [Ids -> VectorRow \cup {NONE}]
    /\ sync \in [pc : SyncStates, records : Partial(Texts), todo : SUBSET Paths,
                 failed : SUBSET Paths, moved : SUBSET Paths, cands : Partial(Row),
                 prune : BOOLEAN, classify : BOOLEAN, path : Paths \cup {NONE},
                 action : {"new", "move", "update", NONE}, from : Paths \cup {NONE},
                 row : Row \cup {NONE}, tag : Tags, old : 0..MaxChunks,
                 next : 0..(MaxChunks + 1), dels : Seq(Ids \cup {NONE}),
                 quiet : BOOLEAN, late : BOOLEAN]
    /\ redact \in [pc : {"idle", "read", "chunk", "parent"}, id : Ids \cup {NONE},
                   declared : 0..MaxChunks, next : 0..(MaxChunks + 1)]
    /\ spent \in [acts : 0..MaxActs, faults : 0..MaxFaults]
    /\ settled \in BOOLEAN

Waits == "overlap" \notin env
NoFaults == "fault" \notin env
VectorsWork == "vectors" \notin env

\* Where writers wait for a sync to end, what is redacted stays redacted: no
\* sequence of edits, moves, prunes, dead runs and re-runs takes a tombstone
\* away or writes over it (#1034, #1067).  Where they do not wait, a sync that
\* read a row before its redaction is refused by the seam: a tombstone is
\* filled only by a put whose own guard had already read the row, the window
\* put_document's docstring grants.
TombstoneStays ==
    [][\A d \in Ids : Tomb(d) /\ ~Tomb(d)' =>
         ~Waits /\ (docs'[d] # NONE => sync.late /\ d = Target)]_vars

\* The deletion of a tree that dies, or a prune after a shrink that died or was
\* refused, can leave a gap among a document's chunks.  What is beyond a gap
\* after the first n of them is out of reach for a walk upward (see NoTextLeft).
BeyondGap(p, n, i) ==
    /\ ~NoFaults \/ ~Waits
    /\ \E j \in (n + 1)..(i - 1) : docs[<<p, j>>] = NONE

\* A redacted document serves no text by any of its rows, unless a run that
\* died had left the row beyond a gap, and, where nothing died and the vector
\* store works, by none of its vectors either.
RedactedIsBlank ==
    Waits => \A p \in Paths : Tomb(Whole(p)) =>
        /\ \A i \in 1..MaxChunks : Live(<<p, i>>) => BeyondGap(p, Count(p), i)
        /\ NoFaults /\ VectorsWork => \A i \in 0..MaxChunks : vecs[<<p, i>>] = NONE

\* The promise without that exception: "the target's <target>#chunk-N fragments
\* go with it" (_tombstone_redacted_documents).
NoTextLeft ==
    Waits => \A p \in Paths : Tomb(Whole(p)) =>
        \A i \in 1..MaxChunks : ~Live(<<p, i>>)

\* The document, all its chunks, and of a document with chunks no other row
\* within reach.
Landed(p, t) ==
    LET n == Len(Spans[t])
    IN  /\ HasText(Whole(p), t)
        /\ \A i \in 1..n : Tomb(<<p, i>>) \/ HasText(<<p, i>>, Spans[t][i])
        /\ n > 0 => \A i \in (n + 1)..MaxChunks : Live(<<p, i>>) => BeyondGap(p, n, i)

\* A run that nothing disturbed has, when it ends, landed every record it did
\* not report, whatever an earlier run left half done and whatever raced it.
RunLandsRecords ==
    sync.quiet /\ sync.pc = "done" =>
        \A p \in DOMAIN sync.records \ sync.failed :
            Tomb(Whole(p)) \/ Landed(p, sync.records[p])

\* "A second run over an unchanged source performs zero Knowledge-Plane
\* writes", whatever was redacted or demoted in between.
SecondRunWritesNothing ==
    [][sync.quiet /\ sync'.quiet /\ settled /\ ~Resting /\ ~sync.prune
        => UNCHANGED stores]_vars

\* No sync undoes a demotion: of a document never, of a chunk while its text
\* stays the same.
DemotionKept ==
    [][Waits /\ ~Resting => \A d \in Ids :
         /\ docs[d] # NONE /\ docs'[d] # NONE
         /\ docs[d].tag = "noise"
         /\ d[2] = 0 \/ docs'[d].text = docs[d].text
         => docs'[d].tag = "noise"]_vars

\* Where no call fails, every vector row stands for a row of the document
\* store, with its text and its tag, and a document has either one vector of
\* its own or its chunks have.
VectorsMirrorRows ==
    Waits /\ NoFaults /\ VectorsWork /\ Resting /\ redact.pc = "idle" =>
        /\ \A d \in Ids : vecs[d] # NONE =>
             HasText(d, vecs[d].text) /\ docs[d].tag = vecs[d].tag
        /\ \A p \in Paths : Live(Whole(p)) =>
             (vecs[Whole(p)] = NONE <=> docs[Whole(p)].count > 0)

\* No document goes while its file is there.
KeepsPresent ==
    \A p \in Paths :
        docs[Whole(p)] # NONE /\ file[p] # NONE => docs'[Whole(p)] # NONE

\* When a run with prune ends well the store holds the directory: no document
\* of a file that is gone and, where nothing ever died, no chunk of a document
\* that is gone.  And a document whose file is there is deleted by no prune,
\* whatever part of the directory the run read, nor by a move of a run that
\* read all of it.
StoreHoldsDirectory ==
    [][Waits =>
         /\ sync.pc = "prune" /\ sync'.pc = "done" /\ sync.failed = {} =>
              /\ \A p \in Paths : Live(Whole(p)) => file[p] # NONE
              /\ NoFaults => NoStrayChunk
         /\ ("partial" \in env => sync.path = NONE) => KeepsPresent]_vars

\* ... nor by any run: "same content under another id of this source whose item
\* is gone means it moved" (_plan_record).
OnlyGoneIsMoved == [][Waits => KeepsPresent]_vars

=============================================================================
