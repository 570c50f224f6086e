-------------------------- MODULE CorpusSyncProofs --------------------------
(* Proofs about CorpusSync, for any directory, texts, cuts and bounds.      *)
EXTENDS CorpusSync, WellFoundedInduction, TLAPS

Locals == [pc : SyncStates, records : Partial(Texts), todo : SUBSET Paths,
           failed : SUBSET Paths, moved : SUBSET Paths, cands : Partial(Row),
           prune : BOOLEAN, classify : BOOLEAN, path : Paths \cup {NONE},
           action : {"new", "move", "update", NONE}, from : Paths \cup {NONE},
           row : Row \cup {NONE}, tag : Tags, old : 0..MaxChunks,
           next : 0..(MaxChunks + 1), dels : Seq(Ids \cup {NONE}),
           quiet : BOOLEAN, late : BOOLEAN]
Redactions == [pc : {"idle", "read", "chunk", "parent"}, id : Ids \cup {NONE},
               declared : 0..MaxChunks, next : 0..(MaxChunks + 1)]

\* The stages in which a record is under way.
Working == {"stored", "put", "putting", "chunk", "write", "writing", "embed", "probe",
            "surplus", "whole", "retire"}
Chunking == {"chunk", "write", "writing", "embed"}

\* What is being deleted: chunks of the record, or the tree of another document.
Own(s) == \A k \in DOMAIN s.dels : s.dels[k] \in Ids /\ s.dels[k][1] = s.path
Foreign(s) == \A k \in DOMAIN s.dels : s.dels[k] # NONE => s.dels[k][1] # s.path

\* What the locals of a sync say about one another.
SyncOK(s) ==
    /\ s \in Locals
    /\ s.todo \subseteq DOMAIN s.records
    /\ s.path = NONE \/ s.path \in DOMAIN s.records
    /\ s.path = NONE => s.from = NONE /\ s.row = NONE
    /\ s.from \notin DOMAIN s.records
    /\ s.pc \in Working => s.path # NONE
    /\ s.pc \in SyncStates \ (Working \cup {"vector", "tree"}) => s.path = NONE
    /\ s.pc \in Chunking => s.next \in 1..Len(Spans[s.records[s.path]])
    /\ s.pc = "retire" => s.from # NONE
    /\ s.pc = "surplus" => Own(s)
    /\ s.pc = "tree" => Foreign(s)
    /\ s.pc = "vector" => /\ s.dels # <<>> /\ s.dels[1] \in Ids
                          /\ IF s.dels[1][1] = s.path THEN Own(s) ELSE Foreign(s)

\* The rows: a tombstone is blank.
RowsOK ==
    /\ docs \in [Ids -> Row \cup {NONE}]
    /\ vecs \in [Ids -> VectorRow \cup {NONE}]
    /\ \A d \in Ids : Tomb(d) => docs[d].text = BLANK

RedactOK == redact \in Redactions /\ (redact.pc # "idle" => redact.id \in Ids)

RestOK ==
    /\ env \in SUBSET Events
    /\ file \in [Paths -> Texts \cup {NONE}]
    /\ spent \in [acts : 0..MaxActs, faults : 0..MaxFaults]
    /\ settled \in BOOLEAN

\* The tree of another document is being deleted.
Felling(s) == s.pc = "tree" \/ (s.pc = "vector" /\ s.dels[1][1] # s.path)

Buried(ds, d) == ds[d] # NONE /\ ds[d].tomb

\* The document a sync is about to put.
Aim(s) == IF s.pc \in {"put", "putting"} THEN <<s.path, 0>> ELSE <<s.path, s.next>>

\* What a sync knows of the rows: a put that passed its guard writes over a
\* tombstone only if that is late; and where writers wait (w), what it read it
\* would read again, and nothing it is about to delete is a tombstone.
KnowsPut(w, s, ds) ==
    s.pc \in {"putting", "writing"} /\ Buried(ds, Aim(s)) => ~w /\ s.late
KnowsFrom(w, s, ds) == w /\ s.from # NONE => ~Buried(ds, <<s.from, 0>>)
KnowsDels(w, s, ds) ==
    w /\ Felling(s) => \A k \in DOMAIN s.dels : s.dels[k] # NONE => ~Buried(ds, s.dels[k])
KnowsCands(w, s, ds) ==
    w /\ s.pc \notin {"idle", "done"} =>
        \A p \in DOMAIN s.cands : Buried(ds, <<p, 0>>) => s.cands[p].tomb
KnowsRow(w, s, ds) ==
    w /\ s.pc \in {"put", "putting", "write", "writing"} => s.row = ds[Aim(s)]

Knows(w, s, ds) ==
    /\ KnowsPut(w, s, ds) /\ KnowsFrom(w, s, ds) /\ KnowsDels(w, s, ds)
    /\ KnowsCands(w, s, ds) /\ KnowsRow(w, s, ds)

SeenOK == Knows(Waits, sync, docs) /\ (Waits => Resting \/ redact.pc = "idle")

Inv == RowsOK /\ SyncOK(sync) /\ RedactOK /\ RestOK /\ SeenOK

LEMMA InvTypes == Inv => TypeOK
BY DEF Inv, RowsOK, SyncOK, RedactOK, RestOK, TypeOK, Locals, Redactions

-----------------------------------------------------------------------------
(* Data *)

LEMMA PartialIs ==
    ASSUME NEW V, NEW f \in Partial(V)
    PROVE  DOMAIN f \subseteq Paths /\ \A x \in DOMAIN f : f[x] \in V
BY DEF Partial

LEMMA PartialOf ==
    ASSUME NEW V, NEW S \in SUBSET Paths, NEW f \in [S -> V]
    PROVE  f \in Partial(V) /\ DOMAIN f = S
BY DEF Partial

LEMMA EmptyPartial == ASSUME NEW V PROVE <<>> \in Partial(V) /\ DOMAIN <<>> = {}
<1>1. <<>> \in [{} -> V]
  OBVIOUS
<1> QED
  BY <1>1 DEF Partial

LEMMA SpansOK ==
    /\ MaxChunks \in Nat
    /\ \A t \in Texts : Spans[t] \in Seq(Pieces) /\ Len(Spans[t]) \in 0..MaxChunks
BY CorpusAssumption

LEMMA IdOf ==
    ASSUME NEW p \in Paths, NEW i \in 0..MaxChunks
    PROVE  <<p, i>> \in Ids /\ <<p, i>>[1] = p
BY CorpusAssumption DEF Ids

LEMMA WholeOK == ASSUME NEW p \in Paths PROVE Whole(p) \in Ids /\ Whole(p)[1] = p
BY CorpusAssumption DEF Ids, Whole

LEMMA PathOf == \A d \in Ids : d[1] \in Paths /\ d[1] # NONE /\ d # NONE
BY CorpusAssumption DEF Ids

LEMMA TailOf ==
    ASSUME NEW X, NEW s \in Seq(X), s # <<>>
    PROVE  /\ Head(s) = s[1] /\ s[1] \in X /\ 1 \in DOMAIN s /\ Tail(s) \in Seq(X)
           /\ \A k \in DOMAIN Tail(s) : k + 1 \in DOMAIN s /\ Tail(s)[k] = s[k + 1]
OBVIOUS

LEMMA LeastNatural ==
    ASSUME NEW S, S \subseteq Nat, S # {}
    PROVE  \E x \in S : \A y \in S : x <= y
<1> DEFINE R == {ss \in Nat \X Nat : ss[1] < ss[2]}
<1>1. IsWellFoundedOn(R, Nat)
  BY NatLessThanWellFounded DEF OpToRel
<1>2. PICK x \in S : \A y \in S : ~(<<y, x>> \in R)
  <2> HIDE DEF R
  <2> QED
    BY <1>1, WFMin
<1>3. \A y \in S : ~(y < x)
  BY <1>2
<1> QED
  BY <1>3

\* A probe upward ends at the first index without a row.
LEMMA ProbeEnds ==
    ASSUME NEW p \in Paths, NEW i \in 0..(MaxChunks + 1)
    PROVE  FirstAbsent(p, i) \in i..(MaxChunks + 1)
<1> DEFINE S == {j \in i..(MaxChunks + 1) : j > MaxChunks \/ docs[<<p, j>>] = NONE}
<1>1. S \subseteq Nat /\ S # {}
  <2>1. MaxChunks + 1 \in S
    BY SpansOK
  <2> QED
    BY <2>1
<1>2. PICK j \in S : \A k \in S : j <= k
  <2> HIDE DEF S
  <2> QED
    BY <1>1, LeastNatural
<1>3. \A k \in i..(j - 1) : docs[<<p, k>>] # NONE
  <2> SUFFICES ASSUME NEW k \in i..(j - 1), docs[<<p, k>>] = NONE PROVE FALSE
    OBVIOUS
  <2>1. k \in S
    BY <1>2, SpansOK
  <2> QED
    BY <1>2, <2>1, SpansOK
<1>4. j \in i..(MaxChunks + 1) /\ (j > MaxChunks \/ docs[<<p, j>>] = NONE)
  BY <1>2
<1> HIDE DEF S
<1> QED
  BY <1>3, <1>4 DEF FirstAbsent

LEMMA CountOK == ASSUME RowsOK, NEW p \in Paths PROVE Count(p) \in 0..MaxChunks
<1>1. docs[Whole(p)] \in Row \cup {NONE}
  BY WholeOK DEF RowsOK
<1> QED
  BY <1>1, SpansOK DEF Count, Row

LEMMA TagOK == ASSUME NEW row \in Row \cup {NONE} PROVE TagOf(row) \in Tags
BY DEF TagOf, Row, Tags

LEMMA TreeOK ==
    ASSUME NEW p \in Paths, NEW count \in 0..MaxChunks
    PROVE  /\ Tree(p, count) \in Seq(Ids \cup {NONE})
           /\ \A k \in DOMAIN Tree(p, count) :
                \/ Tree(p, count)[k] = NONE
                \/ Tree(p, count)[k] = Whole(p)
                \/ Tree(p, count)[k] \in Ids /\ Tree(p, count)[k][1] = p /\ ~Tomb(Tree(p, count)[k])
<1> DEFINE chunks == [i \in 1..count |-> IF KeptAsTombstone(<<p, i>>) THEN NONE ELSE <<p, i>>]
<1>1. \A i \in 1..count : <<p, i>> \in Ids /\ <<p, i>>[1] = p
  BY SpansOK, IdOf
<1>2. chunks \in Seq(Ids \cup {NONE}) /\ Len(chunks) = count /\ DOMAIN chunks = 1..count
  BY <1>1, SpansOK
<1>3. Tree(p, count) = Append(chunks, Whole(p)) /\ Whole(p) \in Ids
  BY WholeOK DEF Tree
<1>4. \A i \in 1..count : \/ chunks[i] = NONE
                          \/ chunks[i] \in Ids /\ chunks[i][1] = p /\ ~Tomb(chunks[i])
  BY <1>1 DEF KeptAsTombstone
<1> HIDE DEF chunks
<1>5. Append(chunks, Whole(p)) \in Seq(Ids \cup {NONE})
  BY <1>2, <1>3
<1>6. \A k \in DOMAIN Append(chunks, Whole(p)) :
         \/ k \in 1..count /\ Append(chunks, Whole(p))[k] = chunks[k]
         \/ Append(chunks, Whole(p))[k] = Whole(p)
  BY <1>2, SpansOK
<1> QED
  BY <1>3, <1>4, <1>5, <1>6

LEMMA SurplusOK ==
    ASSUME NEW p \in Paths, NEW n \in 0..MaxChunks, sync.old \in 0..MaxChunks
    PROVE  /\ SurplusBeforeEnd(p, n) \in Seq(Ids \cup {NONE})
           /\ \A k \in DOMAIN SurplusBeforeEnd(p, n) :
                SurplusBeforeEnd(p, n)[k] \in Ids /\ SurplusBeforeEnd(p, n)[k][1] = p
<1> DEFINE i == Larger(n, sync.old) + 1
           stop == FirstAbsent(p, i) - 1
<1>1. i \in (n + 1)..(MaxChunks + 1)
  BY SpansOK DEF Larger
<1>2. FirstAbsent(p, i) \in i..(MaxChunks + 1)
  BY <1>1, ProbeEnds, SpansOK
<1> HIDE DEF i
<1>3. stop \in n..MaxChunks
  BY <1>1, <1>2, SpansOK
<1>4. SurplusBeforeEnd(p, n) = [k \in 1..(stop - n) |-> <<p, stop + 1 - k>>]
  BY DEF SurplusBeforeEnd, Downward, i
<1> HIDE DEF stop
<1>5. \A k \in 1..(stop - n) : <<p, stop + 1 - k>> \in Ids /\ <<p, stop + 1 - k>>[1] = p
  BY <1>3, IdOf, SpansOK
<1>6. stop - n \in Nat
  BY <1>3, SpansOK
<1> QED
  BY <1>4, <1>5, <1>6

-----------------------------------------------------------------------------
(* Locals of a sync *)

LEMMA SyncTypes ==
    ASSUME NEW s, SyncOK(s)
    PROVE  /\ s \in Locals /\ DOMAIN s.records \subseteq Paths
           /\ \A x \in DOMAIN s.records : s.records[x] \in Texts
           /\ s.pc \in SyncStates /\ s.next \in 0..(MaxChunks + 1) /\ s.old \in 0..MaxChunks
           /\ s.dels \in Seq(Ids \cup {NONE}) /\ s.row \in Row \cup {NONE} /\ s.tag \in Tags
           /\ s.from \in Paths \cup {NONE} /\ s.cands \in Partial(Row)
           /\ s.classify \in BOOLEAN /\ s.late \in BOOLEAN /\ s.quiet \in BOOLEAN
           /\ s.todo \subseteq Paths /\ s.moved \subseteq Paths
<1>1. s \in Locals
  BY DEF SyncOK
<1>2. s.records \in Partial(Texts)
  BY <1>1 DEF Locals
<1> QED
  BY <1>1, <1>2, PartialIs DEF Locals

\* The record under way has a path, a text and a number of chunks.
LEMMA AtWork ==
    ASSUME NEW s, SyncOK(s), s.path # NONE
    PROVE  /\ s.path \in Paths /\ s.path \in DOMAIN s.records /\ s.records[s.path] \in Texts
           /\ Len(Spans[s.records[s.path]]) \in 0..MaxChunks
           /\ s.from # s.path
           /\ \A i \in 1..Len(Spans[s.records[s.path]]) : Spans[s.records[s.path]][i] \in Pieces
BY SyncTypes, SpansOK DEF SyncOK

LEMMA IdleSync == SyncOK(Idle) /\ Idle.pc = "idle" /\ Idle.path = NONE /\ DOMAIN Idle.cands = {}
<1>1. <<>> \in Partial(Texts) /\ <<>> \in Partial(Row) /\ <<>> \in Seq(Ids \cup {NONE})
  BY EmptyPartial
<1>2. Idle \in Locals
  BY <1>1, SpansOK DEF Idle, Locals, SyncStates, Tags
<1>3. /\ Idle.pc = "idle" /\ Idle.path = NONE /\ Idle.from = NONE /\ Idle.row = NONE
      /\ Idle.todo = {} /\ Idle.records = <<>> /\ Idle.cands = <<>>
  BY DEF Idle
<1>4. DOMAIN Idle.records = {} /\ DOMAIN Idle.cands = {}
  BY <1>3, EmptyPartial
<1> QED
  BY <1>2, <1>3, <1>4 DEF SyncOK, Working, Chunking

LEMMA EndsRecord ==
    ASSUME NEW s, SyncOK(s)
    PROVE  LET e == EndOfRecord(s) IN
           /\ SyncOK(e) /\ e.pc = "plan" /\ e.path = NONE /\ e.from = NONE
           /\ e.cands = s.cands /\ e.late = s.late /\ e.failed = s.failed
<1> DEFINE e == EndOfRecord(s)
<1>0. s \in Locals
  BY DEF SyncOK
<1>1. /\ s.todo \ {s.path} \in SUBSET Paths /\ <<>> \in Seq(Ids \cup {NONE})
      /\ 0 \in 0..MaxChunks /\ 0 \in 0..(MaxChunks + 1) /\ "plan" \in SyncStates /\ NONE \in Tags
  BY <1>0, SpansOK DEF Locals, SyncStates, Tags
<1>2. e \in Locals
  BY <1>0, <1>1 DEF EndOfRecord, Locals
<1>3. /\ e.pc = "plan" /\ e.path = NONE /\ e.from = NONE /\ e.row = NONE
      /\ e.cands = s.cands /\ e.late = s.late /\ e.failed = s.failed
      /\ e.todo = s.todo \ {s.path} /\ e.records = s.records
  BY <1>0 DEF EndOfRecord, Locals
<1>4. NONE \notin DOMAIN s.records
  BY SyncTypes, CorpusAssumption
<1> HIDE DEF e
<1>5. SyncOK(e)
  BY <1>2, <1>3, <1>4 DEF SyncOK, Working, Chunking
<1> QED
  BY <1>3, <1>5 DEF e

\* A record that fails is put aside.
LEMMA Fails ==
    ASSUME NEW s, SyncOK(s), s.path # NONE
    PROVE  LET e == [EndOfRecord(s) EXCEPT !.failed = @ \cup {s.path}] IN
           /\ SyncOK(e) /\ e.pc = "plan" /\ e.path = NONE /\ e.from = NONE
           /\ e.cands = s.cands /\ e.late = s.late
<1> DEFINE d == EndOfRecord(s)
<1>1. /\ SyncOK(d) /\ d \in Locals /\ d.pc = "plan" /\ d.path = NONE /\ d.from = NONE
      /\ d.cands = s.cands /\ d.late = s.late
  BY EndsRecord DEF SyncOK
<1> HIDE DEF d
<1> DEFINE e == [d EXCEPT !.failed = @ \cup {s.path}]
<1>2. s.path \in Paths
  BY AtWork
<1>3. /\ e \in Locals /\ e.pc = d.pc /\ e.path = d.path /\ e.from = d.from /\ e.row = d.row
      /\ e.cands = d.cands /\ e.late = d.late /\ e.todo = d.todo /\ e.records = d.records
      /\ e.dels = d.dels /\ e.next = d.next
  BY <1>1, <1>2 DEF Locals
<1> HIDE DEF e
<1>4. SyncOK(e)
  BY <1>1, <1>3 DEF SyncOK, Working, Chunking
<1> QED
  BY <1>1, <1>3, <1>4 DEF d, e

\* Only the quiet and the late history of a sync changes.
LEMMA DisturbedIs ==
    ASSUME SyncOK(sync), NEW blanked, Disturb(blanked)
    PROVE  /\ SyncOK(sync') /\ sync'.pc = sync.pc /\ sync'.path = sync.path /\ sync'.from = sync.from
           /\ sync'.row = sync.row /\ sync'.dels = sync.dels /\ sync'.cands = sync.cands
           /\ sync'.next = sync.next
           /\ ~Resting /\ (sync.late \/ (sync.pc \in {"putting", "writing"} /\ Target \in blanked))
                => sync'.late
<1> DEFINE late == sync.late \/ (sync.pc \in {"putting", "writing"} /\ Target \in blanked)
           e == [sync EXCEPT !.quiet = FALSE, !.late = late]
<1>1. CASE Resting
  BY <1>1 DEF Disturb
<1>2. CASE ~Resting
  <2>1. sync' = e
    BY <1>2 DEF Disturb
  <2>2. late \in BOOLEAN
    OBVIOUS
  <2>3. sync \in Locals
    BY DEF SyncOK
  <2> HIDE DEF late
  <2>4. /\ e \in Locals /\ e.pc = sync.pc /\ e.path = sync.path /\ e.from = sync.from /\ e.row = sync.row
        /\ e.cands = sync.cands /\ e.late = late /\ e.todo = sync.todo /\ e.records = sync.records
        /\ e.dels = sync.dels /\ e.next = sync.next
    BY <2>2, <2>3 DEF Locals
  <2> HIDE DEF e
  <2>5. SyncOK(e)
    BY <2>4 DEF SyncOK, Working, Chunking, Own, Foreign
  <2> QED
    BY <2>1, <2>4, <2>5 DEF late
<1> QED
  BY <1>1, <1>2

LEMMA StartLocal ==
    ASSUME RestOK, Start
    PROVE  SyncOK(sync') /\ sync'.pc = "plan" /\ sync'.path = NONE /\ DOMAIN sync'.cands = {}
<1>1. PICK scope \in Scopes, prune \in BOOLEAN, classify \in BOOLEAN :
         sync' = [Idle EXCEPT !.pc = "plan", !.todo = {p \in scope : file[p] # NONE},
                              !.records = [p \in {p \in scope : file[p] # NONE} |-> file[p]],
                              !.prune = prune, !.classify = classify,
                              !.quiet = redact.pc = "idle" /\ NoStrayChunk]
  BY DEF Start
<1> DEFINE found == {p \in scope : file[p] # NONE}
           records == [p \in found |-> file[p]]
           quiet == redact.pc = "idle" /\ NoStrayChunk
           s == [Idle EXCEPT !.pc = "plan", !.todo = found, !.records = records,
                             !.prune = prune, !.classify = classify, !.quiet = quiet]
<1>2. found \in SUBSET Paths
  BY DEF Scopes
<1>3. \A p \in found : file[p] \in Texts
  BY <1>2 DEF RestOK
<1>4. records \in Partial(Texts) /\ DOMAIN records = found
  <2>1. records \in [found -> Texts]
    BY <1>3
  <2> HIDE DEF found, records
  <2> QED
    BY <1>2, <2>1, PartialOf
<1>5. quiet \in BOOLEAN
  OBVIOUS
<1>6. sync' = s
  BY <1>1
<1> HIDE DEF found, records, quiet
<1>7. Idle \in Locals /\ "plan" \in SyncStates
  BY IdleSync DEF SyncOK, SyncStates
<1>8. /\ s \in Locals /\ s.pc = "plan" /\ s.path = Idle.path /\ s.from = Idle.from
      /\ s.row = Idle.row /\ s.todo = found /\ s.records = records /\ s.cands = Idle.cands
  BY <1>2, <1>4, <1>5, <1>7 DEF Locals
<1>9. Idle.path = NONE /\ Idle.from = NONE /\ Idle.row = NONE /\ NONE \notin found
      /\ DOMAIN Idle.cands = {}
  BY <1>2, IdleSync, CorpusAssumption DEF Idle
<1> HIDE DEF s
<1>10. SyncOK(s)
  BY <1>4, <1>8, <1>9 DEF SyncOK, Working, Chunking
<1> QED
  BY <1>6, <1>8, <1>9, <1>10

\* What a move moves is a whole document with the same text, which no record
\* stands for.
LEMMA PlanChoice ==
    ASSUME SyncOK(sync), RowsOK, NEW p \in Paths, NEW t, NEW a \in Actions(p, t)
    PROVE  /\ a[1] \in {"new", "move", "update"} /\ a[2] \in Paths \cup {NONE}
           /\ a[2] # NONE => /\ a[2] \notin DOMAIN sync.records
                             /\ docs[Whole(a[2])] # NONE /\ docs[Whole(a[2])].text = t
           /\ a[1] = "update" <=> docs[Whole(p)] # NONE
           /\ a[1] = "update" => a[2] = NONE
<1>1. CASE docs[Whole(p)] # NONE
  BY <1>1 DEF Actions
<1>2. CASE docs[Whole(p)] = NONE /\ Hits(t) = {}
  BY <1>2 DEF Actions
<1>3. CASE docs[Whole(p)] = NONE /\ Hits(t) # {}
  <2>1. PICK d \in Hits(t) : a = IF Movable(d) THEN <<"move", d[1]>> ELSE <<"new", NONE>>
    BY <1>3 DEF Actions
  <2>2. d \in Ids /\ docs[d] # NONE /\ docs[d].text = t
    BY DEF Hits
  <2>3. CASE Movable(d)
    <3>1. d[1] \in Paths /\ d = Whole(d[1]) /\ d[1] \notin DOMAIN sync.records
      BY <2>2, <2>3 DEF Movable, Whole, Ids
    <3>2. a[1] = "move" /\ a[2] = d[1]
      BY <2>1, <2>3
    <3> QED
      BY <1>3, <2>2, <3>1, <3>2
  <2>4. CASE ~Movable(d)
    BY <1>3, <2>1, <2>4
  <2> QED
    BY <2>3, <2>4
<1> QED
  BY <1>1, <1>2, <1>3

\* A record is skipped, or taken up; sync.row is read again or there is none.
LEMMA PlanLocal ==
    ASSUME SyncOK(sync), RowsOK, NEW p \in Paths, Plan(p)
    PROVE  /\ SyncOK(sync') /\ sync'.cands = sync.cands
           /\ \/ sync'.pc = "plan" /\ sync'.from = NONE
              \/ sync'.pc = "stored" /\ sync'.from = NONE
              \/ /\ sync'.pc = "put" /\ sync'.path = p
                 /\ sync'.row = NONE /\ docs[Whole(p)] = NONE
                 /\ sync'.from # NONE => /\ docs[Whole(sync'.from)] # NONE
                                         /\ docs[Whole(sync'.from)].text \in Texts
<1> DEFINE t == sync.records[p]
<1>1. sync.pc = "plan" /\ p \in sync.todo /\ p \in DOMAIN sync.records /\ t \in Texts
      /\ sync.path = NONE /\ sync.from = NONE /\ sync.row = NONE /\ sync \in Locals
  BY SyncTypes DEF Plan, SyncOK, Working, SyncStates
<1>2. CASE SkipRecord(p, t)
  <2> DEFINE s == [sync EXCEPT !.todo = @ \ {p}]
  <2>1. sync' = s
    BY <1>2 DEF Plan
  <2>2. /\ s \in Locals /\ s.pc = sync.pc /\ s.path = sync.path /\ s.from = sync.from
        /\ s.row = sync.row /\ s.todo = sync.todo \ {p} /\ s.records = sync.records
        /\ s.cands = sync.cands
    BY <1>1 DEF Locals
  <2> HIDE DEF s
  <2>3. SyncOK(s)
    BY <1>1, <2>2 DEF SyncOK, Working, Chunking
  <2> QED
    BY <1>1, <2>1, <2>2, <2>3
<1>3. CASE ~SkipRecord(p, t)
  <2>1. PICK a \in Actions(p, t) :
           sync' = [sync EXCEPT
                  !.pc = IF a[1] = "update" THEN "stored" ELSE "put",
                  !.path = p, !.action = a[1], !.from = a[2],
                  !.moved = IF a[1] = "move" THEN @ \cup {a[2]} ELSE @]
    BY <1>3 DEF Plan
  <2>2. /\ a[1] \in {"new", "move", "update"} /\ a[2] \in Paths \cup {NONE}
        /\ a[2] # NONE => /\ a[2] \notin DOMAIN sync.records
                          /\ docs[Whole(a[2])] # NONE /\ docs[Whole(a[2])].text = t
        /\ a[1] = "update" <=> docs[Whole(p)] # NONE
        /\ a[1] = "update" => a[2] = NONE
    BY PlanChoice
  <2> DEFINE pc == IF a[1] = "update" THEN "stored" ELSE "put"
             moved == IF a[1] = "move" THEN sync.moved \cup {a[2]} ELSE sync.moved
             s == [sync EXCEPT !.pc = pc, !.path = p, !.action = a[1], !.from = a[2],
                               !.moved = moved]
  <2>3. sync' = s
    BY <2>1
  <2>4. pc \in {"stored", "put"} /\ pc \in SyncStates /\ (pc = "put" <=> a[1] # "update")
    BY DEF SyncStates
  <2>5. sync.moved \subseteq Paths
    BY SyncTypes
  <2>6. a[1] = "move" => a[2] \in Paths
    <3>1. a[1] = "move" => \E d \in Hits(t) : a = <<"move", d[1]>>
      BY DEF Actions
    <3>2. \A d \in Hits(t) : d[1] \in Paths
      BY PathOf DEF Hits
    <3> QED
      BY <3>1, <3>2
  <2>7. moved \in SUBSET Paths
    BY <2>5, <2>6
  <2> HIDE DEF pc, moved
  <2>8. /\ s \in Locals /\ s.pc = pc /\ s.path = p /\ s.from = a[2]
        /\ s.row = sync.row /\ s.todo = sync.todo /\ s.records = sync.records
        /\ s.cands = sync.cands
    BY <1>1, <2>2, <2>4, <2>7 DEF Locals
  <2> HIDE DEF s
  <2>9. NONE \notin DOMAIN sync.records /\ p # NONE
    BY SyncTypes, CorpusAssumption
  <2>10. SyncOK(s)
    BY <1>1, <2>2, <2>4, <2>8, <2>9 DEF SyncOK, Working, Chunking
  <2> QED
    BY <1>1, <2>2, <2>3, <2>4, <2>8, <2>10
<1> QED
  BY <1>2, <1>3

\* The locals a record's steps hand on.
Same(s, e) == /\ e.path = s.path /\ e.from = s.from /\ e.cands = s.cands /\ e.records = s.records
              /\ e.todo = s.todo

LEMMA NextChunkOK ==
    ASSUME SyncOK(sync), sync.pc \in Chunking
    PROVE  LET e == NextChunk(sync) IN
           /\ SyncOK(e) /\ e.pc \in {"chunk", "probe", "whole"} /\ Same(sync, e)
<1> DEFINE pc == IF sync.next < Size THEN "chunk" ELSE AfterChunks
           e == [sync EXCEPT !.next = @ + 1, !.row = NONE, !.pc = pc]
<1>0. /\ sync \in Locals /\ sync.path # NONE /\ sync.next \in 1..Size /\ Size \in 0..MaxChunks
      /\ sync.next \in Nat
  <2>1. sync.path # NONE /\ sync.next \in 1..Size
    BY DEF SyncOK, Chunking, Working, Size, Text
  <2> QED
    BY <2>1, AtWork, SpansOK DEF SyncOK, Size, Text
<1>1. pc \in {"chunk", "probe", "whole"} /\ pc \in SyncStates
      /\ (pc = "chunk" => sync.next + 1 \in 1..Size)
  BY <1>0, SpansOK DEF AfterChunks, SyncStates
<1>2. sync.next + 1 \in 0..(MaxChunks + 1)
  BY <1>0, SpansOK
<1>3. NextChunk(sync) = e
  BY DEF NextChunk
<1> HIDE DEF pc
<1>4. /\ e \in Locals /\ e.pc = pc /\ Same(sync, e) /\ e.next = sync.next + 1 /\ e.row = NONE
  BY <1>0, <1>1, <1>2 DEF Locals, Same
<1> HIDE DEF e
<1>5. SyncOK(e)
  BY <1>0, <1>1, <1>4 DEF SyncOK, Same, Working, Chunking, Size, Text
<1> QED
  BY <1>1, <1>3, <1>4, <1>5

LEMMA StoredLocal ==
    ASSUME SyncOK(sync), RowsOK, ReadStored
    PROVE  /\ SyncOK(sync') /\ sync'.pc = "put" /\ sync'.row = docs[Whole(sync'.path)]
           /\ Same(sync, sync')
<1> DEFINE row == docs[Whole(sync.path)]
           e == [sync EXCEPT !.pc = "put", !.row = row, !.old = Count(sync.path)]
<1>1. sync \in Locals /\ sync.pc = "stored" /\ sync.path # NONE /\ sync.path \in Paths
  BY AtWork DEF SyncOK, ReadStored, Working
<1>2. row \in Row \cup {NONE} /\ Count(sync.path) \in 0..MaxChunks
  BY <1>1, WholeOK, CountOK DEF RowsOK
<1>3. sync' = e
  BY DEF ReadStored
<1> HIDE DEF row
<1>4. e \in Locals /\ e.pc = "put" /\ e.row = row /\ Same(sync, e)
  BY <1>1, <1>2 DEF Locals, Same, SyncStates
<1> HIDE DEF e
<1>5. SyncOK(e)
  BY <1>1, <1>4 DEF SyncOK, Same, Working, Chunking
<1> QED
  BY <1>3, <1>4, <1>5 DEF row, Same

LEMMA GuardLocal ==
    ASSUME SyncOK(sync), Guard
    PROVE  /\ SyncOK(sync') /\ Same(sync, sync') /\ sync'.row = sync.row /\ sync'.next = sync.next
           /\ \/ sync.pc = "put" /\ sync'.pc = "putting"
              \/ sync.pc = "write" /\ sync'.pc = "writing"
           /\ Target' = Target /\ Chunk' = Chunk /\ sync.path \in Paths
<1> DEFINE pc == IF sync.pc = "put" THEN "putting" ELSE "writing"
           e == [sync EXCEPT !.pc = pc, !.late = FALSE]
<1>1. sync \in Locals /\ sync.pc \in {"put", "write"} /\ sync.path # NONE /\ sync.path \in Paths
  BY AtWork DEF SyncOK, Guard, Working
<1>2. sync' = e
  BY DEF Guard
<1>3. pc \in {"putting", "writing"} /\ pc \in SyncStates
      /\ (pc = "putting" <=> sync.pc = "put")
  BY DEF SyncStates
<1> HIDE DEF pc
<1>4. /\ e \in Locals /\ e.pc = pc /\ e.row = sync.row /\ e.next = sync.next /\ Same(sync, e)
  BY <1>1, <1>3 DEF Locals, Same
<1> HIDE DEF e
<1>5. SyncOK(e)
  BY <1>1, <1>3, <1>4 DEF SyncOK, Same, Working, Chunking
<1>6. Target' = Target /\ Chunk' = Chunk
  BY <1>1, <1>2, <1>3, <1>4 DEF Target, Chunk, Same
<1> QED
  BY <1>1, <1>2, <1>3, <1>4, <1>5, <1>6

LEMMA ParentTagOK == ASSUME SyncOK(sync) PROVE ParentTag \in Tags
<1>1. TagOf(sync.row) \in Tags
  BY SyncTypes, TagOK
<1> QED
  BY <1>1 DEF ParentTag, Tags

LEMMA ChunkTagOK == ASSUME SyncOK(sync) PROVE ChunkTag \in Tags
<1>1. TagOf(sync.row) \in Tags /\ sync.tag \in Tags
  BY SyncTypes, TagOK
<1> QED
  BY <1>1 DEF ChunkTag

LEMMA PutLocal ==
    ASSUME SyncOK(sync), PutParent
    PROVE  /\ SyncOK(sync') /\ sync'.pc \in {"chunk", "probe", "whole"} /\ Same(sync, sync')
<1> DEFINE pc == IF Size > 0 THEN "chunk" ELSE AfterChunks
           e == [sync EXCEPT !.tag = ParentTag, !.next = 1, !.row = NONE, !.pc = pc]
<1>1. sync \in Locals /\ sync.pc = "putting" /\ sync.path # NONE
  BY DEF SyncOK, PutParent, Working
<1>2. Size \in 0..MaxChunks
  BY <1>1, AtWork DEF Size, Text
<1>3. sync' = e
  BY DEF PutParent
<1>4. pc \in {"chunk", "probe", "whole"} /\ pc \in SyncStates /\ (pc = "chunk" => 1 \in 1..Size)
  BY <1>2, SpansOK DEF AfterChunks, SyncStates
<1>5. ParentTag \in Tags /\ 1 \in 0..(MaxChunks + 1)
  BY ParentTagOK, SpansOK
<1> HIDE DEF pc
<1>6. /\ e \in Locals /\ e.pc = pc /\ e.next = 1 /\ e.row = NONE /\ Same(sync, e)
  BY <1>1, <1>4, <1>5 DEF Locals, Same
<1> HIDE DEF e
<1>7. SyncOK(e)
  BY <1>1, <1>4, <1>6 DEF SyncOK, Same, Working, Chunking, Size, Text
<1> QED
  BY <1>3, <1>4, <1>6, <1>7

LEMMA ReadChunkLocal ==
    ASSUME SyncOK(sync), RowsOK, ReadChunk
    PROVE  /\ SyncOK(sync') /\ Same(sync, sync')
           /\ \/ sync'.pc \in {"chunk", "probe", "whole"}
              \/ sync'.pc = "write" /\ sync'.next = sync.next /\ sync'.row = docs[Chunk] /\ Chunk \in Ids
<1>1. sync \in Locals /\ sync.pc = "chunk" /\ sync.path \in Paths /\ sync.path # NONE
      /\ sync.next \in 1..Size /\ Size \in 0..MaxChunks
  BY AtWork DEF SyncOK, ReadChunk, Working, Chunking, Size, Text
<1>2. CASE sync' = NextChunk(sync)
  BY <1>1, <1>2, NextChunkOK DEF Chunking
<1>3. CASE sync' = [sync EXCEPT !.pc = "write", !.row = docs[Chunk]]
  <2> DEFINE row == docs[Chunk]
             e == [sync EXCEPT !.pc = "write", !.row = row]
  <2>1. sync.next \in 0..MaxChunks
    BY <1>1, SpansOK
  <2>2. Chunk \in Ids
    BY <1>1, <2>1, IdOf DEF Chunk
  <2>3. row \in Row \cup {NONE}
    BY <2>2 DEF RowsOK
  <2> HIDE DEF row
  <2>4. /\ e \in Locals /\ e.pc = "write" /\ e.row = row /\ e.next = sync.next /\ Same(sync, e)
    BY <1>1, <2>3 DEF Locals, Same, SyncStates
  <2> HIDE DEF e
  <2>5. SyncOK(e)
    BY <1>1, <2>4 DEF SyncOK, Same, Working, Chunking, Size, Text
  <2> QED
    BY <1>3, <2>2, <2>4, <2>5 DEF row, e
<1> QED
  BY <1>2, <1>3 DEF ReadChunk

LEMMA WriteLocal ==
    ASSUME SyncOK(sync), WriteChunk \/ EmbedChunk
    PROVE  /\ SyncOK(sync') /\ sync'.pc \in {"embed", "chunk", "probe", "whole"} /\ Same(sync, sync')
<1>1. sync \in Locals /\ sync.pc \in {"writing", "embed"} /\ sync.path # NONE
  BY DEF SyncOK, WriteChunk, EmbedChunk, Working
<1>2. CASE sync' = NextChunk(sync)
  BY <1>1, <1>2, NextChunkOK DEF Chunking
<1>3. CASE sync' = [sync EXCEPT !.pc = "embed"]
  <2> DEFINE e == [sync EXCEPT !.pc = "embed"]
  <2>1. /\ e \in Locals /\ e.pc = "embed" /\ e.row = sync.row /\ e.next = sync.next /\ Same(sync, e)
    BY <1>1 DEF Locals, Same, SyncStates
  <2> HIDE DEF e
  <2>2. SyncOK(e)
    BY <1>1, <2>1 DEF SyncOK, Same, Working, Chunking
  <2> QED
    BY <1>3, <2>1, <2>2 DEF e
<1> QED
  BY <1>2, <1>3 DEF WriteChunk, EmbedChunk

LEMMA ProbeLocal ==
    ASSUME SyncOK(sync), ProbeSurplus
    PROVE  SyncOK(sync') /\ sync'.pc = "surplus" /\ Same(sync, sync')
<1> DEFINE dels == SurplusBeforeEnd(sync.path, Size)
           e == [sync EXCEPT !.pc = "surplus", !.dels = dels]
<1>1. sync \in Locals /\ sync.path # NONE /\ sync.path \in Paths /\ Size \in 0..MaxChunks
  BY AtWork DEF SyncOK, ProbeSurplus, Working, Size, Text
<1>2. sync.old \in 0..MaxChunks
  BY SyncTypes
<1>3. /\ dels \in Seq(Ids \cup {NONE})
      /\ \A k \in DOMAIN dels : dels[k] \in Ids /\ dels[k][1] = sync.path
  BY <1>1, <1>2, SurplusOK
<1>4. sync' = e
  BY DEF ProbeSurplus
<1> HIDE DEF dels
<1>5. e \in Locals /\ e.pc = "surplus" /\ e.dels = dels /\ Same(sync, e)
  BY <1>1, <1>3 DEF Locals, Same, SyncStates
<1> HIDE DEF e
<1>6. SyncOK(e)
  BY <1>1, <1>3, <1>5 DEF SyncOK, Same, Working, Chunking, Own
<1> QED
  BY <1>4, <1>5, <1>6

\* The list of deletions, moved on or left.
LEMMA DelsLocal ==
    ASSUME NEW s, SyncOK(s), s.pc \in {"surplus", "vector", "tree"}, s.dels # <<>>
    PROVE  LET e == [s EXCEPT !.dels = Tail(@)]
           IN  /\ e \in Locals /\ e.pc = s.pc /\ Same(s, e) /\ e.row = s.row /\ e.dels = Tail(s.dels)
               /\ Own(s) => Own(e)
               /\ Foreign(s) => Foreign(e)
<1> DEFINE e == [s EXCEPT !.dels = Tail(@)]
<1>1. s \in Locals /\ s.dels \in Seq(Ids \cup {NONE})
  BY SyncTypes
<1>2. /\ Tail(s.dels) \in Seq(Ids \cup {NONE})
      /\ \A k \in DOMAIN Tail(s.dels) : k + 1 \in DOMAIN s.dels /\ Tail(s.dels)[k] = s.dels[k + 1]
  BY <1>1, TailOf
<1>3. e \in Locals /\ e.pc = s.pc /\ Same(s, e) /\ e.row = s.row /\ e.dels = Tail(s.dels)
  BY <1>1, <1>2 DEF Locals, Same
<1> HIDE DEF e
<1>4. (Own(s) => Own(e)) /\ (Foreign(s) => Foreign(e))
  BY <1>2, <1>3 DEF Own, Foreign, Same
<1> QED
  BY <1>3, <1>4 DEF e

\* One document after another goes, and its vector after it.
LEMMA SurplusLocal ==
    ASSUME SyncOK(sync), DeleteSurplus
    PROVE  /\ SyncOK(sync') /\ Same(sync, sync')
           /\ sync'.pc \in {"surplus", "whole", "vector"} /\ ~Felling(sync')
<1>1. sync \in Locals /\ sync.pc = "surplus" /\ Own(sync) /\ sync.path # NONE
      /\ sync.dels \in Seq(Ids \cup {NONE})
  BY SyncTypes DEF SyncOK, DeleteSurplus, Working
<1>2. CASE sync.dels = <<>>
  <2> DEFINE e == [sync EXCEPT !.pc = "whole"]
  <2>1. e \in Locals /\ e.pc = "whole" /\ Same(sync, e)
    BY <1>1 DEF Locals, Same, SyncStates
  <2>2. sync' = e
    BY <1>2 DEF DeleteSurplus
  <2> HIDE DEF e
  <2>3. SyncOK(e)
    BY <1>1, <2>1 DEF SyncOK, Same, Working, Chunking
  <2> QED
    BY <2>1, <2>2, <2>3 DEF Felling
<1>3. CASE sync.dels # <<>> /\ KeptAsTombstone(Head(sync.dels))
  <2> DEFINE e == [sync EXCEPT !.dels = Tail(@)]
  <2>1. e \in Locals /\ e.pc = "surplus" /\ Same(sync, e) /\ e.row = sync.row /\ Own(e)
    BY <1>1, <1>3, DelsLocal
  <2>2. sync' = e
    BY <1>3 DEF DeleteSurplus
  <2> HIDE DEF e
  <2>3. SyncOK(e)
    BY <1>1, <2>1 DEF SyncOK, Same, Working, Chunking
  <2> QED
    BY <2>1, <2>2, <2>3 DEF Felling
<1>4. CASE sync.dels # <<>> /\ ~KeptAsTombstone(Head(sync.dels))
  <2> DEFINE e == [sync EXCEPT !.pc = "vector"]
  <2>1. e \in Locals /\ e.pc = "vector" /\ Same(sync, e) /\ e.dels = sync.dels /\ e.row = sync.row
    BY <1>1 DEF Locals, Same, SyncStates
  <2>2. sync' = e
    BY <1>4 DEF DeleteSurplus
  <2> HIDE DEF e
  <2>3. Own(e) /\ e.dels # <<>> /\ e.dels[1] \in Ids /\ e.dels[1][1] = e.path
    BY <1>1, <1>4, <2>1, TailOf DEF Own, Same
  <2>4. SyncOK(e)
    BY <1>1, <2>1, <2>3 DEF SyncOK, Same, Working, Chunking
  <2> QED
    BY <2>1, <2>2, <2>3, <2>4 DEF Felling
<1> QED
  BY <1>2, <1>3, <1>4

LEMMA VectorLocal ==
    ASSUME SyncOK(sync), DeleteVector
    PROVE  /\ SyncOK(sync') /\ Same(sync, sync') /\ sync'.dels = Tail(sync.dels)
           /\ \/ sync'.pc = "surplus"
              \/ sync'.pc = "tree" /\ Felling(sync)
<1>1. /\ sync \in Locals /\ sync.pc = "vector" /\ sync.dels # <<>> /\ sync.dels[1] \in Ids
      /\ IF sync.dels[1][1] = sync.path THEN Own(sync) ELSE Foreign(sync)
      /\ sync.dels \in Seq(Ids \cup {NONE}) /\ Head(sync.dels) = sync.dels[1]
  BY SyncTypes, TailOf DEF SyncOK, DeleteVector
<1> DEFINE d == [sync EXCEPT !.dels = Tail(@)]
           pc == IF sync.dels[1][1] = sync.path THEN "surplus" ELSE "tree"
<1>2. /\ d \in Locals /\ Same(sync, d) /\ d.row = sync.row /\ d.dels = Tail(sync.dels)
      /\ (Own(sync) => Own(d)) /\ (Foreign(sync) => Foreign(d))
  BY <1>1, DelsLocal
<1>3. sync' = [d EXCEPT !.pc = pc]
  BY <1>1 DEF DeleteVector, Locals
<1>4. pc \in {"surplus", "tree"} /\ pc \in SyncStates
  BY DEF SyncStates
<1>5. sync.dels[1][1] = sync.path => sync.path # NONE
  BY <1>1, PathOf
<1> HIDE DEF d
<1> DEFINE e == [d EXCEPT !.pc = pc]
<1>6. e \in Locals /\ e.pc = pc /\ Same(sync, e) /\ e.row = sync.row /\ e.dels = d.dels
  BY <1>2, <1>4 DEF Locals, Same
<1> HIDE DEF e
<1>7. CASE sync.dels[1][1] = sync.path
  <2>1. Own(e) /\ e.pc = "surplus"
    BY <1>1, <1>2, <1>6, <1>7 DEF Own, Same
  <2>2. SyncOK(e)
    BY <1>1, <1>5, <1>6, <1>7, <2>1 DEF SyncOK, Same, Working, Chunking
  <2> QED
    BY <1>2, <1>3, <1>6, <2>1, <2>2 DEF e
<1>8. CASE sync.dels[1][1] # sync.path
  <2>1. Foreign(e) /\ e.pc = "tree"
    BY <1>1, <1>2, <1>6, <1>8 DEF Foreign, Same
  <2>2. SyncOK(e)
    BY <1>1, <1>6, <1>8, <2>1 DEF SyncOK, Same, Working, Chunking
  <2> QED
    BY <1>1, <1>2, <1>3, <1>6, <1>8, <2>1, <2>2 DEF e, Felling
<1> QED
  BY <1>7, <1>8

LEMMA WholeLocal ==
    ASSUME SyncOK(sync), WholeVector
    PROVE  /\ SyncOK(sync') /\ sync'.cands = sync.cands
           /\ \/ sync'.pc = "plan" /\ sync'.from = NONE
              \/ sync'.pc = "retire" /\ sync'.from = sync.from
<1>1. sync \in Locals /\ sync.pc = "whole" /\ sync.path # NONE
  BY DEF SyncOK, WholeVector, Working
<1>2. CASE sync.from = NONE
  BY <1>2, EndsRecord DEF WholeVector
<1>3. CASE sync.from # NONE
  <2> DEFINE e == [sync EXCEPT !.pc = "retire"]
  <2>1. sync' = e
    BY <1>3 DEF WholeVector
  <2>2. e \in Locals /\ e.pc = "retire" /\ e.row = sync.row /\ Same(sync, e)
    BY <1>1 DEF Locals, Same, SyncStates
  <2> HIDE DEF e
  <2>3. SyncOK(e)
    BY <1>1, <1>3, <2>2 DEF SyncOK, Same, Working, Chunking
  <2> QED
    BY <2>1, <2>2, <2>3 DEF Same
<1> QED
  BY <1>2, <1>3

LEMMA RetireLocal ==
    ASSUME SyncOK(sync), RowsOK, Retire
    PROVE  /\ SyncOK(sync') /\ sync'.pc = "tree" /\ Same(sync, sync')
           /\ sync.from \in Paths /\ sync'.dels = Tree(sync.from, Count(sync.from))
<1> DEFINE dels == Tree(sync.from, Count(sync.from))
           e == [sync EXCEPT !.pc = "tree", !.dels = dels]
<1>1. sync \in Locals /\ sync.pc = "retire" /\ sync.path # NONE /\ sync.from \in Paths
      /\ sync.from # sync.path
  BY AtWork, SyncTypes DEF SyncOK, Retire, Working
<1>2. dels \in Seq(Ids \cup {NONE})
      /\ \A k \in DOMAIN dels : dels[k] # NONE => dels[k][1] = sync.from
  BY <1>1, CountOK, TreeOK, WholeOK
<1>3. sync' = e
  BY DEF Retire
<1> HIDE DEF dels
<1>4. e \in Locals /\ e.pc = "tree" /\ e.dels = dels /\ e.row = sync.row /\ Same(sync, e)
  BY <1>1, <1>2 DEF Locals, Same, SyncStates
<1> HIDE DEF e
<1>5. Foreign(e)
  BY <1>1, <1>2, <1>4 DEF Foreign, Same
<1>6. SyncOK(e)
  BY <1>1, <1>4, <1>5 DEF SyncOK, Same, Working, Chunking
<1> QED
  BY <1>1, <1>3, <1>4, <1>6 DEF dels

LEMMA TreeLocal ==
    ASSUME SyncOK(sync), DeleteTree
    PROVE  /\ SyncOK(sync') /\ sync'.cands = sync.cands
           /\ \/ sync'.pc \in {"prune", "plan"} /\ sync'.from = NONE /\ docs' = docs
              \/ sync'.pc = "tree" /\ sync'.from = sync.from /\ sync'.dels = Tail(sync.dels)
                   /\ sync.dels # <<>> /\ docs' = docs
              \/ /\ sync'.pc = "vector" /\ sync'.from = sync.from /\ sync'.dels = sync.dels
                 /\ sync.dels # <<>> /\ sync.dels[1] \in Ids
                 /\ docs' = [docs EXCEPT ![sync.dels[1]] = NONE]
<1>1. sync \in Locals /\ sync.pc = "tree" /\ Foreign(sync) /\ sync.dels \in Seq(Ids \cup {NONE})
  BY SyncTypes DEF SyncOK, DeleteTree
<1>2. CASE sync.dels = <<>> /\ sync.path # NONE
  BY <1>2, EndsRecord DEF DeleteTree
<1>3. CASE sync.dels = <<>> /\ sync.path = NONE
  <2> DEFINE e == [sync EXCEPT !.pc = "prune"]
  <2>1. sync' = e /\ docs' = docs
    BY <1>3 DEF DeleteTree
  <2>2. e \in Locals /\ e.pc = "prune" /\ e.row = sync.row /\ Same(sync, e)
    BY <1>1 DEF Locals, Same, SyncStates
  <2> HIDE DEF e
  <2>3. SyncOK(e)
    BY <1>1, <1>3, <2>2 DEF SyncOK, Same, Working, Chunking
  <2>4. sync.from = NONE
    BY <1>3 DEF SyncOK
  <2> QED
    BY <2>1, <2>2, <2>3, <2>4 DEF Same
<1>4. CASE sync.dels # <<>> /\ Head(sync.dels) = NONE
  <2> DEFINE e == [sync EXCEPT !.dels = Tail(@)]
  <2>1. e \in Locals /\ e.pc = "tree" /\ Same(sync, e) /\ e.row = sync.row /\ Foreign(e)
        /\ e.dels = Tail(sync.dels)
    BY <1>1, <1>4, DelsLocal
  <2>2. sync' = e /\ docs' = docs
    BY <1>4 DEF DeleteTree
  <2> HIDE DEF e
  <2>3. SyncOK(e)
    BY <1>1, <2>1 DEF SyncOK, Same, Working, Chunking
  <2> QED
    BY <1>4, <2>1, <2>2, <2>3 DEF Same
<1>5. CASE sync.dels # <<>> /\ Head(sync.dels) # NONE
  <2> DEFINE e == [sync EXCEPT !.pc = "vector"]
  <2>1. /\ sync' = e /\ docs' = [docs EXCEPT ![Head(sync.dels)] = NONE]
    BY <1>5 DEF DeleteTree
  <2>2. e \in Locals /\ e.pc = "vector" /\ Same(sync, e) /\ e.dels = sync.dels /\ e.row = sync.row
    BY <1>1 DEF Locals, Same, SyncStates
  <2> HIDE DEF e
  <2>3. /\ Head(sync.dels) = sync.dels[1] /\ sync.dels[1] \in Ids /\ 1 \in DOMAIN sync.dels
    BY <1>1, <1>5, TailOf
  <2>4. Foreign(e) /\ e.dels[1][1] # e.path
    BY <1>1, <1>5, <2>2, <2>3 DEF Foreign, Same
  <2>5. SyncOK(e)
    BY <1>1, <1>5, <2>2, <2>3, <2>4 DEF SyncOK, Same, Working, Chunking
  <2> QED
    BY <1>5, <2>1, <2>2, <2>3, <2>5 DEF Same
<1> QED
  BY <1>2, <1>3, <1>4, <1>5

LEMMA ListLocal ==
    ASSUME SyncOK(sync), RowsOK, ListCandidates
    PROVE  /\ SyncOK(sync') /\ sync'.pc = "prune" /\ sync'.from = NONE
           /\ \A p \in DOMAIN sync'.cands : Tomb(Whole(p)) => sync'.cands[p].tomb
<1> DEFINE gone == {p \in Paths \ (DOMAIN sync.records \cup sync.moved) : docs[Whole(p)] # NONE}
           cands == [p \in gone |-> docs[Whole(p)]]
           e == [sync EXCEPT !.pc = "prune", !.cands = cands]
<1>1. sync \in Locals /\ sync.pc = "plan" /\ sync.path = NONE /\ sync.from = NONE
  BY DEF SyncOK, ListCandidates, Working, SyncStates
<1>2. \A p \in gone : docs[Whole(p)] \in Row
  BY WholeOK DEF RowsOK
<1>3. cands \in Partial(Row) /\ DOMAIN cands = gone
  <2>1. cands \in [gone -> Row] /\ gone \in SUBSET Paths
    BY <1>2
  <2> HIDE DEF gone, cands
  <2> QED
    BY <2>1, PartialOf
<1>4. \A p \in gone : Tomb(Whole(p)) => cands[p].tomb
  BY DEF Tomb
<1>5. sync' = e
  BY DEF ListCandidates
<1> HIDE DEF cands, gone
<1>6. /\ e \in Locals /\ e.pc = "prune" /\ e.cands = cands /\ e.row = sync.row
      /\ e.path = sync.path /\ e.from = sync.from /\ e.records = sync.records /\ e.todo = sync.todo
  BY <1>1, <1>3 DEF Locals, SyncStates
<1> HIDE DEF e
<1>7. SyncOK(e)
  BY <1>1, <1>6 DEF SyncOK, Working, Chunking
<1> QED
  BY <1>1, <1>3, <1>4, <1>5, <1>6, <1>7

LEMMA PruneLocal ==
    ASSUME SyncOK(sync), NEW p \in Paths, Prune(p)
    PROVE  /\ SyncOK(sync') /\ sync'.from = NONE /\ sync'.path = NONE
           /\ \A q \in DOMAIN sync'.cands : q \in DOMAIN sync.cands /\ sync'.cands[q] = sync.cands[q]
           /\ \/ sync'.pc = "prune"
              \/ /\ sync'.pc = "tree" /\ p \in DOMAIN sync.cands /\ ~sync.cands[p].tomb
                 /\ sync.cands[p].count \in 0..MaxChunks
                 /\ sync'.dels = Tree(p, sync.cands[p].count)
<1> DEFINE cands == Without(sync.cands, p)
<1>1. /\ sync \in Locals /\ sync.pc = "prune" /\ sync.path = NONE /\ sync.from = NONE
      /\ sync.cands \in Partial(Row) /\ p \in DOMAIN sync.cands
  BY SyncTypes DEF SyncOK, Prune, Working, SyncStates
<1>2. DOMAIN sync.cands \subseteq Paths /\ \A q \in DOMAIN sync.cands : sync.cands[q] \in Row
  BY <1>1, PartialIs
<1>3. /\ cands \in Partial(Row)
      /\ \A q \in DOMAIN cands : q \in DOMAIN sync.cands /\ cands[q] = sync.cands[q]
  <2> DEFINE S == DOMAIN sync.cands \ {p}
  <2>1. cands = [q \in S |-> sync.cands[q]]
    BY DEF Without
  <2>2. cands \in [S -> Row] /\ S \in SUBSET Paths
    BY <1>2, <2>1
  <2>3. cands \in Partial(Row) /\ DOMAIN cands = S
    <3> HIDE DEF S, cands
    <3> QED
      BY <2>2, PartialOf
  <2> QED
    BY <2>1, <2>3
<1>4. sync.cands[p].count \in 0..MaxChunks
  BY <1>1, <1>2 DEF Row
<1>5. CASE Vanished(p) /\ ~sync.cands[p].tomb
  <2> DEFINE dels == Tree(p, sync.cands[p].count)
             e == [sync EXCEPT !.pc = "tree", !.cands = cands, !.dels = dels]
  <2>1. sync' = e
    BY <1>5 DEF Prune
  <2>2. dels \in Seq(Ids \cup {NONE}) /\ \A k \in DOMAIN dels : dels[k] # NONE => dels[k][1] = p
    BY <1>4, TreeOK, WholeOK
  <2> HIDE DEF dels, cands
  <2>3. /\ e \in Locals /\ e.pc = "tree" /\ e.cands = cands /\ e.dels = dels /\ e.row = sync.row
        /\ e.path = sync.path /\ e.from = sync.from /\ e.records = sync.records /\ e.todo = sync.todo
    BY <1>1, <1>3, <2>2 DEF Locals, SyncStates
  <2> HIDE DEF e
  <2>4. Foreign(e)
    BY <1>1, <2>2, <2>3, CorpusAssumption DEF Foreign
  <2>5. SyncOK(e)
    BY <1>1, <2>3, <2>4 DEF SyncOK, Working, Chunking
  <2> QED
    BY <1>1, <1>3, <1>4, <1>5, <2>1, <2>3, <2>5 DEF dels
<1>6. CASE ~(Vanished(p) /\ ~sync.cands[p].tomb)
  <2> DEFINE e == [sync EXCEPT !.cands = cands]
  <2>1. sync' = e
    BY <1>6 DEF Prune
  <2> HIDE DEF cands
  <2>2. /\ e \in Locals /\ e.pc = "prune" /\ e.cands = cands /\ e.row = sync.row
        /\ e.path = sync.path /\ e.from = sync.from /\ e.records = sync.records /\ e.todo = sync.todo
    BY <1>1, <1>3 DEF Locals
  <2> HIDE DEF e
  <2>3. SyncOK(e)
    BY <1>1, <2>2 DEF SyncOK, Working, Chunking
  <2> QED
    BY <1>1, <1>3, <2>1, <2>2, <2>3
<1> QED
  BY <1>5, <1>6

LEMMA EndLocal ==
    ASSUME SyncOK(sync), EndOfRun
    PROVE  SyncOK(sync') /\ sync'.pc = "done" /\ sync'.from = NONE
<1> DEFINE e == [sync EXCEPT !.pc = "done", !.moved = {}]
<1>1. /\ sync \in Locals /\ sync.pc \in {"plan", "prune"} /\ sync.path = NONE /\ sync.from = NONE
  BY DEF SyncOK, EndOfRun, Working, SyncStates
<1>2. sync' = e
  BY DEF EndOfRun
<1>3. /\ e \in Locals /\ e.pc = "done" /\ e.row = sync.row
      /\ e.path = sync.path /\ e.from = sync.from /\ e.records = sync.records /\ e.todo = sync.todo
  BY <1>1 DEF Locals, SyncStates
<1> HIDE DEF e
<1>4. SyncOK(e)
  BY <1>1, <1>3 DEF SyncOK, Working, Chunking
<1> QED
  BY <1>1, <1>2, <1>3, <1>4

LEMMA RaiseLocal ==
    ASSUME SyncOK(sync), Raise
    PROVE  /\ SyncOK(sync') /\ sync'.pc \in {"idle", "plan"} /\ sync'.from = NONE
           /\ sync'.pc = "plan" => sync'.cands = sync.cands
<1>1. CASE sync' = Idle
  BY <1>1, IdleSync DEF Idle
<1>2. CASE sync.path # NONE /\ sync' = [EndOfRecord(sync) EXCEPT !.failed = @ \cup {sync.path}]
  BY <1>2, Fails
<1> QED
  BY <1>1, <1>2 DEF Raise

-----------------------------------------------------------------------------
(* Rows *)

LEMMA RowPut ==
    ASSUME RowsOK, NEW d \in Ids, NEW row \in Row, row.tomb => row.text = BLANK, PutDocument(d, row)
    PROVE  RowsOK' /\ docs'[d] = row /\ \A e \in Ids \ {d} : docs'[e] = docs[e]
<1>1. docs' = [docs EXCEPT ![d] = row] /\ (vecs' = Mirrored(d, row) \/ vecs' = vecs)
  BY DEF PutDocument
<1>2. row.tag \in Tags /\ vecs[d] \in VectorRow \cup {NONE}
  BY DEF Row, RowsOK
<1>3. vecs[d] # NONE => [vecs[d] EXCEPT !.tag = row.tag] \in VectorRow
  BY <1>2 DEF VectorRow
<1>4. [vecs EXCEPT ![d].tag = row.tag] = [vecs EXCEPT ![d] = [vecs[d] EXCEPT !.tag = row.tag]]
  BY DEF RowsOK
<1>5. vecs' \in [Ids -> VectorRow \cup {NONE}]
  BY <1>1, <1>2, <1>3, <1>4 DEF RowsOK, Mirrored
<1>6. docs' \in [Ids -> Row \cup {NONE}] /\ docs'[d] = row /\ \A e \in Ids \ {d} : docs'[e] = docs[e]
  BY <1>1 DEF RowsOK
<1> QED
  BY <1>5, <1>6 DEF RowsOK, Tomb

LEMMA RowGone ==
    ASSUME RowsOK, NEW d \in Ids, docs' = [docs EXCEPT ![d] = NONE], vecs' = vecs
    PROVE  RowsOK' /\ \A e \in Ids : Tomb(e)' => Tomb(e)
BY DEF RowsOK, Tomb

LEMMA VectorPut ==
    ASSUME RowsOK, NEW d \in Ids, NEW text \in Texts \cup Pieces, NEW tag \in Tags, docs' = docs,
           Embed(d, text, tag) \/ DropVector(d)
    PROVE  RowsOK'
<1>1. [text |-> text, tag |-> tag] \in VectorRow
  BY DEF VectorRow
<1>2. vecs' \in [Ids -> VectorRow \cup {NONE}]
  BY <1>1 DEF RowsOK, Embed, DropVector
<1> QED
  BY <1>2 DEF RowsOK, Tomb

LEMMA SameRows == ASSUME RowsOK, UNCHANGED <<docs, vecs>> PROVE RowsOK'
BY DEF RowsOK, Tomb

\* The row a sync writes, and where.
LEMMA TargetIs ==
    ASSUME SyncOK(sync), sync.pc \in {"put", "putting", "write", "writing", "embed", "chunk"}
    PROVE  /\ Target \in Ids /\ Size \in 0..MaxChunks /\ Text \in Texts
           /\ sync.pc \in Chunking => Target = Chunk /\ Piece \in Pieces /\ Chunk[2] # 0
           /\ sync.pc \in {"put", "putting"} => Target = Whole(sync.path)
<1>1. /\ sync.path \in Paths /\ sync.path # NONE /\ Size \in 0..MaxChunks /\ Text \in Texts
      /\ \A i \in 1..Size : Spans[Text][i] \in Pieces
      /\ sync.pc \in Chunking => sync.next \in 1..Size
  BY AtWork DEF SyncOK, Working, Chunking, Size, Text
<1>2. sync.pc \in Chunking => sync.next \in 0..MaxChunks
  BY <1>1, SpansOK
<1>3. sync.pc \in Chunking => Chunk \in Ids /\ Piece \in Pieces /\ Chunk[2] # 0
  <2>1. SUFFICES ASSUME sync.pc \in Chunking PROVE Chunk \in Ids /\ Piece \in Pieces /\ Chunk[2] # 0
    OBVIOUS
  <2>2. Chunk \in Ids
    BY <1>1, <1>2, <2>1, IdOf DEF Chunk
  <2>3. Piece \in Pieces
    BY <1>1, <2>1 DEF Piece
  <2>4. Chunk[2] = sync.next
    BY DEF Chunk
  <2> QED
    BY <1>1, <2>1, <2>2, <2>3, <2>4, SpansOK
<1>4. Whole(sync.path) \in Ids
  BY <1>1, WholeOK
<1> QED
  BY <1>1, <1>3, <1>4 DEF Target, Chunking

\* A put of the sync: over its target, a row with text.
LEMMA SyncPuts ==
    ASSUME SyncOK(sync), RowsOK, PutParent \/ WriteChunk
    PROVE  /\ RowsOK' /\ Target \in Ids /\ \A e \in Ids \ {Target} : docs'[e] = docs[e]
           /\ docs'[Target] \in Row /\ ~docs'[Target].tomb
           /\ PutParent => docs'[Target].tag = ParentTag /\ Target = Whole(sync.path)
           /\ WriteChunk => /\ docs'[Target].tag = ChunkTag /\ docs'[Target].text = Piece
                            /\ Target = Chunk /\ Chunk[2] # 0
<1>1. CASE PutParent
  <2> DEFINE row == [text |-> Text, count |-> Size, tag |-> ParentTag, tomb |-> FALSE]
  <2>1. sync.pc = "putting" /\ PutDocument(Whole(sync.path), row)
    BY <1>1 DEF PutParent
  <2>2. Target \in Ids /\ Target = Whole(sync.path) /\ Text \in Texts /\ Size \in 0..MaxChunks
    BY <2>1, TargetIs
  <2>3. row \in Row /\ row.tomb = FALSE /\ row.tag = ParentTag
    BY <2>2, ParentTagOK DEF Row
  <2> HIDE DEF row
  <2>4. ~WriteChunk
    BY <2>1 DEF WriteChunk
  <2> QED
    BY <1>1, <2>1, <2>2, <2>3, <2>4, RowPut
<1>2. CASE WriteChunk
  <2> DEFINE row == [text |-> Piece, count |-> Size, tag |-> ChunkTag, tomb |-> FALSE]
  <2>1. sync.pc = "writing" /\ PutDocument(Chunk, row)
    BY <1>2 DEF WriteChunk
  <2>2. Target \in Ids /\ Target = Chunk /\ Piece \in Pieces /\ Size \in 0..MaxChunks /\ Chunk[2] # 0
    BY <2>1, TargetIs DEF Chunking
  <2>3. row \in Row /\ row.tomb = FALSE /\ row.tag = ChunkTag /\ row.text = Piece
    BY <2>2, ChunkTagOK DEF Row
  <2> HIDE DEF row
  <2>4. ~PutParent
    BY <2>1 DEF PutParent
  <2> QED
    BY <1>2, <2>1, <2>2, <2>3, <2>4, RowPut
<1> QED
  BY <1>1, <1>2
-----------------------------------------------------------------------------
(* The steps of a sync *)

\* A step that leaves no put under way keeps what the sync knows.
LEMMA KnowsStill ==
    ASSUME NEW w, NEW s, NEW e, NEW ds, NEW dt, SyncOK(e),
           \A d \in Ids : Buried(dt, d) => Buried(ds, d),
           e.pc \notin {"put", "putting", "write", "writing"},
           KnowsFrom(w, e, ds), KnowsDels(w, e, ds), KnowsCands(w, e, ds)
    PROVE  Knows(w, e, dt)
<1>1. /\ e.from \in Paths \cup {NONE} /\ e.dels \in Seq(Ids \cup {NONE}) /\ e.cands \in Partial(Row)
  BY SyncTypes
<1>2. DOMAIN e.cands \subseteq Paths
  BY <1>1, PartialIs
<1>3. \A p \in Paths : <<p, 0>> \in Ids
  BY WholeOK DEF Whole
<1>4. KnowsPut(w, e, dt) /\ KnowsRow(w, e, dt)
  BY DEF KnowsPut, KnowsRow
<1>5. KnowsFrom(w, e, dt)
  BY <1>1, <1>3 DEF KnowsFrom
<1>6. \A k \in DOMAIN e.dels : e.dels[k] # NONE => e.dels[k] \in Ids
  BY <1>1
<1>7. KnowsDels(w, e, dt)
  BY <1>6 DEF KnowsDels
<1>8. KnowsCands(w, e, dt)
  BY <1>2, <1>3 DEF KnowsCands
<1> QED
  BY <1>4, <1>5, <1>7, <1>8 DEF Knows

LEMMA TombIs == /\ \A d : Tomb(d) <=> Buried(docs, d)
                /\ \A d : Tomb(d)' <=> Buried(docs', d)
                /\ \A p : Whole(p) = <<p, 0>>
BY DEF Tomb, Buried, Whole

\* What is to be put: the target.
LEMMA AimIs ==
    ASSUME NEW s, s.pc \in {"put", "putting", "write", "writing"}, s = sync
    PROVE  Aim(s) = Target
BY DEF Aim, Target, Chunk, Whole

LEMMA KnowsPlan ==
    ASSUME Inv, NEW p \in Paths, Plan(p)
    PROVE  Knows(Waits, sync', docs)
<1>1. SyncOK(sync) /\ RowsOK /\ Knows(Waits, sync, docs)
  BY DEF Inv, SeenOK
<1>2. /\ SyncOK(sync') /\ sync'.cands = sync.cands /\ sync.pc = "plan"
      /\ \/ sync'.pc = "plan" /\ sync'.from = NONE
         \/ sync'.pc = "stored" /\ sync'.from = NONE
         \/ /\ sync'.pc = "put" /\ sync'.path = p
            /\ sync'.row = NONE /\ docs[Whole(p)] = NONE
            /\ sync'.from # NONE => /\ docs[Whole(sync'.from)] # NONE
                                    /\ docs[Whole(sync'.from)].text \in Texts
  BY <1>1, PlanLocal DEF Plan
<1>3. KnowsFrom(Waits, sync', docs)
  <2>1. SUFFICES ASSUME sync'.from # NONE PROVE ~Buried(docs, <<sync'.from, 0>>)
    BY DEF KnowsFrom
  <2>2. docs[Whole(sync'.from)].text \in Texts
    BY <1>2, <2>1
  <2>3. sync'.from \in Paths
    BY <1>2, <2>1, SyncTypes
  <2>4. ~Tomb(Whole(sync'.from))
    BY <1>1, <2>2, <2>3, WholeOK, CorpusAssumption DEF RowsOK
  <2> QED
    BY <2>4, TombIs
<1>4. KnowsCands(Waits, sync', docs)
  BY <1>1, <1>2 DEF Knows, KnowsCands
<1>5. KnowsDels(Waits, sync', docs)
  BY <1>2 DEF KnowsDels, Felling
<1>6. KnowsPut(Waits, sync', docs)
  BY <1>2 DEF KnowsPut
<1>7. KnowsRow(Waits, sync', docs)
  BY <1>2 DEF KnowsRow, Aim, Whole
<1> QED
  BY <1>3, <1>4, <1>5, <1>6, <1>7 DEF Knows

LEMMA KnowsStored ==
    ASSUME Inv, ReadStored
    PROVE  Knows(Waits, sync', docs)
<1>1. SyncOK(sync) /\ RowsOK /\ Knows(Waits, sync, docs) /\ sync.pc = "stored"
  BY DEF Inv, SeenOK, ReadStored
<1>2. sync'.pc = "put" /\ sync'.row = docs[Whole(sync'.path)] /\ Same(sync, sync')
  BY <1>1, StoredLocal
<1>3. KnowsFrom(Waits, sync', docs) /\ KnowsCands(Waits, sync', docs)
  BY <1>1, <1>2 DEF Knows, KnowsFrom, KnowsCands, Same
<1>4. KnowsDels(Waits, sync', docs) /\ KnowsPut(Waits, sync', docs)
  BY <1>2 DEF KnowsDels, Felling, KnowsPut
<1>5. KnowsRow(Waits, sync', docs)
  BY <1>2 DEF KnowsRow, Aim, Whole
<1> QED
  BY <1>3, <1>4, <1>5 DEF Knows

LEMMA KnowsGuard ==
    ASSUME Inv, Guard
    PROVE  Knows(Waits, sync', docs)
<1>1. SyncOK(sync) /\ RowsOK /\ Knows(Waits, sync, docs) /\ sync.pc \in {"put", "write"} /\ ~Tomb(Target)
  BY DEF Inv, SeenOK, Guard, Refused
<1>2. /\ Same(sync, sync') /\ sync'.row = sync.row /\ sync'.next = sync.next
      /\ \/ sync.pc = "put" /\ sync'.pc = "putting"
         \/ sync.pc = "write" /\ sync'.pc = "writing"
  BY <1>1, GuardLocal
<1>3. Aim(sync') = Aim(sync) /\ Aim(sync) = Target
  <2>1. Aim(sync) = Target
    BY <1>1, AimIs
  <2> QED
    BY <1>2, <2>1 DEF Aim, Same
<1>4. KnowsFrom(Waits, sync', docs) /\ KnowsCands(Waits, sync', docs)
  BY <1>1, <1>2 DEF Knows, KnowsFrom, KnowsCands, Same
<1>5. KnowsDels(Waits, sync', docs)
  BY <1>2 DEF KnowsDels, Felling
<1>6. KnowsPut(Waits, sync', docs)
  BY <1>1, <1>3, TombIs DEF KnowsPut
<1>7. KnowsRow(Waits, sync', docs)
  BY <1>1, <1>2, <1>3 DEF Knows, KnowsRow
<1> QED
  BY <1>4, <1>5, <1>6, <1>7 DEF Knows

LEMMA KnowsRead ==
    ASSUME Inv, ReadChunk
    PROVE  Knows(Waits, sync', docs)
<1>1. SyncOK(sync) /\ RowsOK /\ Knows(Waits, sync, docs) /\ sync.pc = "chunk"
  BY DEF Inv, SeenOK, ReadChunk
<1>2. /\ SyncOK(sync') /\ Same(sync, sync')
      /\ \/ sync'.pc \in {"chunk", "probe", "whole"}
         \/ sync'.pc = "write" /\ sync'.next = sync.next /\ sync'.row = docs[Chunk] /\ Chunk \in Ids
  BY <1>1, ReadChunkLocal
<1>3. KnowsFrom(Waits, sync', docs) /\ KnowsCands(Waits, sync', docs)
  BY <1>1, <1>2 DEF Knows, KnowsFrom, KnowsCands, Same
<1>4. KnowsDels(Waits, sync', docs) /\ KnowsPut(Waits, sync', docs)
  BY <1>2 DEF KnowsDels, Felling, KnowsPut
<1>5. KnowsRow(Waits, sync', docs)
  BY <1>2 DEF KnowsRow, Aim, Chunk, Same
<1> QED
  BY <1>3, <1>4, <1>5 DEF Knows
\* What a step of a sync keeps.
Kept == RowsOK' /\ SyncOK(sync') /\ Knows(Waits, sync', docs')

\* Nothing is put, felled or followed: what is left is the candidates.
LEMMA KnowsLittle ==
    ASSUME NEW w, NEW e, NEW ds, e.from = NONE, ~Felling(e),
           e.pc \notin {"put", "putting", "write", "writing"},
           KnowsCands(w, e, ds)
    PROVE  Knows(w, e, ds)
BY DEF Knows, KnowsPut, KnowsFrom, KnowsDels, KnowsRow

LEMMA StartKeeps == ASSUME Inv, Start PROVE Kept
<1>1. RowsOK /\ RestOK /\ UNCHANGED <<docs, vecs>>
  BY DEF Inv, Start, stores
<1>2. SyncOK(sync') /\ sync'.pc = "plan" /\ sync'.path = NONE /\ DOMAIN sync'.cands = {}
  BY <1>1, StartLocal
<1>3. sync'.from = NONE
  BY <1>2 DEF SyncOK
<1>4. Knows(Waits, sync', docs')
  BY <1>2, <1>3, KnowsLittle DEF KnowsCands, Felling
<1> QED
  BY <1>1, <1>2, <1>4, SameRows DEF Kept

LEMMA PutKeeps == ASSUME Inv, PutParent \/ WriteChunk PROVE Kept
<1>1. SyncOK(sync) /\ RowsOK /\ Knows(Waits, sync, docs) /\ sync.pc \in {"putting", "writing"}
  BY DEF Inv, SeenOK, PutParent, WriteChunk
<1>2. /\ RowsOK' /\ \A e \in Ids \ {Target} : docs'[e] = docs[e]
      /\ docs'[Target] \in Row /\ ~docs'[Target].tomb
  BY <1>1, SyncPuts
<1>3. SyncOK(sync') /\ sync'.pc \in {"embed", "chunk", "probe", "whole"} /\ Same(sync, sync')
  BY <1>1, PutLocal, WriteLocal
<1>4. \A d \in Ids : Buried(docs', d) => Buried(docs, d)
  BY <1>2 DEF Buried
<1>5. KnowsFrom(Waits, sync', docs) /\ KnowsCands(Waits, sync', docs)
  BY <1>1, <1>3 DEF Knows, KnowsFrom, KnowsCands, Same
<1>6. KnowsDels(Waits, sync', docs)
  BY <1>3 DEF KnowsDels, Felling
<1>7. Knows(Waits, sync', docs')
  BY <1>3, <1>4, <1>5, <1>6, KnowsStill
<1> QED
  BY <1>2, <1>3, <1>7 DEF Kept

LEMMA EmbedKeeps == ASSUME Inv, EmbedChunk PROVE Kept
<1>1. SyncOK(sync) /\ RowsOK /\ Knows(Waits, sync, docs) /\ sync.pc = "embed" /\ docs' = docs
      /\ Embed(Chunk, Piece, ChunkTag)
  BY DEF Inv, SeenOK, EmbedChunk
<1>2. Chunk \in Ids /\ Piece \in Pieces /\ ChunkTag \in Tags
  BY <1>1, TargetIs, ChunkTagOK DEF Chunking
<1>3. RowsOK'
  BY <1>1, <1>2, VectorPut
<1>4. SyncOK(sync') /\ sync'.pc \in {"embed", "chunk", "probe", "whole"} /\ Same(sync, sync')
  BY <1>1, WriteLocal
<1>5. KnowsFrom(Waits, sync', docs) /\ KnowsCands(Waits, sync', docs)
  BY <1>1, <1>4 DEF Knows, KnowsFrom, KnowsCands, Same
<1>6. KnowsDels(Waits, sync', docs)
  BY <1>4 DEF KnowsDels, Felling
<1>7. Knows(Waits, sync', docs')
  BY <1>1, <1>4, <1>5, <1>6, KnowsStill
<1> QED
  BY <1>3, <1>4, <1>7 DEF Kept

LEMMA SurplusKeeps == ASSUME Inv, ProbeSurplus \/ DeleteSurplus PROVE Kept
<1>1. SyncOK(sync) /\ RowsOK /\ Knows(Waits, sync, docs) /\ vecs' = vecs
      /\ sync.pc \in {"probe", "surplus"}
  BY DEF Inv, SeenOK, ProbeSurplus, DeleteSurplus, stores
<1>2. SyncOK(sync') /\ Same(sync, sync') /\ ~Felling(sync') /\ sync'.pc \in {"surplus", "whole", "vector"}
  BY <1>1, ProbeLocal, SurplusLocal DEF Felling
<1>3. RowsOK' /\ \A d \in Ids : Buried(docs', d) => Buried(docs, d)
  <2>1. CASE docs' = docs
    BY <1>1, <2>1, SameRows
  <2>2. CASE sync.pc = "surplus" /\ sync.dels # <<>> /\ docs' = [docs EXCEPT ![Head(sync.dels)] = NONE]
    <3>1. sync.pc = "surplus"
      BY <2>2
    <3>2. sync.dels \in Seq(Ids \cup {NONE}) /\ Own(sync)
      BY <1>1, <3>1, SyncTypes DEF SyncOK
    <3>3. Head(sync.dels) \in Ids
      BY <2>2, <3>2, TailOf DEF Own
    <3> QED
      BY <1>1, <2>2, <3>3, RowGone, TombIs
  <2>3. \/ docs' = docs
        \/ sync.pc = "surplus" /\ sync.dels # <<>> /\ docs' = [docs EXCEPT ![Head(sync.dels)] = NONE]
    <3>1. CASE ProbeSurplus
      BY <3>1 DEF ProbeSurplus, stores
    <3>2. CASE DeleteSurplus
      BY <3>2 DEF DeleteSurplus
    <3> QED
      BY <3>1, <3>2
  <2> QED
    BY <2>1, <2>2, <2>3
<1>4. KnowsFrom(Waits, sync', docs) /\ KnowsCands(Waits, sync', docs)
  BY <1>1, <1>2 DEF Knows, KnowsFrom, KnowsCands, Same
<1>5. KnowsDels(Waits, sync', docs)
  BY <1>2 DEF KnowsDels
<1>6. Knows(Waits, sync', docs')
  BY <1>2, <1>3, <1>4, <1>5, KnowsStill
<1> QED
  BY <1>2, <1>3, <1>6 DEF Kept

\* The vector of a document just deleted, and of the document under way.
LEMMA VectorKeeps == ASSUME Inv, DeleteVector PROVE Kept
<1>1. SyncOK(sync) /\ RowsOK /\ Knows(Waits, sync, docs) /\ docs' = docs /\ sync.pc = "vector"
      /\ DropVector(Head(sync.dels))
  BY DEF Inv, SeenOK, DeleteVector
<1>2. /\ SyncOK(sync') /\ Same(sync, sync') /\ sync'.dels = Tail(sync.dels)
      /\ \/ sync'.pc = "surplus"
         \/ sync'.pc = "tree" /\ Felling(sync)
  BY <1>1, VectorLocal
<1>3. sync.dels \in Seq(Ids \cup {NONE}) /\ sync.dels # <<>> /\ sync.dels[1] \in Ids
  BY <1>1, SyncTypes DEF SyncOK
<1>4. Head(sync.dels) \in Ids
  BY <1>3
<1>5. RowsOK'
  <2>1. vecs' \in [Ids -> VectorRow \cup {NONE}]
    BY <1>1, <1>4 DEF DropVector, RowsOK
  <2> QED
    BY <1>1, <2>1 DEF RowsOK, Tomb
<1>6. KnowsFrom(Waits, sync', docs) /\ KnowsCands(Waits, sync', docs)
  BY <1>1, <1>2 DEF Knows, KnowsFrom, KnowsCands, Same
<1>7. KnowsDels(Waits, sync', docs)
  <2>1. SUFFICES ASSUME Waits, Felling(sync') PROVE \A k \in DOMAIN sync'.dels :
                   sync'.dels[k] # NONE => ~Buried(docs, sync'.dels[k])
    BY DEF KnowsDels
  <2>2. Felling(sync)
    BY <1>2, <2>1 DEF Felling
  <2>3. \A k \in DOMAIN sync.dels : sync.dels[k] # NONE => ~Buried(docs, sync.dels[k])
    BY <1>1, <2>1, <2>2 DEF Knows, KnowsDels
  <2>4. \A k \in DOMAIN Tail(sync.dels) : k + 1 \in DOMAIN sync.dels /\ Tail(sync.dels)[k] = sync.dels[k + 1]
    BY <1>3, TailOf
  <2> QED
    BY <1>2, <2>3, <2>4
<1>8. Knows(Waits, sync', docs')
  BY <1>1, <1>2, <1>6, <1>7, KnowsStill
<1> QED
  BY <1>2, <1>5, <1>8 DEF Kept

LEMMA WholeKeeps == ASSUME Inv, WholeVector PROVE Kept
<1>1. SyncOK(sync) /\ RowsOK /\ Knows(Waits, sync, docs) /\ docs' = docs /\ sync.pc = "whole"
  BY DEF Inv, SeenOK, WholeVector
<1>2. /\ SyncOK(sync') /\ sync'.cands = sync.cands
      /\ \/ sync'.pc = "plan" /\ sync'.from = NONE
         \/ sync'.pc = "retire" /\ sync'.from = sync.from
  BY <1>1, WholeLocal
<1>3. sync.path \in Paths /\ Text \in Texts /\ sync.tag \in Tags
  BY <1>1, AtWork, SyncTypes DEF SyncOK, Working, Text
<1>4. RowsOK'
  <2>1. Whole(sync.path) \in Ids
    BY <1>3, WholeOK
  <2>2. Embed(Whole(sync.path), Text, sync.tag) \/ DropVector(Whole(sync.path))
    BY DEF WholeVector
  <2> QED
    BY <1>1, <1>3, <2>1, <2>2, VectorPut
<1>5. KnowsFrom(Waits, sync', docs) /\ KnowsCands(Waits, sync', docs)
  BY <1>1, <1>2 DEF Knows, KnowsFrom, KnowsCands
<1>6. KnowsDels(Waits, sync', docs)
  BY <1>2 DEF KnowsDels, Felling
<1>7. Knows(Waits, sync', docs')
  BY <1>1, <1>2, <1>5, <1>6, KnowsStill
<1> QED
  BY <1>2, <1>4, <1>7 DEF Kept

\* A tree is listed without the tombstones in it.
LEMMA TreeUnburied ==
    ASSUME NEW p \in Paths, NEW count \in 0..MaxChunks, ~Tomb(Whole(p))
    PROVE  \A k \in DOMAIN Tree(p, count) :
              Tree(p, count)[k] # NONE => ~Buried(docs, Tree(p, count)[k])
BY TreeOK, TombIs

LEMMA RetireKeeps == ASSUME Inv, Retire PROVE Kept
<1>1. SyncOK(sync) /\ RowsOK /\ Knows(Waits, sync, docs) /\ UNCHANGED <<docs, vecs>> /\ sync.pc = "retire"
  BY DEF Inv, SeenOK, Retire, stores
<1>2. /\ SyncOK(sync') /\ sync'.pc = "tree" /\ Same(sync, sync')
      /\ sync.from \in Paths /\ sync'.dels = Tree(sync.from, Count(sync.from))
  BY <1>1, RetireLocal
<1>3. KnowsFrom(Waits, sync', docs) /\ KnowsCands(Waits, sync', docs)
  BY <1>1, <1>2 DEF Knows, KnowsFrom, KnowsCands, Same
<1>4. KnowsDels(Waits, sync', docs)
  <2>1. SUFFICES ASSUME Waits PROVE \A k \in DOMAIN sync'.dels :
                   sync'.dels[k] # NONE => ~Buried(docs, sync'.dels[k])
    BY DEF KnowsDels
  <2>2. ~Tomb(Whole(sync.from))
    BY <1>1, <1>2, <2>1, TombIs, CorpusAssumption DEF Knows, KnowsFrom
  <2>3. Count(sync.from) \in 0..MaxChunks
    BY <1>1, <1>2, CountOK
  <2> QED
    BY <1>2, <2>2, <2>3, TreeUnburied
<1>5. Knows(Waits, sync', docs')
  BY <1>1, <1>2, <1>3, <1>4, KnowsStill
<1> QED
  BY <1>1, <1>2, <1>5, SameRows DEF Kept

LEMMA TreeKeeps == ASSUME Inv, DeleteTree PROVE Kept
<1>1. SyncOK(sync) /\ RowsOK /\ Knows(Waits, sync, docs) /\ vecs' = vecs /\ sync.pc = "tree"
  BY DEF Inv, SeenOK, DeleteTree
<1>2. /\ SyncOK(sync') /\ sync'.cands = sync.cands
      /\ \/ sync'.pc \in {"prune", "plan"} /\ sync'.from = NONE /\ docs' = docs
         \/ sync'.pc = "tree" /\ sync'.from = sync.from /\ sync'.dels = Tail(sync.dels)
              /\ sync.dels # <<>> /\ docs' = docs
         \/ /\ sync'.pc = "vector" /\ sync'.from = sync.from /\ sync'.dels = sync.dels
            /\ sync.dels # <<>> /\ sync.dels[1] \in Ids
            /\ docs' = [docs EXCEPT ![sync.dels[1]] = NONE]
  BY <1>1, TreeLocal
<1>3. RowsOK' /\ \A d \in Ids : Buried(docs', d) => Buried(docs, d)
  <2>1. CASE docs' = docs
    BY <1>1, <2>1, SameRows
  <2>2. CASE docs' # docs
    BY <1>1, <1>2, <2>2, RowGone, TombIs
  <2> QED
    BY <2>1, <2>2
<1>4. KnowsFrom(Waits, sync', docs) /\ KnowsCands(Waits, sync', docs)
  BY <1>1, <1>2 DEF Knows, KnowsFrom, KnowsCands
<1>5. KnowsDels(Waits, sync', docs)
  <2>1. SUFFICES ASSUME Waits, Felling(sync') PROVE \A k \in DOMAIN sync'.dels :
                   sync'.dels[k] # NONE => ~Buried(docs, sync'.dels[k])
    BY DEF KnowsDels
  <2>2. \A k \in DOMAIN sync.dels : sync.dels[k] # NONE => ~Buried(docs, sync.dels[k])
    BY <1>1, <2>1 DEF Knows, KnowsDels, Felling
  <2>3. sync.dels \in Seq(Ids \cup {NONE})
    BY <1>1, SyncTypes
  <2>4. sync.dels # <<>> => \A k \in DOMAIN Tail(sync.dels) :
           k + 1 \in DOMAIN sync.dels /\ Tail(sync.dels)[k] = sync.dels[k + 1]
    BY <2>3, TailOf
  <2> QED
    BY <1>2, <2>1, <2>2, <2>4 DEF Felling
<1>6. Knows(Waits, sync', docs')
  <2>1. sync'.pc \notin {"put", "putting", "write", "writing"}
    BY <1>2
  <2> QED
    BY <1>2, <1>3, <1>4, <1>5, <2>1, KnowsStill
<1> QED
  BY <1>2, <1>3, <1>6 DEF Kept

LEMMA PruneKeeps == ASSUME Inv, ListCandidates \/ \E p \in Paths : Prune(p) PROVE Kept
<1>1. SyncOK(sync) /\ RowsOK /\ Knows(Waits, sync, docs) /\ UNCHANGED <<docs, vecs>>
  BY DEF Inv, SeenOK, ListCandidates, Prune, stores
<1>2. CASE ListCandidates
  <2>1. /\ SyncOK(sync') /\ sync'.pc = "prune" /\ sync'.from = NONE
        /\ \A p \in DOMAIN sync'.cands : Tomb(Whole(p)) => sync'.cands[p].tomb
    BY <1>1, <1>2, ListLocal
  <2>2. KnowsCands(Waits, sync', docs)
    BY <2>1, TombIs DEF KnowsCands
  <2>3. Knows(Waits, sync', docs)
    BY <2>1, <2>2, KnowsLittle DEF Felling
  <2> QED
    BY <1>1, <2>1, <2>3, SameRows DEF Kept
<1>3. ASSUME NEW p \in Paths, Prune(p) PROVE Kept
  <2>1. /\ SyncOK(sync') /\ sync'.from = NONE /\ sync'.path = NONE /\ sync.pc = "prune"
        /\ \A q \in DOMAIN sync'.cands : q \in DOMAIN sync.cands /\ sync'.cands[q] = sync.cands[q]
        /\ \/ sync'.pc = "prune"
           \/ /\ sync'.pc = "tree" /\ p \in DOMAIN sync.cands /\ ~sync.cands[p].tomb
              /\ sync.cands[p].count \in 0..MaxChunks
              /\ sync'.dels = Tree(p, sync.cands[p].count)
    BY <1>1, <1>3, PruneLocal DEF Prune
  <2>2. KnowsCands(Waits, sync', docs)
    BY <1>1, <2>1 DEF Knows, KnowsCands
  <2>3. KnowsDels(Waits, sync', docs)
    <3>1. SUFFICES ASSUME Waits, Felling(sync') PROVE \A k \in DOMAIN sync'.dels :
                     sync'.dels[k] # NONE => ~Buried(docs, sync'.dels[k])
      BY DEF KnowsDels
    <3>2. sync'.pc = "tree"
      BY <2>1, <3>1 DEF Felling
    <3>3. ~Tomb(Whole(p))
      BY <1>1, <2>1, <3>1, <3>2, TombIs DEF Knows, KnowsCands
    <3> QED
      BY <2>1, <3>2, <3>3, TreeUnburied
  <2>4. KnowsFrom(Waits, sync', docs) /\ sync'.pc \notin {"put", "putting", "write", "writing"}
    BY <2>1 DEF KnowsFrom
  <2>5. Knows(Waits, sync', docs')
    BY <1>1, <2>1, <2>2, <2>3, <2>4, KnowsStill
  <2> QED
    BY <1>1, <2>1, <2>5, SameRows DEF Kept
<1> QED
  BY <1>2, <1>3

LEMMA EndKeeps == ASSUME Inv, EndOfRun \/ Raise PROVE Kept
<1>1. SyncOK(sync) /\ RowsOK /\ Knows(Waits, sync, docs) /\ UNCHANGED <<docs, vecs>>
  BY DEF Inv, SeenOK, EndOfRun, Raise, stores
<1>2. CASE EndOfRun
  <2>1. SyncOK(sync') /\ sync'.pc = "done" /\ sync'.from = NONE
    BY <1>1, <1>2, EndLocal
  <2>2. Knows(Waits, sync', docs)
    BY <2>1, KnowsLittle DEF KnowsCands, Felling
  <2> QED
    BY <1>1, <2>1, <2>2, SameRows DEF Kept
<1>3. CASE Raise
  <2>1. /\ SyncOK(sync') /\ sync'.pc \in {"idle", "plan"} /\ sync'.from = NONE
        /\ sync'.pc = "plan" => sync'.cands = sync.cands
    BY <1>1, <1>3, RaiseLocal
  <2>2. sync.pc \notin {"idle", "done"}
    BY <1>3 DEF Raise, Resting
  <2>3. KnowsCands(Waits, sync', docs)
    BY <1>1, <2>1, <2>2 DEF Knows, KnowsCands
  <2>4. ~Felling(sync') /\ sync'.pc \notin {"put", "putting", "write", "writing"}
    BY <2>1 DEF Felling
  <2>5. Knows(Waits, sync', docs)
    BY <2>1, <2>3, <2>4, KnowsLittle
  <2> QED
    BY <1>1, <2>1, <2>5, SameRows DEF Kept
<1> QED
  BY <1>2, <1>3

LEMMA PlanKeeps ==
    ASSUME Inv, ReadStored \/ Guard \/ ReadChunk \/ \E p \in Paths : Plan(p)
    PROVE  Kept
<1>1. SyncOK(sync) /\ RowsOK /\ UNCHANGED <<docs, vecs>>
  BY DEF Inv, ReadStored, Guard, ReadChunk, Plan, stores
<1>2. SyncOK(sync')
  BY <1>1, StoredLocal, GuardLocal, ReadChunkLocal, PlanLocal
<1>3. Knows(Waits, sync', docs)
  BY KnowsStored, KnowsGuard, KnowsRead, KnowsPlan
<1> QED
  BY <1>1, <1>2, <1>3, SameRows DEF Kept

LEMMA SyncKeeps == ASSUME Inv, Start \/ Run \/ Raise PROVE Kept
<1>1. CASE Start
  BY <1>1, StartKeeps
<1>2. CASE Raise
  BY <1>2, EndKeeps
<1>3. CASE Run
  BY <1>3, PlanKeeps, PutKeeps, EmbedKeeps, SurplusKeeps, VectorKeeps, WholeKeeps, RetireKeeps,
     TreeKeeps, PruneKeeps, EndKeeps DEF Run, Record
<1> QED
  BY <1>1, <1>2, <1>3
-----------------------------------------------------------------------------
(* The other writers *)

LEMMA TargetSame ==
    ASSUME SyncOK(sync), NEW blanked, Disturb(blanked)
    PROVE  Aim(sync') = Aim(sync) /\ (Felling(sync') <=> Felling(sync))
BY DisturbedIs DEF Aim, Felling

\* A writer that does not wait: what it blanks under a put makes the put late.
\* One that waits finds no sync at work.
LEMMA OthersKnow ==
    ASSUME Inv, NEW blanked, Disturb(blanked),
           Waits => Resting \/ docs' = docs,
           \A d \in Ids \ blanked : Buried(docs', d) => Buried(docs, d)
    PROVE  SyncOK(sync') /\ Knows(Waits, sync', docs')
<1>1. SyncOK(sync) /\ RowsOK /\ Knows(Waits, sync, docs)
  BY DEF Inv, SeenOK
<1>2. /\ SyncOK(sync') /\ sync'.pc = sync.pc /\ sync'.path = sync.path /\ sync'.from = sync.from
      /\ sync'.row = sync.row /\ sync'.dels = sync.dels /\ sync'.cands = sync.cands
      /\ sync'.next = sync.next
      /\ ~Resting /\ (sync.late \/ (sync.pc \in {"putting", "writing"} /\ Target \in blanked))
           => sync'.late
  BY <1>1, DisturbedIs
<1>3. Aim(sync') = Aim(sync) /\ (Felling(sync') <=> Felling(sync))
  BY <1>1, TargetSame
<1>4. CASE Waits /\ docs' = docs
  <2>1. KnowsPut(Waits, sync', docs)
    <3>1. sync.pc \in {"putting", "writing"} => ~Buried(docs, Aim(sync))
      BY <1>1, <1>4 DEF Knows, KnowsPut
    <3> QED
      BY <1>2, <1>3, <3>1 DEF KnowsPut
  <2>2. KnowsFrom(Waits, sync', docs) /\ KnowsCands(Waits, sync', docs) /\ KnowsDels(Waits, sync', docs)
    BY <1>1, <1>2, <1>3 DEF Knows, KnowsFrom, KnowsCands, KnowsDels
  <2>3. KnowsRow(Waits, sync', docs)
    BY <1>1, <1>2, <1>3 DEF Knows, KnowsRow
  <2> QED
    BY <1>2, <1>4, <2>1, <2>2, <2>3 DEF Knows
<1>5. CASE Waits /\ Resting
  <2>1. sync'.from = NONE /\ sync'.pc \in {"idle", "done"}
    BY <1>1, <1>2, <1>5 DEF Resting, SyncOK, Working, SyncStates
  <2>2. KnowsCands(Waits, sync', docs') /\ ~Felling(sync')
    BY <2>1 DEF KnowsCands, Felling
  <2> QED
    BY <1>2, <2>1, <2>2, KnowsLittle
<1>6. CASE ~Waits
  <2>1. KnowsPut(Waits, sync', docs')
    <3>1. SUFFICES ASSUME sync.pc \in {"putting", "writing"}, Buried(docs', Aim(sync))
                   PROVE  sync'.late
      BY <1>2, <1>3, <1>6 DEF KnowsPut
    <3>2. Target \in Ids /\ Aim(sync) = Target /\ ~Resting
      BY <1>1, <3>1, TargetIs, AimIs DEF Resting
    <3>3. CASE Target \in blanked
      BY <1>2, <3>1, <3>2, <3>3
    <3>4. CASE Target \notin blanked
      <4>1. Buried(docs, Aim(sync))
        BY <3>1, <3>2, <3>4
      <4>2. sync.late
        BY <1>1, <3>1, <4>1 DEF Knows, KnowsPut
      <4> QED
        BY <1>2, <3>2, <4>2
    <3> QED
      BY <3>3, <3>4
  <2>2. KnowsFrom(Waits, sync', docs') /\ KnowsDels(Waits, sync', docs')
    BY <1>6 DEF KnowsFrom, KnowsDels
  <2>3. KnowsCands(Waits, sync', docs')
    BY <1>6 DEF KnowsCands
  <2>4. KnowsRow(Waits, sync', docs')
    BY <1>6 DEF KnowsRow
  <2> QED
    BY <1>2, <2>1, <2>2, <2>3, <2>4 DEF Knows
<1> QED
  BY <1>4, <1>5, <1>6

LEMMA Blank ==
    ASSUME RowsOK, NEW d \in Ids, Tombstone(d)
    PROVE  RowsOK' /\ \A e \in Ids \ {d} : docs'[e] = docs[e]
<1>1. CASE docs[d] = NONE
  BY <1>1, SameRows DEF Tombstone, stores
<1>2. CASE docs[d] # NONE
  <2>1. docs' = [docs EXCEPT ![d] = Blanked(docs[d])] /\ vecs' = [vecs EXCEPT ![d] = NONE]
    BY <1>2 DEF Tombstone
  <2>2. docs[d] \in Row
    BY <1>2 DEF RowsOK
  <2>3. Blanked(docs[d]) \in Row /\ Blanked(docs[d]).text = BLANK
    BY <2>2 DEF Blanked, Row, Tags
  <2>4. docs' \in [Ids -> Row \cup {NONE}] /\ vecs' \in [Ids -> VectorRow \cup {NONE}]
    BY <2>1, <2>3 DEF RowsOK
  <2>5. docs'[d] = Blanked(docs[d]) /\ \A e \in Ids \ {d} : docs'[e] = docs[e]
    BY <2>1 DEF RowsOK
  <2> QED
    BY <2>3, <2>4, <2>5 DEF RowsOK, Tomb
<1> QED
  BY <1>1, <1>2

LEMMA DemoteKeeps == ASSUME Inv, NEW d \in Ids, Demote(d) PROVE Kept
<1>1. /\ RowsOK /\ docs[d] # NONE /\ FreeToWrite /\ Disturb({})
      /\ PutDocument(d, [docs[d] EXCEPT !.tag = "noise"])
  BY DEF Inv, Demote
<1> DEFINE row == [docs[d] EXCEPT !.tag = "noise"]
<1>2. docs[d] \in Row
  BY <1>1 DEF RowsOK
<1>3. row \in Row /\ row.tomb = docs[d].tomb /\ row.text = docs[d].text
  BY <1>2 DEF Row, Tags
<1>4. row.tomb => row.text = BLANK
  BY <1>1, <1>3 DEF RowsOK, Tomb
<1>5. PutDocument(d, row)
  BY <1>1
<1> HIDE DEF row
<1>6. RowsOK' /\ docs'[d] = row /\ \A e \in Ids \ {d} : docs'[e] = docs[e]
  BY <1>1, <1>3, <1>4, <1>5, RowPut
<1>7. \A e \in Ids : Buried(docs', e) => Buried(docs, e)
  BY <1>1, <1>3, <1>6 DEF Buried
<1>8. Waits => Resting
  BY <1>1 DEF FreeToWrite, Waits
<1>9. SyncOK(sync') /\ Knows(Waits, sync', docs')
  BY <1>1, <1>7, <1>8, OthersKnow
<1> QED
  BY <1>6, <1>9 DEF Kept

LEMMA VectorGone ==
    ASSUME RowsOK, NEW d \in Ids, docs' = docs, vecs' = [vecs EXCEPT ![d] = NONE]
    PROVE  RowsOK'
BY DEF RowsOK, Tomb

LEMMA RedactStartKeeps ==
    ASSUME Inv, ReadDeclared \/ \E d \in Ids : RedactVector(d)
    PROVE  Kept /\ RedactOK'
<1>1. RowsOK /\ docs' = docs /\ Disturb({}) /\ RedactOK
  BY DEF Inv, RedactVector, ReadDeclared, stores
<1>2. SyncOK(sync') /\ Knows(Waits, sync', docs')
  BY <1>1, OthersKnow
<1>3. CASE ReadDeclared
  <2>1. redact.pc = "read" /\ redact \in Redactions /\ redact.id \in Ids
    BY <1>1, <1>3 DEF ReadDeclared, RedactOK
  <2>2. redact.id[1] \in Paths
    BY <2>1, PathOf
  <2>3. Count(redact.id[1]) \in 0..MaxChunks
    BY <1>1, <2>2, CountOK
  <2>4. RedactOK'
    <3> DEFINE declared == Count(redact.id[1])
    <3>1. declared \in 0..MaxChunks /\ 1 \in 0..(MaxChunks + 1)
      BY <2>3, SpansOK
    <3>2. \/ redact' = [redact EXCEPT !.pc = "chunk", !.next = 1, !.declared = declared]
          \/ redact' = [redact EXCEPT !.pc = "parent"]
      BY <1>3 DEF ReadDeclared
    <3> HIDE DEF declared
    <3> QED
      BY <2>1, <3>1, <3>2 DEF RedactOK, Redactions
  <2>5. vecs' = vecs
    BY <1>3 DEF ReadDeclared, stores
  <2> QED
    BY <1>1, <1>2, <2>4, <2>5, SameRows DEF Kept
<1>4. ASSUME NEW d \in Ids, RedactVector(d) PROVE Kept /\ RedactOK'
  <2>1. vecs' = [vecs EXCEPT ![d] = NONE] /\ redact' = [redact EXCEPT !.pc = "read", !.id = d]
    BY <1>4 DEF RedactVector
  <2>2. RedactOK'
    BY <1>1, <2>1 DEF RedactOK, Redactions
  <2>3. RowsOK'
    BY <1>1, <2>1, VectorGone
  <2> QED
    BY <1>2, <2>2, <2>3 DEF Kept
<1> QED
  BY <1>3, <1>4

LEMMA RestIs == AtRest \in Redactions /\ AtRest.pc = "idle"
BY SpansOK DEF AtRest, Redactions

\* The walk along the chunks, and the parent at its end.
LEMMA RedactRowKeeps ==
    ASSUME Inv, RedactChunk \/ RedactParent
    PROVE  Kept /\ RedactOK'
<1>1. RowsOK /\ RedactOK /\ redact.pc \in {"chunk", "parent"} /\ (Waits => Resting)
  BY DEF Inv, SeenOK, RedactChunk, RedactParent
<1>2. redact \in Redactions /\ redact.id \in Ids /\ redact.id[1] \in Paths
  BY <1>1, PathOf DEF RedactOK
<1>3. CASE RedactParent
  <2>1. Tombstone(redact.id) /\ redact' = AtRest /\ Disturb({redact.id})
    BY <1>3 DEF RedactParent
  <2>2. RowsOK' /\ \A e \in Ids \ {redact.id} : docs'[e] = docs[e]
    BY <1>1, <1>2, <2>1, Blank
  <2>3. SyncOK(sync') /\ Knows(Waits, sync', docs')
    BY <1>1, <2>1, <2>2, OthersKnow DEF Buried
  <2>4. RedactOK'
    BY <2>1, RestIs DEF RedactOK
  <2> QED
    BY <2>2, <2>3, <2>4 DEF Kept
<1>4. CASE RedactChunk
  <2> DEFINE d == <<redact.id[1], redact.next>>
  <2>1. Disturb({d}) /\ redact.next \in 0..(MaxChunks + 1) /\ redact.declared \in 0..MaxChunks
    BY <1>2, <1>4 DEF RedactChunk, Redactions
  <2>2. CASE PastEnd(redact.next)
    <3>1. UNCHANGED <<docs, vecs>> /\ redact' = [redact EXCEPT !.pc = "parent"]
      BY <1>4, <2>2 DEF RedactChunk, stores
    <3>2. RedactOK'
      BY <1>2, <3>1 DEF RedactOK, Redactions
    <3>3. SyncOK(sync') /\ Knows(Waits, sync', docs')
      BY <2>1, <3>1, OthersKnow
    <3> QED
      BY <1>1, <3>1, <3>2, <3>3, SameRows DEF Kept
  <2>3. CASE ~PastEnd(redact.next)
    <3>1. Tombstone(d) /\ redact' = [redact EXCEPT !.next = @ + 1]
      BY <1>4, <2>3 DEF RedactChunk
    <3>2. redact.next \in 0..MaxChunks
      BY <2>1, <2>3, SpansOK DEF PastEnd, PastDeclared
    <3>3. d \in Ids
      BY <1>2, <3>2, IdOf
    <3> HIDE DEF d
    <3>4. RowsOK' /\ \A e \in Ids \ {d} : docs'[e] = docs[e]
      BY <1>1, <3>1, <3>3, Blank
    <3>5. SyncOK(sync') /\ Knows(Waits, sync', docs')
      BY <1>1, <2>1, <3>4, OthersKnow DEF Buried
    <3>6. RedactOK'
      <4>1. redact.next + 1 \in 0..(MaxChunks + 1)
        BY <3>2, SpansOK
      <4> QED
        BY <1>2, <3>1, <4>1 DEF RedactOK, Redactions
    <3> QED
      BY <3>4, <3>5, <3>6 DEF Kept
  <2> QED
    BY <2>2, <2>3
<1> QED
  BY <1>3, <1>4

LEMMA FailsKeeps == ASSUME Inv, RedactionFails PROVE Kept /\ RedactOK'
<1>1. /\ RowsOK /\ SyncOK(sync) /\ Knows(Waits, sync, docs) /\ RedactOK
      /\ docs' = docs /\ sync' = sync /\ redact' = AtRest /\ redact.pc # "idle"
  BY DEF Inv, SeenOK, RedactionFails
<1>2. redact.id[1] \in Paths /\ redact.next \in 0..(MaxChunks + 1)
  BY <1>1, PathOf DEF RedactOK, Redactions
<1>3. RowsOK'
  <2>1. CASE vecs' = vecs
    BY <1>1, <2>1, SameRows
  <2>2. CASE redact.next <= MaxChunks /\ vecs' = [vecs EXCEPT ![<<redact.id[1], redact.next>>] = NONE]
    <3>1. redact.next \in 0..MaxChunks
      BY <1>2, <2>2, SpansOK
    <3>2. PICK d : d = <<redact.id[1], redact.next>>
      OBVIOUS
    <3>3. d \in Ids
      BY <1>2, <3>1, <3>2, IdOf
    <3> QED
      BY <1>1, <2>2, <3>2, <3>3, VectorGone
  <2> QED
    BY <2>1, <2>2 DEF RedactionFails
<1>4. RedactOK'
  BY <1>1, RestIs DEF RedactOK
<1>5. SyncOK(sync') /\ Knows(Waits, sync', docs')
  BY <1>1
<1> QED
  BY <1>3, <1>4, <1>5 DEF Kept

LEMMA FileKeeps ==
    ASSUME Inv, NEW p \in Paths, NEW t \in Texts \cup {NONE}, ChangeFile(p, t)
    PROVE  Kept
<1>1. /\ RowsOK /\ SyncOK(sync) /\ Knows(Waits, sync, docs)
      /\ docs' = docs /\ vecs' = vecs /\ sync' = sync
  BY DEF Inv, SeenOK, ChangeFile, stores
<1>2. SyncOK(sync') /\ Knows(Waits, sync', docs')
  BY <1>1
<1> QED
  BY <1>1, <1>2, SameRows DEF Kept
-----------------------------------------------------------------------------
(* The invariant *)

\* One of the two waits for the other.
Turns == Waits => Resting \/ redact.pc = "idle"

LEMMA Together ==
    ASSUME Kept, RedactOK', RestOK', Turns', env' = env
    PROVE  Inv'
<1>1. SyncOK(sync)'
  BY DEF Kept, SyncOK, Locals, Partial, Own, Foreign
<1>2. Waits' = Waits
  BY DEF Waits
<1>3. Knows(Waits, sync, docs)'
  BY <1>2 DEF Kept, Knows, KnowsPut, KnowsFrom, KnowsDels, KnowsCands, KnowsRow, Buried, Aim, Felling
<1> QED
  BY <1>1, <1>3 DEF Kept, Inv, SeenOK, Turns

LEMMA InitInv == Init => Inv
<1> SUFFICES ASSUME Init PROVE Inv
  OBVIOUS
<1>1. SyncOK(sync) /\ sync.pc = "idle" /\ sync.path = NONE
  BY IdleSync DEF Init
<1>2. sync.from = NONE
  BY <1>1 DEF SyncOK
<1>3. Knows(Waits, sync, docs)
  BY <1>1, <1>2, KnowsLittle DEF KnowsCands, Felling
<1>4. Resting
  BY <1>1 DEF Resting
<1>5. RowsOK
  BY DEF Init, RowsOK, Tomb
<1>6. RedactOK
  BY RestIs DEF Init, RedactOK
<1>7. RestOK
  <2>1. env \in SUBSET Events /\ file \in [Paths -> Texts \cup {NONE}]
    BY CorpusAssumption DEF Init
  <2>2. 0 \in 0..MaxActs /\ 0 \in 0..MaxFaults
    BY CorpusAssumption
  <2>3. spent \in [acts : 0..MaxActs, faults : 0..MaxFaults] /\ settled \in BOOLEAN
    BY <2>2 DEF Init
  <2> QED
    BY <2>1, <2>3 DEF RestOK
<1> QED
  BY <1>1, <1>3, <1>4, <1>5, <1>6, <1>7 DEF Inv, SeenOK

LEMMA SpendAct ==
    ASSUME RestOK, Spend("acts"), spent.acts < MaxActs
    PROVE  spent' \in [acts : 0..MaxActs, faults : 0..MaxFaults]
<1>1. spent \in [acts : 0..MaxActs, faults : 0..MaxFaults] /\ MaxActs \in Nat
  BY CorpusAssumption DEF RestOK
<1>2. spent.acts \in 0..MaxActs
  BY <1>1
<1>3. spent.acts + 1 \in 0..MaxActs
  BY <1>1, <1>2
<1> QED
  BY <1>1, <1>3 DEF Spend

LEMMA SpendFault ==
    ASSUME RestOK, Spend("faults"), spent.faults < MaxFaults
    PROVE  spent' \in [acts : 0..MaxActs, faults : 0..MaxFaults]
<1>1. spent \in [acts : 0..MaxActs, faults : 0..MaxFaults] /\ MaxFaults \in Nat
  BY CorpusAssumption DEF RestOK
<1>2. spent.faults \in 0..MaxFaults
  BY <1>1
<1>3. spent.faults + 1 \in 0..MaxFaults
  BY <1>1, <1>2
<1> QED
  BY <1>1, <1>3 DEF Spend

LEMMA RestStep == ASSUME Inv, Next PROVE RestOK' /\ env' = env
<1>1. RestOK
  BY DEF Inv
<1>2. CASE Start
  BY <1>1, <1>2 DEF Start, RestOK
<1>3. CASE Run
  <2>1. CASE EndOfRun
    BY <1>1, <2>1 DEF EndOfRun, RestOK
  <2>2. CASE Record
    BY <1>1, <2>2 DEF Record, ReadStored, Guard, PutParent, ReadChunk, WriteChunk, EmbedChunk,
       ProbeSurplus, DeleteSurplus, DeleteVector, WholeVector, Retire, DeleteTree, RestOK
  <2>3. CASE ListCandidates \/ \E p \in Paths : Plan(p) \/ Prune(p)
    BY <1>1, <2>3 DEF ListCandidates, Plan, Prune, RestOK
  <2> QED
    BY <1>3, <2>1, <2>2, <2>3 DEF Run
<1>4. CASE Raise
  <2>1. spent' \in [acts : 0..MaxActs, faults : 0..MaxFaults]
    <3>1. CASE spent.faults < MaxFaults /\ Spend("faults")
      BY <1>1, <3>1, SpendFault
    <3>2. CASE UNCHANGED spent
      BY <1>1, <3>2 DEF RestOK
    <3> QED
      BY <1>4, <3>1, <3>2 DEF Raise
  <2> QED
    BY <1>1, <1>4, <2>1 DEF Raise, RestOK
<1>5. CASE Redaction
  <2>1. CASE \E d \in Ids : RedactVector(d)
    BY <1>1, <2>1, SpendAct DEF RedactVector, RestOK
  <2>2. CASE ReadDeclared \/ RedactChunk \/ RedactParent
    BY <1>1, <2>2 DEF ReadDeclared, RedactChunk, RedactParent, RestOK
  <2>3. CASE RedactionFails
    BY <1>1, <2>3, SpendFault DEF RedactionFails, RestOK
  <2> QED
    BY <1>5, <2>1, <2>2, <2>3 DEF Redaction
<1>6. CASE Others
  <2>1. CASE \E d \in Ids : Demote(d)
    BY <1>1, <2>1, SpendAct DEF Demote, RestOK
  <2>2. ASSUME NEW p \in Paths, NEW t \in Texts \cup {NONE}, ChangeFile(p, t) PROVE RestOK' /\ env' = env
    <3>1. file' \in [Paths -> Texts \cup {NONE}]
      BY <1>1, <2>2 DEF ChangeFile, RestOK
    <3>2. spent' \in [acts : 0..MaxActs, faults : 0..MaxFaults]
      BY <1>1, <2>2, SpendAct DEF ChangeFile
    <3> QED
      BY <1>1, <2>2, <3>1, <3>2 DEF ChangeFile, RestOK
  <2> QED
    BY <1>6, <2>1, <2>2 DEF Others
<1> QED
  BY <1>2, <1>3, <1>4, <1>5, <1>6 DEF Next

LEMMA SyncTurns == ASSUME Inv, Start \/ Run \/ Raise PROVE redact' = redact /\ (Waits => redact.pc = "idle")
<1>1. Waits => Resting \/ redact.pc = "idle"
  BY DEF Inv, SeenOK
<1>2. CASE Start
  BY <1>2 DEF Start, Waits
<1>3. CASE Raise
  BY <1>1, <1>3 DEF Raise
<1>4. CASE Run
  <2>1. CASE Record
    BY <1>1, <2>1 DEF Record, ReadStored, Guard, PutParent, ReadChunk, WriteChunk, EmbedChunk,
       ProbeSurplus, DeleteSurplus, DeleteVector, WholeVector, Retire, DeleteTree, Resting
  <2>2. CASE ListCandidates \/ EndOfRun \/ \E p \in Paths : Plan(p) \/ Prune(p)
    BY <1>1, <2>2 DEF ListCandidates, EndOfRun, Plan, Prune, Resting
  <2> QED
    BY <1>4, <2>1, <2>2 DEF Run
<1> QED
  BY <1>2, <1>3, <1>4

LEMMA InvStep == Inv /\ [Next]_vars => Inv'
<1> SUFFICES ASSUME Inv, [Next]_vars PROVE Inv'
  OBVIOUS
<1>0. RedactOK /\ SyncOK(sync) /\ RowsOK /\ RestOK /\ Turns
  BY DEF Inv, SeenOK, Turns
<1>1. CASE UNCHANGED vars
  <2>1. UNCHANGED <<env, file, docs, vecs, sync, redact, spent, settled>>
    BY <1>1 DEF vars, stores
  <2>2. Kept
    BY <1>0, <2>1, SameRows DEF Inv, SeenOK, Kept
  <2>3. RedactOK' /\ RestOK' /\ Turns'
    BY <1>0, <2>1 DEF RedactOK, RestOK, Turns, Waits, Resting
  <2> QED
    BY <2>1, <2>2, <2>3, Together
<1>2. ASSUME Next PROVE Inv'
  <2>1. RestOK' /\ env' = env
    BY <1>2, RestStep
  <2>2. CASE Start \/ Run \/ Raise
    <3>1. Kept /\ redact' = redact /\ (Waits => redact.pc = "idle")
      BY <2>2, SyncKeeps, SyncTurns
    <3>2. RedactOK' /\ Turns'
      BY <1>0, <2>1, <3>1 DEF RedactOK, Turns, Waits
    <3> QED
      BY <2>1, <3>1, <3>2, Together
  <2>3. CASE Redaction
    <3>1. Kept /\ RedactOK'
      BY <2>3, RedactStartKeeps, RedactRowKeeps, FailsKeeps DEF Redaction
    <3>2. sync'.pc = sync.pc
      <4>1. CASE RedactionFails
        BY <4>1 DEF RedactionFails
      <4>2. CASE ReadDeclared \/ RedactChunk \/ RedactParent \/ \E d \in Ids : RedactVector(d)
        BY <1>0, <4>2, DisturbedIs DEF ReadDeclared, RedactChunk, RedactParent, RedactVector
      <4> QED
        BY <2>3, <4>1, <4>2 DEF Redaction
    <3>3. Waits => Resting \/ redact'.pc = "idle"
      <4>1. CASE RedactionFails
        BY <4>1, RestIs DEF RedactionFails
      <4>2. CASE ReadDeclared \/ RedactChunk \/ RedactParent
        BY <1>0, <4>2 DEF ReadDeclared, RedactChunk, RedactParent, Turns
      <4>3. CASE \E d \in Ids : RedactVector(d)
        BY <4>3 DEF RedactVector, FreeToWrite, Waits
      <4> QED
        BY <2>3, <4>1, <4>2, <4>3 DEF Redaction
    <3>4. Turns'
      BY <2>1, <3>2, <3>3 DEF Turns, Waits, Resting
    <3> QED
      BY <2>1, <3>1, <3>4, Together
  <2>4. CASE Others
    <3>1. Kept
      BY <2>4, DemoteKeeps, FileKeeps DEF Others
    <3>2. redact' = redact /\ sync'.pc = sync.pc
      BY <1>0, <2>4, DisturbedIs DEF Others, Demote, ChangeFile
    <3>3. RedactOK' /\ Turns'
      BY <1>0, <2>1, <3>2 DEF RedactOK, Turns, Waits, Resting
    <3> QED
      BY <2>1, <3>1, <3>3, Together
  <2> QED
    BY <1>2, <2>2, <2>3, <2>4 DEF Next
<1> QED
  BY <1>1, <1>2

LEMMA Invariant == Spec => []Inv
BY InitInv, InvStep, PTL DEF Spec

\* Whatever a directory, its edits, runs and redactions do, the stores, the
\* locals of a sync (what is planned, written, deleted and pruned) and of a
\* redaction have their types: no walk along a document's chunks leaves the
\* chunks a document can have.
THEOREM TypeCorrect == Spec => []TypeOK
BY Invariant, InvTypes, PTL

-----------------------------------------------------------------------------
(* What a step does to the rows *)

\* One document goes, of those listed to go, and none kept as a tombstone.
Deletes ==
    /\ sync.pc \in {"surplus", "tree"} /\ sync.dels # <<>>
    /\ Head(sync.dels) \in Ids
    /\ docs' = [docs EXCEPT ![Head(sync.dels)] = NONE]
    /\ Tomb(Head(sync.dels)) => ~Waits

LEMMA DeletesOne ==
    ASSUME Inv, DeleteSurplus \/ DeleteTree
    PROVE  docs' = docs \/ Deletes
<1>1. SyncOK(sync) /\ Knows(Waits, sync, docs) /\ sync.dels \in Seq(Ids \cup {NONE})
  BY SyncTypes DEF Inv, SeenOK
<1>2. CASE docs' # docs
  <2>1. sync.pc \in {"surplus", "tree"} /\ sync.dels # <<>>
        /\ docs' = [docs EXCEPT ![Head(sync.dels)] = NONE]
    BY <1>2 DEF DeleteSurplus, DeleteTree
  <2>2. Head(sync.dels) = sync.dels[1] /\ 1 \in DOMAIN sync.dels /\ sync.dels[1] \in Ids \cup {NONE}
    BY <1>1, <2>1, TailOf
  <2>3. CASE DeleteSurplus
    <3>1. sync.pc = "surplus" /\ Own(sync) /\ ~Tomb(Head(sync.dels))
      BY <1>1, <1>2, <2>3 DEF DeleteSurplus, KeptAsTombstone, SyncOK
    <3> QED
      BY <2>1, <2>2, <3>1 DEF Deletes, Own
  <2>4. CASE DeleteTree
    <3>1. sync.pc = "tree" /\ Head(sync.dels) # NONE
      BY <1>2, <2>1, <2>4 DEF DeleteTree
    <3>2. Waits => ~Tomb(Head(sync.dels))
      BY <1>1, <2>2, <3>1, TombIs DEF Knows, KnowsDels, Felling
    <3> QED
      BY <2>1, <2>2, <3>1, <3>2 DEF Deletes
  <2> QED
    BY <2>3, <2>4
<1> QED
  BY <1>2

\* A step of a sync puts, deletes, or leaves the rows as they are.
LEMMA SyncRows ==
    ASSUME Inv, Start \/ Run \/ Raise
    PROVE  docs' = docs \/ PutParent \/ WriteChunk \/ Deletes
<1>1. CASE Start \/ Raise
  BY <1>1 DEF Start, Raise, stores
<1>2. CASE Run
  <2>1. CASE Record
    BY <2>1, DeletesOne DEF Record, ReadStored, Guard, ReadChunk, EmbedChunk, ProbeSurplus,
       DeleteVector, WholeVector, Retire, stores
  <2>2. CASE ListCandidates \/ EndOfRun \/ \E p \in Paths : Plan(p) \/ Prune(p)
    BY <2>2 DEF ListCandidates, EndOfRun, Plan, Prune, stores
  <2> QED
    BY <1>2, <2>1, <2>2 DEF Run
<1> QED
  BY <1>1, <1>2

\* The other writers take no tombstone away, and where they wait they write
\* while no sync is at work.
LEMMA OtherRows ==
    ASSUME Inv, Redaction \/ Others
    PROVE  /\ \A d \in Ids : Tomb(d) => Tomb(d)'
           /\ Waits /\ ~Resting => docs' = docs
<1>1. RowsOK /\ RedactOK /\ (Waits => Resting \/ redact.pc = "idle")
  BY DEF Inv, SeenOK
<1>2. ASSUME NEW e, docs[e] # NONE, docs' = [docs EXCEPT ![e] = Blanked(docs[e])]
      PROVE  \A d \in Ids : Tomb(d) => Tomb(d)'
  <2>1. CASE e \in Ids
    <3>1. docs[e] \in Row
      BY <1>1, <1>2, <2>1 DEF RowsOK
    <3>2. Blanked(docs[e]) \in Row /\ Blanked(docs[e]).tomb
      BY <3>1 DEF Blanked, Row, Tags
    <3>3. Blanked(docs[e]) # NONE
      BY <3>2, CorpusAssumption
    <3> QED
      BY <1>1, <1>2, <3>2, <3>3 DEF RowsOK, Tomb
  <2>2. CASE e \notin Ids
    <3>1. \A d \in Ids : docs'[d] = docs[d]
      BY <1>1, <1>2, <2>2 DEF RowsOK
    <3> QED
      BY <3>1 DEF Tomb
  <2> QED
    BY <2>1, <2>2
<1>3. CASE docs' = docs
  BY <1>3 DEF Tomb
<1>4. ASSUME NEW e, Tombstone(e) PROVE \A d \in Ids : Tomb(d) => Tomb(d)'
  BY <1>2, <1>3, <1>4 DEF Tombstone, stores
<1>5. CASE RedactChunk \/ RedactParent
  <2>1. redact.pc # "idle"
    BY <1>5 DEF RedactChunk, RedactParent
  <2>2. CASE RedactParent
    BY <1>1, <1>4, <2>1, <2>2 DEF RedactParent
  <2>3. CASE RedactChunk
    BY <1>1, <1>3, <1>4, <2>1, <2>3 DEF RedactChunk, stores
  <2> QED
    BY <1>5, <2>2, <2>3
<1>6. ASSUME NEW e \in Ids, Demote(e)
      PROVE  /\ \A d \in Ids : Tomb(d) => Tomb(d)'
             /\ Waits /\ ~Resting => docs' = docs
  <2>1. /\ docs[e] \in Row /\ FreeToWrite
        /\ docs' = [docs EXCEPT ![e] = [docs[e] EXCEPT !.tag = "noise"]]
    BY <1>1, <1>6 DEF Demote, PutDocument, RowsOK
  <2>2. [docs[e] EXCEPT !.tag = "noise"] \in Row /\ [docs[e] EXCEPT !.tag = "noise"].tomb = docs[e].tomb
    BY <2>1 DEF Row, Tags
  <2>3. \A d \in Ids : Tomb(d) => Tomb(d)'
    BY <1>1, <2>1, <2>2, CorpusAssumption DEF RowsOK, Tomb
  <2> QED
    BY <2>1, <2>3 DEF FreeToWrite, Waits
<1> QED
  BY <1>3, <1>5, <1>6 DEF Redaction, Others, RedactVector, ReadDeclared, RedactionFails, ChangeFile, stores

LEMMA TombstoneStep ==
    ASSUME Inv, [Next]_vars, NEW d \in Ids, Tomb(d), ~Tomb(d)'
    PROVE  ~Waits /\ (docs'[d] # NONE => sync.late /\ d = Target)
<1>1. SyncOK(sync) /\ RowsOK /\ Knows(Waits, sync, docs)
  BY DEF Inv, SeenOK
<1>2. docs' # docs
  BY DEF Tomb
<1>3. Start \/ Run \/ Raise
  BY <1>2, OtherRows DEF Next, vars, stores
<1>4. CASE PutParent \/ WriteChunk
  <2>1. Target \in Ids /\ \A e \in Ids \ {Target} : docs'[e] = docs[e]
    BY <1>1, <1>4, SyncPuts
  <2>2. d = Target
    BY <2>1 DEF Tomb
  <2>3. sync.pc \in {"putting", "writing"}
    BY <1>4 DEF PutParent, WriteChunk
  <2>4. Aim(sync) = Target
    BY <2>3, AimIs
  <2>5. ~Waits /\ sync.late
    BY <1>1, <2>2, <2>3, <2>4, TombIs DEF Knows, KnowsPut
  <2> QED
    BY <2>2, <2>5
<1>5. CASE Deletes
  <2>1. d = Head(sync.dels) /\ docs'[d] = NONE
    BY <1>1, <1>5 DEF Deletes, RowsOK, Tomb
  <2> QED
    BY <1>5, <2>1 DEF Deletes
<1> QED
  BY <1>2, <1>3, <1>4, <1>5, SyncRows

\* Whatever edits, moves, prunes, dead runs and re-runs a directory goes
\* through, no sync that other writers wait for takes a redaction's tombstone
\* away or writes over it; and where they do not wait, a tombstone is filled
\* only by a put whose own guard had read the row before it was blanked.
THEOREM TombstonesStay == Spec => TombstoneStays
<1>1. Inv /\ [Next]_vars => [\A d \in Ids : Tomb(d) /\ ~Tomb(d)' =>
         ~Waits /\ (docs'[d] # NONE => sync.late /\ d = Target)]_vars
  BY TombstoneStep
<1> QED
  BY <1>1, Invariant, PTL DEF Spec, TombstoneStays

LEMMA DemotionStep ==
    ASSUME Inv, [Next]_vars, Waits, ~Resting, NEW d \in Ids,
           docs[d] # NONE, docs'[d] # NONE, docs[d].tag = "noise",
           d[2] = 0 \/ docs'[d].text = docs[d].text
    PROVE  docs'[d].tag = "noise"
<1>1. SyncOK(sync) /\ RowsOK /\ Knows(Waits, sync, docs)
  BY DEF Inv, SeenOK
<1>2. CASE docs' = docs
  BY <1>2
<1>3. CASE Deletes
  BY <1>1, <1>3 DEF Deletes, RowsOK
<1>4. CASE PutParent \/ WriteChunk
  <2>1. /\ Target \in Ids /\ \A e \in Ids \ {Target} : docs'[e] = docs[e]
        /\ PutParent => docs'[Target].tag = ParentTag /\ Target = Whole(sync.path)
        /\ WriteChunk => /\ docs'[Target].tag = ChunkTag /\ docs'[Target].text = Piece
                         /\ Target = Chunk /\ Chunk[2] # 0
    BY <1>1, <1>4, SyncPuts
  <2>2. sync.pc \in {"putting", "writing"}
    BY <1>4 DEF PutParent, WriteChunk
  <2>3. sync.row = docs[Target]
    BY <1>1, <2>2, AimIs DEF Knows, KnowsRow
  <2>4. CASE d # Target
    BY <2>1, <2>4
  <2>5. CASE d = Target
    <3>1. sync.row # NONE /\ TagOf(sync.row) = "noise" /\ TagOf(sync.row) # NONE
      BY <2>3, <2>5, CorpusAssumption DEF TagOf
    <3>2. CASE PutParent
      BY <2>1, <2>5, <3>1, <3>2 DEF ParentTag
    <3>3. CASE WriteChunk
      <4>1. d[2] # 0 /\ docs'[d].text = Piece /\ sync.row.text = docs[d].text
        BY <2>1, <2>3, <2>5, <3>3
      <4>2. ~Changed(sync.row)
        BY <3>1, <4>1 DEF Changed
      <4> QED
        BY <2>1, <2>5, <3>1, <3>3, <4>2 DEF ChunkTag
    <3> QED
      BY <1>4, <3>2, <3>3
  <2> QED
    BY <2>4, <2>5
<1>5. CASE Redaction \/ Others
  BY <1>2, <1>5, OtherRows
<1>6. CASE UNCHANGED vars
  BY <1>2, <1>6 DEF vars, stores
<1> QED
  BY <1>2, <1>3, <1>4, <1>5, <1>6, SyncRows DEF Next

\* No run of a sync undoes a demotion the feedback loop made before it: the
\* tag "noise" of a document survives any edit of its file, of a chunk as long
\* as its text stays the same.
THEOREM DemotionsStay == Spec => DemotionKept
<1>1. Inv /\ [Next]_vars => [Waits /\ ~Resting => \A d \in Ids :
         /\ docs[d] # NONE /\ docs'[d] # NONE
         /\ docs[d].tag = "noise"
         /\ d[2] = 0 \/ docs'[d].text = docs[d].text
         => docs'[d].tag = "noise"]_vars
  BY DemotionStep
<1> QED
  BY <1>1, Invariant, PTL DEF Spec, DemotionKept
-----------------------------------------------------------------------------
(* A redacted document is blank *)

Serves(ds, d) == ds[d] # NONE /\ ~ds[d].tomb
Declared(ds, p) == IF ds[<<p, 0>>] = NONE THEN 0 ELSE ds[<<p, 0>>].count
SizeOf(s) == Len(Spans[s.records[s.path]])

\* The stages between the put of a parent and the end of its rows; those in
\* which its surplus is deleted.
Landing == Chunking \cup {"probe", "whole"}
Clearing(s) == s.pc = "surplus" \/ (s.pc = "vector" /\ ~Felling(s))
Listed(s, d) == \E k \in DOMAIN s.dels : s.dels[k] = d

\* The document whose tree is deleted: its own row is the last to go.
Trunk(s) == s.dels[Len(s.dels)][1]
Felled(s) ==
    /\ Trunk(s) \in Paths \ DOMAIN s.cands
    /\ s.dels[Len(s.dels)] = <<Trunk(s), 0>>
    /\ \A k \in DOMAIN s.dels :
         s.dels[k] # NONE => s.dels[k][1] = Trunk(s) /\ (k # Len(s.dels) => s.dels[k][2] # 0)

\* Where writers wait, a sync finds the rows as its own steps left them.
StandsParent(s, ds) ==
    /\ s.pc \in {"stored", "put", "putting"} => ~Buried(ds, <<s.path, 0>>)
    /\ s.pc \in {"put", "putting"} => s.old = Declared(ds, s.path)
    /\ s.pc \in Landing \/ Clearing(s) =>
          Serves(ds, <<s.path, 0>>) /\ Declared(ds, s.path) = SizeOf(s)
StandsChunk(s, ds) ==
    /\ s.pc \in {"write", "writing"} => ~Buried(ds, <<s.path, s.next>>)
    /\ s.pc = "embed" => Serves(ds, <<s.path, s.next>>)
StandsDels(s, ds) ==
    /\ s.pc = "vector" => ds[s.dels[1]] = NONE
    /\ Clearing(s) => \A k \in DOMAIN s.dels : s.dels[k][2] # 0
    /\ Felling(s) /\ s.dels # <<>> => Felled(s)
StandsOld(s) ==
    /\ s.pc = "plan" \/ (s.path # NONE /\ s.action # "update") => s.old = 0
    /\ s.pc = "stored" => s.action = "update"
StandsCands(s, ds) ==
    /\ \A p \in DOMAIN s.cands : s.cands[p] = ds[<<p, 0>>]
    /\ s.pc \notin {"prune", "tree", "vector"} \/ s.path # NONE => DOMAIN s.cands = {}

Stands(s, ds) ==
    /\ StandsParent(s, ds) /\ StandsChunk(s, ds) /\ StandsDels(s, ds)
    /\ StandsOld(s) /\ StandsCands(s, ds)

\* Where nothing dies, a chunk is served only by a document that declares it,
\* or it is on its way out.
Reached(s, ds) ==
    /\ \A p \in Paths, i \in 1..MaxChunks : Serves(ds, <<p, i>>) =>
         \/ i <= Declared(ds, p)
         \/ p = s.path /\ s.pc \in Chunking \cup {"probe"} /\ i <= s.old
         \/ Clearing(s) /\ Listed(s, <<p, i>>)
    /\ Felling(s) /\ s.dels # <<>> =>
         \A i \in 1..MaxChunks : Serves(ds, <<Trunk(s), i>>) => Listed(s, <<Trunk(s), i>>)

\* What a redaction has walked past is blank, and it ends past the end.
Walked(r, ds) ==
    /\ r.pc = "chunk" => r.id[2] = 0
    /\ r.pc \in {"chunk", "parent"} /\ r.id[2] = 0 =>
        /\ r.declared = Declared(ds, r.id[1]) /\ r.next \in 1..(MaxChunks + 1)
        /\ \A i \in 1..MaxChunks : i < r.next => ~Serves(ds, <<r.id[1], i>>)
        /\ r.pc = "parent" => /\ r.next > r.declared
                              /\ r.next > MaxChunks \/ ds[<<r.id[1], r.next>>] = NONE

\* Of a redacted document a row is served only beyond a gap.
BlankAt(ds, p) ==
    Buried(ds, <<p, 0>>) =>
        \A i \in 1..MaxChunks : Serves(ds, <<p, i>>) =>
            ~NoFaults /\ \E j \in (Declared(ds, p) + 1)..(i - 1) : ds[<<p, j>>] = NONE
BlankIn(ds) == \A p \in Paths : BlankAt(ds, p)

\* A vector stands for a row that is served, or is the next to go.
Mirrors(s, ds, vs) ==
    \A d \in Ids : vs[d] # NONE => Serves(ds, d) \/ (s.pc = "vector" /\ d = s.dels[1])

BlankInv ==
    Waits => /\ Stands(sync, docs) /\ Walked(redact, docs) /\ BlankIn(docs)
             /\ NoFaults => Reached(sync, docs)
             /\ NoFaults /\ VectorsWork => Mirrors(sync, docs, vecs)

Sound == Inv /\ Waits /\ Stands(sync, docs) /\ (NoFaults => Reached(sync, docs))
Goes == Stands(sync', docs') /\ (NoFaults => Reached(sync', docs'))

LEMMA DeclaredOK ==
    ASSUME RowsOK, NEW p \in Paths
    PROVE  /\ Declared(docs, p) = Count(p) /\ Declared(docs, p) \in 0..MaxChunks
           /\ docs[<<p, 0>>] \in Row \cup {NONE} /\ <<p, 0>> \in Ids /\ Whole(p) = <<p, 0>>
BY CountOK, WholeOK DEF Declared, Count, Whole, RowsOK

\* A tree lists every chunk that is declared and is not kept.
LEMMA TreeLists ==
    ASSUME NEW p \in Paths, NEW count \in 0..MaxChunks, NEW s, s.dels = Tree(p, count),
           p \notin DOMAIN s.cands
    PROVE  /\ Felled(s) /\ s.dels # <<>> /\ Trunk(s) = p
           /\ \A i \in 1..count : ~Tomb(<<p, i>>) => Listed(s, <<p, i>>)
<1> DEFINE chunks == [i \in 1..count |-> IF KeptAsTombstone(<<p, i>>) THEN NONE ELSE <<p, i>>]
<1>1. chunks \in Seq({NONE} \cup (Paths \X Nat)) /\ Len(chunks) = count /\ DOMAIN chunks = 1..count
  BY SpansOK
<1>2. \A i \in 1..count : /\ chunks[i] = NONE \/ chunks[i] = <<p, i>>
                          /\ ~Tomb(<<p, i>>) => chunks[i] = <<p, i>>
  BY DEF KeptAsTombstone
<1>3. s.dels = Append(chunks, <<p, 0>>)
  BY DEF Tree, Whole
<1> HIDE DEF chunks
<1>4. /\ Len(s.dels) = count + 1 /\ DOMAIN s.dels = 1..(count + 1) /\ s.dels # <<>>
      /\ s.dels[count + 1] = <<p, 0>> /\ \A k \in 1..count : s.dels[k] = chunks[k]
  BY <1>1, <1>3, SpansOK
<1>5. Trunk(s) = p
  BY <1>4 DEF Trunk
<1>6. \A k \in 1..(count + 1) : s.dels[k] # NONE => s.dels[k][1] = p /\ (k # count + 1 => s.dels[k][2] # 0)
  <2> SUFFICES ASSUME NEW k \in 1..(count + 1), s.dels[k] # NONE
               PROVE  s.dels[k][1] = p /\ (k # count + 1 => s.dels[k][2] # 0)
    OBVIOUS
  <2>1. CASE k = count + 1
    BY <1>4, <2>1
  <2>2. CASE k # count + 1
    <3>1. k \in 1..count /\ k # 0
      BY <2>2, SpansOK
    <3>2. s.dels[k] = <<p, k>>
      BY <1>2, <1>4, <3>1
    <3> QED
      BY <3>1, <3>2
  <2> QED
    BY <2>1, <2>2
<1>7. Felled(s)
  BY <1>4, <1>5, <1>6 DEF Felled
<1>8. \A i \in 1..count : ~Tomb(<<p, i>>) => Listed(s, <<p, i>>)
  BY <1>2, <1>4, SpansOK DEF Listed
<1> QED
  BY <1>4, <1>5, <1>7, <1>8

\* A surplus lists every chunk past the size that the old count declared.
LEMMA SurplusLists ==
    ASSUME NEW p \in Paths, NEW n \in 0..MaxChunks, sync.old \in 0..MaxChunks,
           NEW s, s.dels = SurplusBeforeEnd(p, n)
    PROVE  /\ \A k \in DOMAIN s.dels : s.dels[k][2] # 0
           /\ \A i \in (n + 1)..sync.old : Listed(s, <<p, i>>)
<1> DEFINE i == Larger(n, sync.old) + 1
           stop == FirstAbsent(p, i) - 1
<1>1. i \in 0..(MaxChunks + 1) /\ i > n /\ i > sync.old
  BY SpansOK DEF Larger
<1>2. FirstAbsent(p, i) \in i..(MaxChunks + 1)
  BY <1>1, ProbeEnds
<1> HIDE DEF i
<1>3. stop \in 0..MaxChunks /\ stop >= n /\ stop >= sync.old
  BY <1>1, <1>2, SpansOK
<1>4. s.dels = [k \in 1..(stop - n) |-> <<p, stop + 1 - k>>]
  BY DEF SurplusBeforeEnd, Downward, i
<1> HIDE DEF stop
<1>5. \A k \in 1..(stop - n) : s.dels[k] = <<p, stop + 1 - k>> /\ stop + 1 - k # 0
  BY <1>3, <1>4, SpansOK
<1>6. DOMAIN s.dels = 1..(stop - n)
  BY <1>4
<1>7. ASSUME NEW j \in (n + 1)..sync.old PROVE Listed(s, <<p, j>>)
  <2>1. stop + 1 - j \in 1..(stop - n) /\ stop + 1 - (stop + 1 - j) = j
    BY <1>3, SpansOK
  <2> QED
    BY <1>5, <1>6, <2>1 DEF Listed
<1> QED
  BY <1>5, <1>6, <1>7

\* Every chunk that is served is declared.
Plain(ds) == \A p \in Paths, i \in 1..MaxChunks : Serves(ds, <<p, i>>) => i <= Declared(ds, p)

LEMMA PlainOf ==
    ASSUME NEW s, NEW ds, Reached(s, ds), s.pc \notin Chunking \cup {"probe", "surplus", "vector"}
    PROVE  Plain(ds)
BY DEF Reached, Plain, Clearing

LEMMA ReachedOf ==
    ASSUME NEW s, NEW ds, Plain(ds), ~Felling(s) \/ s.dels = <<>>
    PROVE  Reached(s, ds)
BY DEF Reached, Plain

\* Between records nothing but the candidates is held.
LEMMA RestStands ==
    ASSUME NEW e, NEW ds, e.pc \in {"idle", "plan", "done", "prune"}, e.path = NONE,
           e.pc = "plan" => e.old = 0, StandsCands(e, ds)
    PROVE  Stands(e, ds) /\ ~Felling(e)
BY DEF Stands, StandsParent, StandsChunk, StandsDels, StandsOld, Clearing, Felling, Landing,
   Chunking, Working

\* A record that ends.
LEMMA EndedIs ==
    ASSUME NEW s, SyncOK(s)
    PROVE  LET e == EndOfRecord(s) IN e.old = 0 /\ e.dels = <<>>
BY DEF SyncOK, Locals, EndOfRecord

LEMMA NoCands ==
    ASSUME NEW s, NEW ds, DOMAIN s.cands = {} PROVE StandsCands(s, ds)
BY DEF StandsCands

LEMMA StartStands == ASSUME Sound, Start PROVE Goes
<1>1. docs' = docs /\ sync.pc \in {"idle", "done"}
  BY DEF Start, stores, Resting
<1>2. sync'.pc = "plan" /\ sync'.path = NONE /\ DOMAIN sync'.cands = {}
  BY StartLocal DEF Sound, Inv
<1>3. sync'.old = 0
  BY DEF Start, Idle
<1>4. Stands(sync', docs) /\ ~Felling(sync')
  BY <1>2, <1>3, NoCands, RestStands
<1>5. NoFaults => Reached(sync', docs)
  BY <1>1, <1>4, PlainOf, ReachedOf DEF Sound, Chunking
<1> QED
  BY <1>1, <1>4, <1>5 DEF Goes

\* No put is refused: where writers wait, only a fault ends a run early.
LEMMA RaiseStands == ASSUME Sound, Raise PROVE Goes /\ ~NoFaults
<1>1. /\ SyncOK(sync) /\ docs' = docs /\ StandsParent(sync, docs) /\ StandsChunk(sync, docs)
      /\ StandsCands(sync, docs)
  BY DEF Sound, Inv, Raise, stores, Stands
<1>2. ~NoFaults
  <2>1. SUFFICES ASSUME sync.pc \in {"put", "write"}, Tomb(Target) PROVE FALSE
    BY DEF Raise, NoFaults, Refused
  <2>2. CASE sync.pc = "put"
    BY <1>1, <2>1, <2>2, TombIs DEF StandsParent, Target
  <2>3. CASE sync.pc = "write"
    BY <1>1, <2>1, <2>3, TombIs DEF StandsChunk, Target, Chunk
  <2> QED
    BY <2>1, <2>2, <2>3
<1>3. CASE sync' = Idle
  BY <1>1, <1>2, <1>3, IdleSync, NoCands, RestStands DEF Goes
<1>4. CASE sync.path # NONE /\ sync' = [EndOfRecord(sync) EXCEPT !.failed = @ \cup {sync.path}]
  <2> DEFINE d == EndOfRecord(sync)
  <2>1. d.pc = "plan" /\ d.path = NONE /\ d.cands = sync.cands /\ d.old = 0 /\ d \in Locals
    BY <1>1, EndsRecord, EndedIs DEF SyncOK
  <2> HIDE DEF d
  <2>2. sync'.pc = "plan" /\ sync'.path = NONE /\ sync'.cands = sync.cands /\ sync'.old = 0
    BY <1>4, <2>1 DEF Locals, d
  <2>3. DOMAIN sync'.cands = {}
    BY <1>1, <1>4, <2>2 DEF StandsCands
  <2> QED
    BY <1>1, <1>2, <2>2, <2>3, NoCands, RestStands DEF Goes
<1> QED
  BY <1>2, <1>3, <1>4 DEF Raise

LEMMA PlanStands == ASSUME Sound, NEW p \in Paths, Plan(p) PROVE Goes
<1>1. /\ SyncOK(sync) /\ RowsOK /\ docs' = docs /\ sync.pc = "plan" /\ sync.old = 0 /\ sync \in Locals
      /\ DOMAIN sync.cands = {} /\ sync.path = NONE
  BY DEF Sound, Inv, Plan, stores, Stands, StandsOld, StandsCands, SyncOK, SyncStates, Working
<1> DEFINE t == sync.records[p]
<1>2. CASE SkipRecord(p, t)
  <2>1. sync' = [sync EXCEPT !.todo = @ \ {p}]
    BY <1>2 DEF Plan
  <2>2. sync'.pc = "plan" /\ sync'.path = NONE /\ sync'.old = 0 /\ DOMAIN sync'.cands = {}
    BY <1>1, <2>1 DEF Locals
  <2>3. Stands(sync', docs) /\ ~Felling(sync')
    BY <2>2, NoCands, RestStands
  <2> QED
    BY <1>1, <2>3, PlainOf, ReachedOf DEF Goes, Sound, Chunking
<1>3. CASE ~SkipRecord(p, t)
  <2>1. PICK a \in Actions(p, t) :
           sync' = [sync EXCEPT
                  !.pc = IF a[1] = "update" THEN "stored" ELSE "put",
                  !.path = p, !.action = a[1], !.from = a[2],
                  !.moved = IF a[1] = "move" THEN @ \cup {a[2]} ELSE @]
    BY <1>3 DEF Plan
  <2>2. a[1] = "update" <=> docs[Whole(p)] # NONE
    BY <1>1, PlanChoice
  <2>3. ~Tomb(Whole(p))
    BY <1>3 DEF SkipRecord
  <2>4. /\ sync'.path = p /\ sync'.action = a[1] /\ sync'.old = 0 /\ DOMAIN sync'.cands = {}
        /\ sync'.pc = IF a[1] = "update" THEN "stored" ELSE "put"
    BY <1>1, <2>1 DEF Locals
  <2>5. StandsParent(sync', docs)
    BY <2>2, <2>3, <2>4, TombIs DEF StandsParent, Declared, Landing, Chunking, Clearing
  <2>6. StandsChunk(sync', docs) /\ StandsDels(sync', docs) /\ ~Felling(sync')
    BY <2>4 DEF StandsChunk, StandsDels, Clearing, Felling
  <2>7. StandsOld(sync') /\ StandsCands(sync', docs)
    BY <2>4, NoCands DEF StandsOld
  <2> QED
    BY <1>1, <2>5, <2>6, <2>7, PlainOf, ReachedOf DEF Goes, Sound, Chunking, Stands
<1> QED
  BY <1>2, <1>3

LEMMA StoredStands == ASSUME Sound, ReadStored PROVE Goes
<1>1. /\ SyncOK(sync) /\ RowsOK /\ docs' = docs /\ sync.pc = "stored" /\ sync \in Locals
      /\ sync.path \in Paths /\ sync.path # NONE
      /\ DOMAIN sync.cands = {} /\ ~Buried(docs, <<sync.path, 0>>) /\ sync.action = "update"
  BY AtWork DEF Sound, Inv, ReadStored, stores, Stands, StandsOld, StandsCands, StandsParent, SyncOK,
     Working
<1>2. /\ sync'.pc = "put" /\ sync'.path = sync.path /\ sync'.old = Count(sync.path)
      /\ sync'.cands = sync.cands /\ sync'.action = sync.action
  BY <1>1 DEF ReadStored, Locals
<1>3. StandsParent(sync', docs)
  BY <1>1, <1>2, DeclaredOK DEF StandsParent, Landing, Chunking, Clearing
<1>4. StandsChunk(sync', docs) /\ StandsDels(sync', docs) /\ ~Felling(sync')
  BY <1>2 DEF StandsChunk, StandsDels, Clearing, Felling
<1>5. StandsOld(sync') /\ StandsCands(sync', docs)
  BY <1>1, <1>2, NoCands DEF StandsOld
<1> QED
  BY <1>1, <1>3, <1>4, <1>5, PlainOf, ReachedOf DEF Goes, Sound, Chunking, Stands

\* The locals a record keeps from its put to its end.
Keeps(s, e) == /\ e.path = s.path /\ e.records = s.records /\ e.cands = s.cands
               /\ e.action = s.action /\ e.old = s.old

LEMMA KeepsOld ==
    ASSUME NEW s, NEW e, NEW ds, NEW dt, Keeps(s, e), s.path # NONE, e.pc \notin {"plan", "stored"},
           StandsOld(s), StandsCands(s, ds)
    PROVE  StandsOld(e) /\ StandsCands(e, dt)
BY DEF Keeps, StandsOld, StandsCands

\* The parent is in place.
LEMMA LandStands ==
    ASSUME NEW s, NEW e, NEW ds, NEW dt, Keeps(s, e), s.path # NONE, e.pc \in Landing,
           StandsOld(s), StandsCands(s, ds),
           Serves(dt, <<s.path, 0>>), Declared(dt, s.path) = SizeOf(s), StandsChunk(e, dt)
    PROVE  Stands(e, dt) /\ ~Felling(e)
<1>1. StandsParent(e, dt)
  BY DEF StandsParent, Keeps, SizeOf, Landing, Chunking, Serves, Buried
<1>2. StandsDels(e, dt) /\ ~Felling(e)
  BY DEF StandsDels, Landing, Chunking, Clearing, Felling
<1>3. StandsOld(e) /\ StandsCands(e, dt)
  BY KeepsOld DEF Landing, Chunking
<1> QED
  BY <1>1, <1>2, <1>3 DEF Stands

\* What the record under way may still reach beyond its size.
Near(ds, p, n) ==
    \A x \in Paths, i \in 1..MaxChunks : Serves(ds, <<x, i>>) =>
        i <= Declared(ds, x) \/ (x = p /\ i <= n)

LEMMA NearOf ==
    ASSUME NEW s, NEW ds, Reached(s, ds), s.pc \in Chunking \cup {"probe"}
    PROVE  Near(ds, s.path, s.old)
BY DEF Reached, Near, Clearing, Chunking

LEMMA NearReached ==
    ASSUME NEW e, NEW ds, Near(ds, e.path, e.old),
           e.pc \in Chunking \cup {"probe"} \/ (e.pc = "whole" /\ e.old = 0)
    PROVE  Reached(e, ds)
BY DEF Reached, Near, Felling, Chunking

LEMMA GuardStands == ASSUME Sound, Guard PROVE Goes
<1>1. /\ SyncOK(sync) /\ RowsOK /\ docs' = docs /\ sync.pc \in {"put", "write"} /\ sync \in Locals
      /\ sync.path \in Paths /\ sync.path # NONE
      /\ Stands(sync, docs) /\ DOMAIN sync.cands = {}
  BY AtWork DEF Sound, Inv, Guard, stores, Stands, StandsCands, SyncOK, Working
<1>2. /\ Keeps(sync, sync') /\ sync'.next = sync.next
      /\ sync'.pc = IF sync.pc = "put" THEN "putting" ELSE "writing"
  BY <1>1 DEF Guard, Locals, Keeps
<1>3. CASE sync.pc = "put"
  <2>1. sync'.pc = "putting"
    BY <1>2, <1>3
  <2>2. StandsParent(sync', docs)
    BY <1>1, <1>2, <1>3, <2>1 DEF Stands, StandsParent, Landing, Chunking, Clearing, Keeps
  <2>3. StandsChunk(sync', docs) /\ StandsDels(sync', docs) /\ ~Felling(sync')
    BY <2>1 DEF StandsChunk, StandsDels, Clearing, Felling
  <2>4. StandsOld(sync') /\ StandsCands(sync', docs)
    BY <1>1, <1>2, <2>1, KeepsOld DEF Stands
  <2> QED
    BY <1>1, <1>3, <2>2, <2>3, <2>4, PlainOf, ReachedOf DEF Goes, Sound, Chunking, Stands
<1>4. CASE sync.pc = "write"
  <2>1. sync'.pc = "writing"
    BY <1>2, <1>4
  <2>2. StandsChunk(sync', docs)
    BY <1>1, <1>2, <1>4, <2>1 DEF Stands, StandsChunk, Keeps
  <2>3. Stands(sync', docs)
    BY <1>1, <1>2, <1>4, <2>1, <2>2, LandStands DEF Stands, StandsParent, Landing, Chunking
  <2>4. NoFaults => Reached(sync', docs)
    BY <1>2, <1>4, <2>1, NearOf, NearReached DEF Sound, Chunking, Keeps
  <2> QED
    BY <1>1, <2>3, <2>4 DEF Goes
<1> QED
  BY <1>1, <1>3, <1>4

\* A chunk is done with.
LEMMA NextIs ==
    ASSUME SyncOK(sync), sync.pc \in Chunking, NEW e, e = NextChunk(sync)
    PROVE  /\ Keeps(sync, e) /\ e.pc \in {"chunk", "probe", "whole"}
           /\ e.pc = "whole" => sync.action # "update"
BY DEF SyncOK, Locals, NextChunk, Keeps, AfterChunks

LEMMA NextStands ==
    ASSUME SyncOK(sync), sync.pc \in Chunking, NEW e, e = NextChunk(sync), NEW ds, NEW dt,
           StandsOld(sync), StandsCands(sync, ds),
           Serves(dt, <<sync.path, 0>>), Declared(dt, sync.path) = SizeOf(sync)
    PROVE  Stands(e, dt) /\ (Near(dt, sync.path, sync.old) => Reached(e, dt))
<1>1. /\ Keeps(sync, e) /\ e.pc \in {"chunk", "probe", "whole"}
      /\ e.pc = "whole" => sync.action # "update"
  BY NextIs
<1>2. sync.path # NONE
  BY DEF SyncOK, Chunking, Working
<1>3. StandsChunk(e, dt)
  BY <1>1 DEF StandsChunk
<1>4. Stands(e, dt)
  BY <1>1, <1>2, <1>3, LandStands DEF Landing, Chunking
<1>5. e.pc = "whole" => e.old = 0
  BY <1>1, <1>2 DEF Keeps, StandsOld
<1>6. Near(dt, sync.path, sync.old) => Reached(e, dt)
  BY <1>1, <1>5, NearReached DEF Keeps, Chunking
<1> QED
  BY <1>4, <1>6

LEMMA ReadStands == ASSUME Sound, ReadChunk PROVE Goes
<1>1. /\ SyncOK(sync) /\ docs' = docs /\ sync.pc = "chunk" /\ sync \in Locals /\ sync.path # NONE
      /\ StandsOld(sync) /\ StandsCands(sync, docs)
      /\ Serves(docs, <<sync.path, 0>>) /\ Declared(docs, sync.path) = SizeOf(sync)
      /\ (NoFaults => Near(docs, sync.path, sync.old))
  BY NearOf DEF Sound, Inv, ReadChunk, stores, Stands, StandsParent, SyncOK, Working, Landing, Chunking
<1>2. CASE sync' = NextChunk(sync)
  BY <1>1, <1>2, NextStands DEF Goes, Chunking
<1>3. CASE ~Tomb(Chunk) /\ sync' = [sync EXCEPT !.pc = "write", !.row = docs[Chunk]]
  <2>1. sync'.pc = "write" /\ Keeps(sync, sync') /\ sync'.next = sync.next
    BY <1>1, <1>3 DEF Locals, Keeps
  <2>2. StandsChunk(sync', docs)
    BY <1>3, <2>1, TombIs DEF StandsChunk, Chunk, Keeps
  <2>3. Stands(sync', docs)
    BY <1>1, <2>1, <2>2, LandStands DEF Landing, Chunking
  <2> QED
    BY <1>1, <2>1, <2>3, NearReached DEF Goes, Keeps, Chunking
<1> QED
  BY <1>2, <1>3 DEF ReadChunk

LEMMA EmbedStands == ASSUME Sound, EmbedChunk PROVE Goes
<1>1. /\ SyncOK(sync) /\ docs' = docs /\ sync.pc = "embed"
      /\ StandsOld(sync) /\ StandsCands(sync, docs)
      /\ Serves(docs, <<sync.path, 0>>) /\ Declared(docs, sync.path) = SizeOf(sync)
      /\ (NoFaults => Near(docs, sync.path, sync.old))
  BY NearOf DEF Sound, Inv, EmbedChunk, Stands, StandsParent, Landing, Chunking
<1>2. sync' = NextChunk(sync)
  BY DEF EmbedChunk
<1> QED
  BY <1>1, <1>2, NextStands DEF Goes, Chunking

LEMMA PutStands == ASSUME Sound, PutParent PROVE Goes
<1>1. /\ SyncOK(sync) /\ RowsOK /\ sync.pc = "putting" /\ sync \in Locals /\ sync.path # NONE
      /\ sync.path \in Paths /\ Stands(sync, docs) /\ sync.old = Declared(docs, sync.path)
      /\ (NoFaults => Plain(docs))
  BY PlainOf, AtWork DEF Sound, Inv, PutParent, Stands, StandsParent, SyncOK, Working, Chunking
<1> DEFINE row == [text |-> Text, count |-> Size, tag |-> ParentTag, tomb |-> FALSE]
           d == <<sync.path, 0>>
<1>2. docs' = [docs EXCEPT ![d] = row] /\ d \in Ids
  BY <1>1, DeclaredOK DEF PutParent, PutDocument, Whole
<1>3. row # NONE /\ row.count = SizeOf(sync) /\ ~row.tomb
  <2>1. row \in Row
    BY <1>1, TargetIs, ParentTagOK DEF Row
  <2> QED
    BY <2>1, CorpusAssumption DEF SizeOf, Size, Text
<1> HIDE DEF row
<1>4. docs'[d] = row /\ \A e \in Ids \ {d} : docs'[e] = docs[e]
  BY <1>1, <1>2 DEF RowsOK
<1>5. Serves(docs', d) /\ Declared(docs', sync.path) = SizeOf(sync)
  BY <1>3, <1>4 DEF Serves, Declared
<1>6. \A x \in Paths : x # sync.path => Declared(docs', x) = Declared(docs, x)
  BY <1>4, DeclaredOK, <1>1 DEF Declared
<1>7. \A x \in Paths, i \in 1..MaxChunks : docs'[<<x, i>>] = docs[<<x, i>>]
  BY <1>4, SpansOK DEF Ids
<1>8. NoFaults => Near(docs', sync.path, sync.old)
  BY <1>1, <1>6, <1>7 DEF Near, Plain, Serves
<1>9. /\ Keeps(sync, sync') /\ sync'.pc \in {"chunk", "probe", "whole"}
      /\ sync'.pc = "whole" => sync.action # "update"
  BY <1>1 DEF PutParent, Locals, Keeps, AfterChunks
<1>10. Stands(sync', docs')
  BY <1>1, <1>5, <1>9, LandStands DEF Stands, StandsChunk, Landing, Chunking
<1>11. sync'.pc = "whole" => sync'.old = 0
  BY <1>1, <1>9 DEF Keeps, Stands, StandsOld
<1> QED
  BY <1>8, <1>9, <1>10, <1>11, NearReached DEF Goes, Keeps, Chunking

LEMMA WriteStands == ASSUME Sound, WriteChunk PROVE Goes
<1>1. /\ SyncOK(sync) /\ RowsOK /\ sync.pc = "writing" /\ sync \in Locals /\ sync.path # NONE
      /\ sync.path \in Paths /\ StandsOld(sync) /\ StandsCands(sync, docs)
      /\ Serves(docs, <<sync.path, 0>>) /\ Declared(docs, sync.path) = SizeOf(sync)
      /\ (NoFaults => Near(docs, sync.path, sync.old))
      /\ sync.next \in 1..SizeOf(sync) /\ SizeOf(sync) \in 0..MaxChunks
  BY NearOf, AtWork DEF Sound, Inv, WriteChunk, Stands, StandsParent, SyncOK, Working, Landing,
     Chunking, SizeOf
<1>2. /\ Chunk = <<sync.path, sync.next>> /\ \A e \in Ids \ {Chunk} : docs'[e] = docs[e]
      /\ docs'[Chunk] \in Row /\ ~docs'[Chunk].tomb
  BY <1>1, SyncPuts DEF Chunk
<1>3. \A x \in Paths : docs'[<<x, 0>>] = docs[<<x, 0>>]
  <2>0. sync.next # 0
    BY <1>1, SpansOK
  <2>1. \A x \in Paths : <<x, 0>> \in Ids /\ <<x, 0>> # Chunk
    BY <1>1, <1>2, <2>0, DeclaredOK
  <2> QED
    BY <1>2, <2>1
<1>4. /\ \A x \in Paths : Declared(docs', x) = Declared(docs, x)
      /\ Serves(docs', <<sync.path, 0>>)
  BY <1>1, <1>3 DEF Declared, Serves
<1>5. Serves(docs', Chunk)
  BY <1>2, CorpusAssumption DEF Serves
<1>6. NoFaults => Near(docs', sync.path, sync.old)
  <2> SUFFICES ASSUME NoFaults, NEW x \in Paths, NEW i \in 1..MaxChunks, Serves(docs', <<x, i>>)
               PROVE  i <= Declared(docs', x) \/ (x = sync.path /\ i <= sync.old)
    BY DEF Near
  <2>1. CASE <<x, i>> = Chunk
    BY <1>1, <1>2, <1>4, <2>1
  <2>2. CASE <<x, i>> # Chunk
    <3>1. docs'[<<x, i>>] = docs[<<x, i>>]
      BY <1>2, <2>2, SpansOK DEF Ids
    <3> QED
      BY <1>1, <1>4, <3>1 DEF Near, Serves
  <2> QED
    BY <2>1, <2>2
<1>7. CASE sync' = NextChunk(sync)
  BY <1>1, <1>4, <1>6, <1>7, NextStands DEF Goes, Chunking
<1>8. CASE sync' = [sync EXCEPT !.pc = "embed"]
  <2>1. sync'.pc = "embed" /\ Keeps(sync, sync') /\ sync'.next = sync.next
    BY <1>1, <1>8 DEF Locals, Keeps
  <2>2. StandsChunk(sync', docs')
    BY <1>2, <1>5, <2>1 DEF StandsChunk, Keeps
  <2>3. Stands(sync', docs')
    BY <1>1, <1>4, <2>1, <2>2, LandStands DEF Landing, Chunking
  <2> QED
    BY <1>6, <2>1, <2>3, NearReached DEF Goes, Keeps, Chunking
<1> QED
  BY <1>7, <1>8 DEF WriteChunk

\* The surplus of a document whose parent is in place.
LEMMA ClearStands ==
    ASSUME NEW s, NEW e, NEW ds, NEW dt, Keeps(s, e), s.path # NONE, Clearing(e),
           StandsOld(s), StandsCands(s, ds),
           Serves(dt, <<s.path, 0>>), Declared(dt, s.path) = SizeOf(s),
           e.pc = "vector" => dt[e.dels[1]] = NONE, \A k \in DOMAIN e.dels : e.dels[k][2] # 0
    PROVE  Stands(e, dt) /\ ~Felling(e)
<1>1. ~Felling(e) /\ e.pc \in {"surplus", "vector"}
  BY DEF Clearing, Felling
<1>2. StandsParent(e, dt) /\ StandsChunk(e, dt)
  BY <1>1 DEF StandsParent, StandsChunk, Keeps, SizeOf
<1>3. StandsDels(e, dt)
  BY <1>1 DEF StandsDels
<1>4. StandsOld(e) /\ StandsCands(e, dt)
  BY <1>1, KeepsOld
<1> QED
  BY <1>1, <1>2, <1>3, <1>4 DEF Stands

LEMMA ProbeStands == ASSUME Sound, ProbeSurplus PROVE Goes
<1>1. /\ SyncOK(sync) /\ RowsOK /\ docs' = docs /\ sync.pc = "probe" /\ sync \in Locals /\ sync.path # NONE
      /\ sync.path \in Paths /\ StandsOld(sync) /\ StandsCands(sync, docs)
      /\ Serves(docs, <<sync.path, 0>>) /\ Declared(docs, sync.path) = SizeOf(sync)
      /\ (NoFaults => Near(docs, sync.path, sync.old))
      /\ SizeOf(sync) \in 0..MaxChunks /\ sync.old \in 0..MaxChunks
  BY NearOf, AtWork, SyncTypes DEF Sound, Inv, ProbeSurplus, stores, Stands, StandsParent, SyncOK,
     Working, Landing, SizeOf
<1>2. /\ sync'.pc = "surplus" /\ Keeps(sync, sync')
      /\ sync'.dels = SurplusBeforeEnd(sync.path, SizeOf(sync))
  BY <1>1 DEF ProbeSurplus, Locals, Keeps, Size, SizeOf, Text
<1>3. /\ \A k \in DOMAIN sync'.dels : sync'.dels[k][2] # 0
      /\ \A i \in (SizeOf(sync) + 1)..sync.old : Listed(sync', <<sync.path, i>>)
  BY <1>1, <1>2, SurplusLists
<1>4. Clearing(sync')
  BY <1>2 DEF Clearing
<1>5. Stands(sync', docs) /\ ~Felling(sync')
  BY <1>1, <1>2, <1>3, <1>4, ClearStands
<1>6. NoFaults => Reached(sync', docs)
  <2> SUFFICES ASSUME NoFaults, NEW x \in Paths, NEW i \in 1..MaxChunks, Serves(docs, <<x, i>>),
                      ~(i <= Declared(docs, x))
               PROVE  Listed(sync', <<x, i>>)
    BY <1>4, <1>5 DEF Reached
  <2>1. x = sync.path /\ i <= sync.old
    BY <1>1 DEF Near
  <2>2. i \in (SizeOf(sync) + 1)..sync.old
    BY <1>1, <2>1
  <2> QED
    BY <1>3, <2>1, <2>2
<1> QED
  BY <1>1, <1>5, <1>6 DEF Goes

LEMMA RestOf ==
    ASSUME NEW X, NEW q \in Seq(X), q # <<>>, NEW t, t = Tail(q)
    PROVE  /\ Len(q) \in Nat \ {0} /\ DOMAIN q = 1..Len(q)
           /\ Len(t) = Len(q) - 1 /\ DOMAIN t = 1..Len(t)
           /\ \A k \in 1..Len(t) : t[k] = q[k + 1]
           /\ t # <<>> => Len(t) # 0
OBVIOUS

\* The rest of a list: its first is off it.
LEMMA TailLists ==
    ASSUME NEW s, NEW e, s.dels \in Seq(Ids \cup {NONE}), s.dels # <<>>, e.dels = Tail(s.dels)
    PROVE  /\ \A d : Listed(s, d) /\ d # s.dels[1] => Listed(e, d)
           /\ Felled(s) /\ e.cands = s.cands /\ e.dels # <<>> => Felled(e) /\ Trunk(e) = Trunk(s)
           /\ (\A k \in DOMAIN s.dels : s.dels[k][2] # 0) => \A k \in DOMAIN e.dels : e.dels[k][2] # 0
<1>1. /\ Len(s.dels) \in Nat \ {0} /\ DOMAIN s.dels = 1..Len(s.dels)
      /\ Len(e.dels) = Len(s.dels) - 1 /\ DOMAIN e.dels = 1..Len(e.dels)
      /\ \A k \in 1..Len(e.dels) : e.dels[k] = s.dels[k + 1]
      /\ e.dels # <<>> => Len(e.dels) # 0
  BY RestOf
<1>2. ASSUME NEW d, Listed(s, d), d # s.dels[1] PROVE Listed(e, d)
  <2>1. PICK k \in 1..Len(s.dels) : s.dels[k] = d /\ k # 1
    BY <1>1, <1>2 DEF Listed
  <2>2. k - 1 \in 1..Len(e.dels) /\ (k - 1) + 1 = k
    BY <1>1, <2>1
  <2>3. e.dels[k - 1] = d
    BY <1>1, <2>1, <2>2
  <2> QED
    BY <1>1, <2>2, <2>3 DEF Listed
<1>3. ASSUME Felled(s), e.cands = s.cands, e.dels # <<>> PROVE Felled(e) /\ Trunk(e) = Trunk(s)
  <2>1. e.dels[Len(e.dels)] = s.dels[Len(s.dels)]
    BY <1>1, <1>3
  <2>2. Trunk(e) = Trunk(s)
    BY <2>1 DEF Trunk
  <2>3. \A k \in DOMAIN e.dels : k + 1 \in DOMAIN s.dels /\ (k # Len(e.dels) => k + 1 # Len(s.dels))
    BY <1>1
  <2> QED
    BY <1>1, <1>3, <2>1, <2>2, <2>3 DEF Felled
<1>4. ASSUME \A k \in DOMAIN s.dels : s.dels[k][2] # 0 PROVE \A k \in DOMAIN e.dels : e.dels[k][2] # 0
  <2>1. \A k \in DOMAIN e.dels : k + 1 \in DOMAIN s.dels
    BY <1>1
  <2> QED
    BY <1>1, <1>4, <2>1
<1> QED
  BY <1>2, <1>3, <1>4

LEMMA SurplusStands == ASSUME Sound, DeleteSurplus PROVE Goes
<1>1. /\ SyncOK(sync) /\ RowsOK /\ sync.pc = "surplus" /\ sync \in Locals /\ sync.path # NONE
      /\ sync.path \in Paths /\ Own(sync) /\ sync.dels \in Seq(Ids \cup {NONE})
  BY AtWork, SyncTypes DEF Sound, Inv, DeleteSurplus, SyncOK, Working
<1>2. /\ StandsOld(sync) /\ StandsCands(sync, docs) /\ Clearing(sync) /\ ~Felling(sync)
      /\ Serves(docs, <<sync.path, 0>>) /\ Declared(docs, sync.path) = SizeOf(sync)
      /\ \A k \in DOMAIN sync.dels : sync.dels[k][2] # 0
  BY <1>1 DEF Sound, Stands, StandsParent, StandsDels, Clearing, Felling
<1>3. NoFaults => \A x \in Paths, i \in 1..MaxChunks : Serves(docs, <<x, i>>) =>
         i <= Declared(docs, x) \/ Listed(sync, <<x, i>>)
  BY <1>1 DEF Sound, Reached, Chunking
<1>4. CASE sync.dels = <<>> /\ docs' = docs
  <2>1. sync'.pc = "whole" /\ Keeps(sync, sync')
    BY <1>1, <1>4 DEF DeleteSurplus, Locals, Keeps
  <2>2. Stands(sync', docs) /\ ~Felling(sync')
    BY <1>1, <1>2, <2>1, LandStands DEF Landing, StandsChunk
  <2>3. \A d : ~Listed(sync, d)
    BY <1>4 DEF Listed
  <2>4. NoFaults => Reached(sync', docs)
    BY <1>3, <2>2, <2>3, ReachedOf DEF Plain
  <2> QED
    BY <1>4, <2>2, <2>4 DEF Goes
<1>5. CASE sync.dels # <<>>
  <2>1. /\ Head(sync.dels) = sync.dels[1] /\ 1 \in DOMAIN sync.dels /\ sync.dels[1] \in Ids
        /\ sync.dels[1][2] # 0
    BY <1>1, <1>2, <1>5, TailOf DEF Own
  <2>2. CASE Tomb(sync.dels[1]) /\ docs' = docs /\ sync' = [sync EXCEPT !.dels = Tail(@)]
    <3>1. sync'.pc = "surplus" /\ Keeps(sync, sync') /\ sync'.dels = Tail(sync.dels)
      BY <1>1, <2>2 DEF Locals, Keeps
    <3>2. /\ \A d : Listed(sync, d) /\ d # sync.dels[1] => Listed(sync', d)
          /\ \A k \in DOMAIN sync'.dels : sync'.dels[k][2] # 0
      BY <1>1, <1>2, <1>5, <3>1, TailLists
    <3>3. Clearing(sync')
      BY <3>1 DEF Clearing
    <3>4. Stands(sync', docs) /\ ~Felling(sync')
      BY <1>1, <1>2, <3>1, <3>2, <3>3, ClearStands
    <3>5. NoFaults => Reached(sync', docs)
      BY <1>3, <2>2, <3>2, <3>3, <3>4 DEF Reached, Serves, Tomb
    <3> QED
      BY <2>2, <3>4, <3>5 DEF Goes
  <2>3. CASE docs' = [docs EXCEPT ![sync.dels[1]] = NONE] /\ sync' = [sync EXCEPT !.pc = "vector"]
    <3>1. sync'.pc = "vector" /\ Keeps(sync, sync') /\ sync'.dels = sync.dels
      BY <1>1, <2>3 DEF Locals, Keeps
    <3>2. docs'[sync.dels[1]] = NONE /\ \A d \in Ids \ {sync.dels[1]} : docs'[d] = docs[d]
      BY <1>1, <2>1, <2>3 DEF RowsOK
    <3>3. Clearing(sync')
      BY <1>1, <2>1, <3>1 DEF Clearing, Felling, Own, Keeps
    <3>4. \A x \in Paths : docs'[<<x, 0>>] = docs[<<x, 0>>]
      <4>1. \A x \in Paths : <<x, 0>> \in Ids
        BY <1>1, DeclaredOK
      <4>2. \A x \in Paths : <<x, 0>> # sync.dels[1]
        BY <2>1
      <4> QED
        BY <3>2, <4>1, <4>2
    <3>5. /\ \A x \in Paths : Declared(docs', x) = Declared(docs, x)
          /\ Serves(docs', <<sync.path, 0>>)
      BY <1>1, <1>2, <3>4 DEF Declared, Serves
    <3>6. Stands(sync', docs') /\ ~Felling(sync')
      BY <1>1, <1>2, <3>1, <3>2, <3>3, <3>5, ClearStands
    <3>7. NoFaults => Reached(sync', docs')
      <4> SUFFICES ASSUME NoFaults, NEW x \in Paths, NEW i \in 1..MaxChunks, Serves(docs', <<x, i>>)
                   PROVE  i <= Declared(docs', x) \/ Listed(sync', <<x, i>>)
        BY <3>3, <3>6 DEF Reached
      <4>1. <<x, i>> \in Ids /\ <<x, i>> # sync.dels[1]
        BY <3>2, SpansOK DEF Ids, Serves
      <4>2. Serves(docs, <<x, i>>)
        BY <3>2, <4>1 DEF Serves
      <4> QED
        BY <1>3, <3>1, <3>5, <4>2 DEF Listed
    <3> QED
      BY <3>6, <3>7 DEF Goes
  <2> QED
    BY <1>5, <2>1, <2>2, <2>3 DEF DeleteSurplus, KeptAsTombstone
<1> QED
  BY <1>4, <1>5 DEF DeleteSurplus

LEMMA PlainFelling ==
    ASSUME NEW s, NEW ds, Reached(s, ds), Felling(s) PROVE Plain(ds)
BY DEF Reached, Plain, Clearing, Felling, Chunking

\* A document's rows go, its own row last.
LEMMA FellStands ==
    ASSUME NEW e, NEW dt, Felling(e), StandsOld(e), StandsCands(e, dt),
           e.pc = "vector" => dt[e.dels[1]] = NONE, e.dels # <<>> => Felled(e)
    PROVE  Stands(e, dt)
<1>1. e.pc \in {"tree", "vector"} /\ ~Clearing(e)
  BY DEF Felling, Clearing
<1> QED
  BY <1>1 DEF Stands, StandsParent, StandsChunk, StandsDels, Landing, Chunking

LEMMA FellReached ==
    ASSUME NEW e, NEW dt, Plain(dt),
           e.dels # <<>> => \A i \in 1..MaxChunks : Serves(dt, <<Trunk(e), i>>) => Listed(e, <<Trunk(e), i>>)
    PROVE  Reached(e, dt)
BY DEF Reached, Plain

LEMMA VectorStands == ASSUME Sound, DeleteVector PROVE Goes
<1>1. /\ SyncOK(sync) /\ RowsOK /\ docs' = docs /\ sync.pc = "vector" /\ sync \in Locals
      /\ sync.dels \in Seq(Ids \cup {NONE}) /\ sync.dels # <<>> /\ sync.dels[1] \in Ids
      /\ Head(sync.dels) = sync.dels[1]
  BY SyncTypes, TailOf DEF Sound, Inv, DeleteVector, SyncOK
<1>2. /\ Keeps(sync, sync') /\ sync'.dels = Tail(sync.dels)
      /\ sync'.pc = IF sync.dels[1][1] = sync.path THEN "surplus" ELSE "tree"
  BY <1>1 DEF DeleteVector, Locals, Keeps
<1>3. /\ StandsOld(sync) /\ StandsCands(sync, docs) /\ docs[sync.dels[1]] = NONE
  BY <1>1 DEF Sound, Stands, StandsDels
<1>4. \A d : Serves(docs, d) /\ Listed(sync, d) => Listed(sync', d)
  BY <1>1, <1>2, <1>3, TailLists DEF Serves
<1>5. CASE sync.dels[1][1] = sync.path
  <2>1. Clearing(sync) /\ ~Felling(sync) /\ Clearing(sync') /\ sync'.pc = "surplus"
    BY <1>1, <1>2, <1>5 DEF Clearing, Felling
  <2>2. /\ Serves(docs, <<sync.path, 0>>) /\ Declared(docs, sync.path) = SizeOf(sync)
        /\ \A k \in DOMAIN sync.dels : sync.dels[k][2] # 0
    BY <2>1 DEF Sound, Stands, StandsParent, StandsDels
  <2>3. \A k \in DOMAIN sync'.dels : sync'.dels[k][2] # 0
    BY <1>1, <1>2, <2>2, TailLists
  <2>4. sync.path # NONE
    BY <1>1, <1>5, PathOf
  <2>5. Stands(sync', docs) /\ ~Felling(sync')
    BY <1>2, <1>3, <2>1, <2>2, <2>3, <2>4, ClearStands
  <2>6. NoFaults => Reached(sync', docs)
    BY <1>1, <1>4, <2>1, <2>5 DEF Sound, Reached, Chunking
  <2> QED
    BY <1>1, <2>5, <2>6 DEF Goes
<1>6. CASE sync.dels[1][1] # sync.path
  <2>1. Felling(sync) /\ Felling(sync') /\ sync'.pc = "tree"
    BY <1>1, <1>2, <1>6 DEF Felling
  <2>2. Felled(sync)
    BY <1>1, <2>1 DEF Sound, Stands, StandsDels
  <2>3. sync'.dels # <<>> => Felled(sync') /\ Trunk(sync') = Trunk(sync)
    BY <1>1, <1>2, <2>2, TailLists DEF Keeps
  <2>4. StandsOld(sync') /\ StandsCands(sync', docs)
    BY <1>2, <1>3, <2>1 DEF Keeps, StandsOld, StandsCands
  <2>5. Stands(sync', docs)
    BY <2>1, <2>3, <2>4, FellStands
  <2>6. NoFaults => Reached(sync', docs)
    <3>1. NoFaults => Plain(docs)
      BY <2>1, PlainFelling DEF Sound
    <3>2. NoFaults => \A i \in 1..MaxChunks : Serves(docs, <<Trunk(sync), i>>) => Listed(sync, <<Trunk(sync), i>>)
      BY <1>1, <2>1 DEF Sound, Reached
    <3> QED
      BY <1>4, <2>3, <3>1, <3>2, FellReached
  <2> QED
    BY <1>1, <2>5, <2>6 DEF Goes
<1> QED
  BY <1>5, <1>6

\* A record that ends, in a step that leaves the rows alone.
LEMMA EndsStands ==
    ASSUME Sound, sync.path # NONE, docs' = docs, sync' = EndOfRecord(sync), NoFaults => Plain(docs)
    PROVE  Goes
<1>1. SyncOK(sync) /\ DOMAIN sync.cands = {}
  BY DEF Sound, Inv, Stands, StandsCands
<1>2. sync'.pc = "plan" /\ sync'.path = NONE /\ sync'.old = 0 /\ DOMAIN sync'.cands = {}
  BY <1>1, EndsRecord, EndedIs
<1>3. Stands(sync', docs) /\ ~Felling(sync')
  BY <1>2, NoCands, RestStands
<1> QED
  BY <1>3, ReachedOf DEF Goes

LEMMA WholeStands == ASSUME Sound, WholeVector PROVE Goes
<1>1. /\ SyncOK(sync) /\ docs' = docs /\ sync.pc = "whole" /\ sync \in Locals /\ sync.path # NONE
      /\ StandsOld(sync) /\ StandsCands(sync, docs) /\ (NoFaults => Plain(docs))
  BY PlainOf DEF Sound, Inv, WholeVector, Stands, SyncOK, Working, Chunking
<1>2. CASE sync' = EndOfRecord(sync)
  BY <1>1, <1>2, EndsStands
<1>3. CASE sync' = [sync EXCEPT !.pc = "retire"]
  <2>1. sync'.pc = "retire" /\ Keeps(sync, sync')
    BY <1>1, <1>3 DEF Locals, Keeps
  <2>2. StandsOld(sync') /\ StandsCands(sync', docs)
    BY <1>1, <2>1, KeepsOld
  <2>3. Stands(sync', docs) /\ ~Felling(sync')
    BY <2>1, <2>2 DEF Stands, StandsParent, StandsChunk, StandsDels, Landing, Chunking, Clearing,
       Felling
  <2> QED
    BY <1>1, <2>3, ReachedOf DEF Goes
<1> QED
  BY <1>2, <1>3 DEF WholeVector

\* A served row is no tombstone.
LEMMA ServesIs == \A d : Serves(docs, d) => ~Tomb(d)
BY DEF Serves, Tomb

LEMMA RetireStands == ASSUME Sound, Retire PROVE Goes
<1>1. /\ SyncOK(sync) /\ RowsOK /\ docs' = docs /\ sync.pc = "retire" /\ sync \in Locals
      /\ sync.path # NONE /\ sync.from \in Paths
      /\ StandsOld(sync) /\ StandsCands(sync, docs) /\ (NoFaults => Plain(docs))
  BY PlainOf, SyncTypes DEF Sound, Inv, Retire, stores, Stands, SyncOK, Working, Chunking
<1> DEFINE count == Count(sync.from)
<1>2. sync'.pc = "tree" /\ Keeps(sync, sync') /\ sync'.dels = Tree(sync.from, count)
  BY <1>1 DEF Retire, Locals, Keeps
<1>3. count \in 0..MaxChunks /\ count = Declared(docs, sync.from)
  BY <1>1, DeclaredOK
<1>4. sync.from \notin DOMAIN sync'.cands
  BY <1>1, <1>2 DEF Keeps, StandsCands
<1> HIDE DEF count
<1>5. /\ Felled(sync') /\ sync'.dels # <<>> /\ Trunk(sync') = sync.from
      /\ \A i \in 1..count : ~Tomb(<<sync.from, i>>) => Listed(sync', <<sync.from, i>>)
  BY <1>1, <1>2, <1>3, <1>4, TreeLists
<1>6. Felling(sync') /\ StandsOld(sync') /\ StandsCands(sync', docs)
  BY <1>1, <1>2, KeepsOld DEF Felling
<1>7. Stands(sync', docs)
  BY <1>2, <1>5, <1>6, FellStands
<1>8. NoFaults => Reached(sync', docs)
  <2> SUFFICES ASSUME NoFaults, NEW i \in 1..MaxChunks, Serves(docs, <<Trunk(sync'), i>>)
               PROVE  Listed(sync', <<Trunk(sync'), i>>)
    BY <1>1, FellReached
  <2>1. i \in 1..count /\ ~Tomb(<<sync.from, i>>)
    BY <1>1, <1>3, <1>5, ServesIs DEF Plain
  <2> QED
    BY <1>5, <2>1
<1> QED
  BY <1>1, <1>7, <1>8 DEF Goes

LEMMA TreeStands == ASSUME Sound, DeleteTree PROVE Goes
<1>1. /\ SyncOK(sync) /\ RowsOK /\ sync.pc = "tree" /\ sync \in Locals
      /\ sync.dels \in Seq(Ids \cup {NONE}) /\ Felling(sync) /\ Foreign(sync)
      /\ StandsOld(sync) /\ StandsCands(sync, docs) /\ (NoFaults => Plain(docs))
  BY SyncTypes, PlainFelling DEF Sound, Inv, DeleteTree, Stands, SyncOK, Felling
<1>2. CASE sync.dels = <<>> /\ sync.path # NONE
  <2>1. sync' = EndOfRecord(sync) /\ docs' = docs
    BY <1>2 DEF DeleteTree
  <2> QED
    BY <1>1, <1>2, <2>1, EndsStands
<1>3. CASE sync.dels = <<>> /\ sync.path = NONE
  <2>1. sync'.pc = "prune" /\ sync'.path = NONE /\ sync'.cands = sync.cands /\ docs' = docs
    BY <1>1, <1>3 DEF DeleteTree, Locals
  <2>2. StandsCands(sync', docs)
    BY <1>1, <2>1 DEF StandsCands
  <2>3. Stands(sync', docs) /\ ~Felling(sync')
    BY <2>1, <2>2, RestStands
  <2> QED
    BY <1>1, <2>1, <2>3, ReachedOf DEF Goes
<1>4. CASE sync.dels # <<>>
  <2>1. /\ Felled(sync) /\ Head(sync.dels) = sync.dels[1] /\ 1 \in DOMAIN sync.dels
        /\ sync.dels[1] \in Ids \cup {NONE}
    BY <1>1, <1>4, TailOf DEF Sound, Stands, StandsDels
  <2>2. NoFaults => \A i \in 1..MaxChunks :
           Serves(docs, <<Trunk(sync), i>>) => Listed(sync, <<Trunk(sync), i>>)
    BY <1>1, <1>4 DEF Sound, Reached
  <2>3. CASE sync.dels[1] = NONE
    <3>1. docs' = docs /\ sync'.pc = "tree" /\ Keeps(sync, sync') /\ sync'.dels = Tail(sync.dels)
      BY <1>1, <1>4, <2>1, <2>3 DEF DeleteTree, Locals, Keeps
    <3>2. /\ \A d : Listed(sync, d) /\ d # sync.dels[1] => Listed(sync', d)
          /\ sync'.dels # <<>> => Felled(sync') /\ Trunk(sync') = Trunk(sync)
      BY <1>1, <1>4, <2>1, <3>1, TailLists DEF Keeps
    <3>3. Felling(sync') /\ StandsOld(sync') /\ StandsCands(sync', docs)
      BY <1>1, <3>1 DEF Felling, Keeps, StandsOld, StandsCands
    <3>4. Stands(sync', docs)
      BY <3>1, <3>2, <3>3, FellStands
    <3>5. NoFaults => Reached(sync', docs)
      <4> SUFFICES ASSUME NoFaults, sync'.dels # <<>>, NEW i \in 1..MaxChunks,
                          Serves(docs, <<Trunk(sync'), i>>)
                   PROVE  Listed(sync', <<Trunk(sync'), i>>)
        BY <1>1, FellReached
      <4>1. Listed(sync, <<Trunk(sync), i>>) /\ Trunk(sync') = Trunk(sync)
        BY <2>2, <3>2
      <4>2. <<Trunk(sync), i>> # sync.dels[1]
        <5>1. Trunk(sync) \in Paths /\ i \in 0..MaxChunks
          BY <2>1, SpansOK DEF Felled
        <5> QED
          BY <2>3, <5>1, IdOf, PathOf
      <4> QED
        BY <3>2, <4>1, <4>2
    <3> QED
      BY <3>1, <3>4, <3>5 DEF Goes
  <2>4. CASE sync.dels[1] # NONE
    <3>1. /\ docs' = [docs EXCEPT ![sync.dels[1]] = NONE] /\ sync.dels[1] \in Ids
          /\ sync'.pc = "vector" /\ Keeps(sync, sync') /\ sync'.dels = sync.dels
      BY <1>1, <1>4, <2>1, <2>4 DEF DeleteTree, Locals, Keeps
    <3>2. docs'[sync.dels[1]] = NONE /\ \A d \in Ids \ {sync.dels[1]} : docs'[d] = docs[d]
      BY <1>1, <3>1 DEF RowsOK
    <3>3. Felling(sync') /\ sync.dels[1][1] = Trunk(sync) /\ Trunk(sync') = Trunk(sync)
          /\ Felled(sync') /\ Trunk(sync) \in Paths \ DOMAIN sync.cands
      BY <1>1, <2>1, <2>4, <3>1 DEF Felling, Keeps, Foreign, Felled, Trunk
    <3>4. \A x \in Paths : x # Trunk(sync) => docs'[<<x, 0>>] = docs[<<x, 0>>]
      <4>1. \A x \in Paths : <<x, 0>> \in Ids
        BY <1>1, DeclaredOK
      <4>2. \A x \in Paths : x # Trunk(sync) => <<x, 0>> # sync.dels[1]
        BY <3>3
      <4> QED
        BY <3>2, <4>1, <4>2
    <3>5. StandsOld(sync')
      BY <1>1, <3>1 DEF Keeps, StandsOld
    <3>6. StandsCands(sync', docs')
      <4>1. DOMAIN sync.cands \subseteq Paths
        BY <1>1, SyncTypes, PartialIs
      <4>2. \A p \in DOMAIN sync.cands : sync.cands[p] = docs'[<<p, 0>>]
        BY <1>1, <3>3, <3>4, <4>1 DEF StandsCands
      <4> QED
        BY <1>1, <3>1, <4>2 DEF StandsCands, Keeps
    <3>7. Stands(sync', docs')
      BY <3>2, <3>1, <3>3, <3>5, <3>6, FellStands
    <3>8. \A x \in Paths, i \in 1..MaxChunks : Serves(docs', <<x, i>>) =>
             Serves(docs, <<x, i>>) /\ <<x, i>> # sync.dels[1]
      BY <3>2, SpansOK DEF Serves, Ids
    <3>9. NoFaults => Plain(docs')
      <4> SUFFICES ASSUME NoFaults, NEW x \in Paths, NEW i \in 1..MaxChunks, Serves(docs', <<x, i>>)
                   PROVE  i <= Declared(docs', x)
        BY DEF Plain
      <4>1. Serves(docs, <<x, i>>) /\ <<x, i>> # sync.dels[1] /\ i <= Declared(docs, x)
        BY <1>1, <3>8 DEF Plain
      <4>2. CASE docs'[<<x, 0>>] = docs[<<x, 0>>]
        BY <4>1, <4>2 DEF Declared
      <4>3. CASE docs'[<<x, 0>>] # docs[<<x, 0>>]
        <5>1. x = Trunk(sync)
          BY <3>4, <4>3
        <5>2. sync.dels[1] = <<x, 0>>
          BY <1>1, <3>2, <4>3, DeclaredOK
        <5>3. PICK k \in DOMAIN sync.dels : sync.dels[k] = <<x, i>>
          BY <2>2, <4>1, <5>1 DEF Listed
        <5>4. Len(sync.dels) = 1
          <6>1. sync.dels[1][2] = 0
            BY <5>2
          <6> QED
            BY <2>1, <2>4, <6>1 DEF Felled
        <5>5. k = 1
          BY <1>1, <5>3, <5>4
        <5> QED
          BY <4>1, <5>3, <5>5
      <4> QED
        BY <4>2, <4>3
    <3>10. NoFaults => Reached(sync', docs')
      <4>1. NoFaults => \A i \in 1..MaxChunks : Serves(docs', <<Trunk(sync'), i>>) =>
                 Listed(sync', <<Trunk(sync'), i>>)
        BY <2>2, <3>1, <3>3, <3>8 DEF Listed
      <4> QED
        BY <3>9, <4>1, FellReached
    <3> QED
      BY <3>7, <3>10 DEF Goes
  <2> QED
    BY <2>3, <2>4
<1> QED
  BY <1>2, <1>3, <1>4

LEMMA ListStands == ASSUME Sound, ListCandidates PROVE Goes
<1>1. /\ SyncOK(sync) /\ RowsOK /\ docs' = docs /\ sync.pc = "plan" /\ sync \in Locals /\ sync.path = NONE
      /\ (NoFaults => Plain(docs))
  BY PlainOf DEF Sound, Inv, ListCandidates, stores, SyncOK, SyncStates, Working, Chunking
<1> DEFINE gone == {p \in Paths \ (DOMAIN sync.records \cup sync.moved) : docs[Whole(p)] # NONE}
<1>2. sync' = [sync EXCEPT !.pc = "prune", !.cands = [p \in gone |-> docs[Whole(p)]]]
  BY DEF ListCandidates
<1> HIDE DEF gone
<1>3. sync'.pc = "prune" /\ sync'.path = NONE /\ sync'.cands = [p \in gone |-> docs[Whole(p)]]
  BY <1>1, <1>2 DEF Locals
<1>4. StandsCands(sync', docs)
  BY <1>3 DEF StandsCands, Whole
<1>5. Stands(sync', docs) /\ ~Felling(sync')
  BY <1>3, <1>4, RestStands
<1> QED
  BY <1>1, <1>5, ReachedOf DEF Goes

LEMMA PruneStands == ASSUME Sound, NEW p \in Paths, Prune(p) PROVE Goes
<1>1. /\ SyncOK(sync) /\ RowsOK /\ docs' = docs /\ sync.pc = "prune" /\ sync \in Locals
      /\ sync.path = NONE /\ p \in DOMAIN sync.cands
      /\ StandsOld(sync) /\ StandsCands(sync, docs) /\ (NoFaults => Plain(docs))
  BY PlainOf DEF Sound, Inv, Prune, stores, Stands, SyncOK, SyncStates, Working, Chunking
<1> DEFINE count == sync.cands[p].count
<1>2. /\ sync'.path = NONE
      /\ sync'.pc = "prune" \/ (sync'.pc = "tree" /\ count \in 0..MaxChunks /\ sync'.dels = Tree(p, count))
      /\ \A q \in DOMAIN sync'.cands : q \in DOMAIN sync.cands /\ sync'.cands[q] = sync.cands[q]
  BY <1>1, PruneLocal
<1>3. sync'.cands = Without(sync.cands, p) /\ sync'.old = sync.old /\ sync'.action = sync.action
  BY <1>1 DEF Prune, Locals
<1>4. p \notin DOMAIN sync'.cands
  BY <1>3 DEF Without
<1>5. StandsCands(sync', docs)
  BY <1>1, <1>2 DEF StandsCands
<1>6. CASE sync'.pc = "prune"
  <2>1. Stands(sync', docs) /\ ~Felling(sync')
    BY <1>2, <1>5, <1>6, RestStands
  <2> QED
    BY <1>1, <2>1, ReachedOf DEF Goes
<1>7. CASE sync'.pc = "tree"
  <2>1. count \in 0..MaxChunks /\ sync'.dels = Tree(p, count)
    BY <1>2, <1>7
  <2>2. count = Declared(docs, p)
    <3>1. sync.cands[p] = docs[<<p, 0>>] /\ sync.cands[p] \in Row
      BY <1>1, SyncTypes, PartialIs DEF StandsCands
    <3> QED
      BY <3>1, CorpusAssumption DEF Declared
  <2> HIDE DEF count
  <2>3. /\ Felled(sync') /\ sync'.dels # <<>> /\ Trunk(sync') = p
        /\ \A i \in 1..count : ~Tomb(<<p, i>>) => Listed(sync', <<p, i>>)
    BY <1>4, <2>1, TreeLists
  <2>4. Felling(sync') /\ StandsOld(sync')
    BY <1>2, <1>7 DEF Felling, StandsOld
  <2>5. Stands(sync', docs)
    BY <1>5, <1>7, <2>3, <2>4, FellStands
  <2>6. NoFaults => Reached(sync', docs)
    <3> SUFFICES ASSUME NoFaults, NEW i \in 1..MaxChunks, Serves(docs, <<Trunk(sync'), i>>)
                 PROVE  Listed(sync', <<Trunk(sync'), i>>)
      BY <1>1, FellReached
    <3>1. i \in 1..count /\ ~Tomb(<<p, i>>)
      BY <1>1, <2>1, <2>2, <2>3, ServesIs DEF Plain
    <3> QED
      BY <2>3, <3>1
  <2> QED
    BY <1>1, <2>5, <2>6 DEF Goes
<1> QED
  BY <1>2, <1>6, <1>7

LEMMA EndStands == ASSUME Sound, EndOfRun PROVE Goes
<1>1. /\ SyncOK(sync) /\ docs' = docs /\ sync.pc \in {"plan", "prune"} /\ sync \in Locals /\ sync.path = NONE
      /\ StandsCands(sync, docs) /\ (NoFaults => Plain(docs))
  BY PlainOf DEF Sound, Inv, EndOfRun, stores, Stands, SyncOK, SyncStates, Working, Chunking
<1>2. DOMAIN sync.cands = {}
  <2>1. CASE sync.pc = "plan"
    BY <1>1, <2>1 DEF StandsCands
  <2>2. CASE sync.cands = <<>>
    BY <2>2, EmptyPartial
  <2> QED
    BY <2>1, <2>2 DEF EndOfRun
<1>3. sync'.pc = "done" /\ sync'.path = NONE /\ sync'.cands = sync.cands
  BY <1>1 DEF EndOfRun, Locals
<1>4. Stands(sync', docs) /\ ~Felling(sync')
  BY <1>2, <1>3, NoCands, RestStands
<1> QED
  BY <1>1, <1>4, ReachedOf DEF Goes

LEMMA SyncGoes == ASSUME Sound, Start \/ Run \/ Raise PROVE Goes
<1>1. CASE Record
  BY <1>1, StoredStands, GuardStands, PutStands, ReadStands, WriteStands, EmbedStands, ProbeStands,
     SurplusStands, VectorStands, WholeStands, RetireStands, TreeStands DEF Record
<1>2. CASE ListCandidates \/ EndOfRun \/ \E p \in Paths : Plan(p) \/ Prune(p)
  BY <1>2, ListStands, EndStands, PlanStands, PruneStands
<1> QED
  BY <1>1, <1>2, StartStands, RaiseStands DEF Run

\* What is redacted stays blank in a step that only takes rows of it away.
LEMMA BlankStill ==
    ASSUME RowsOK, NEW dt, NEW p \in Paths, BlankAt(docs, p),
           Buried(dt, <<p, 0>>) => Buried(docs, <<p, 0>>) /\ Declared(dt, p) = Declared(docs, p),
           \A i \in 1..MaxChunks : /\ Serves(dt, <<p, i>>) => Serves(docs, <<p, i>>)
                                   /\ docs[<<p, i>>] = NONE => dt[<<p, i>>] = NONE
    PROVE  BlankAt(dt, p)
<1> SUFFICES ASSUME Buried(dt, <<p, 0>>), NEW i \in 1..MaxChunks, Serves(dt, <<p, i>>)
             PROVE  ~NoFaults /\ \E j \in (Declared(dt, p) + 1)..(i - 1) : dt[<<p, j>>] = NONE
  BY DEF BlankAt
<1>1. ~NoFaults
  BY DEF BlankAt
<1>2. PICK j \in (Declared(docs, p) + 1)..(i - 1) : docs[<<p, j>>] = NONE
  BY DEF BlankAt
<1>3. j \in 1..MaxChunks
  BY DeclaredOK, SpansOK
<1> QED
  BY <1>1, <1>2, <1>3

\* A step of a sync puts over no tombstone where writers wait.
LEMMA SyncBlank ==
    ASSUME Sound, Start \/ Run \/ Raise, BlankIn(docs) PROVE BlankIn(docs')
<1>1. RowsOK /\ SyncOK(sync) /\ Stands(sync, docs)
  BY DEF Sound, Inv
<1>2. \A x \in Paths : <<x, 0>> \in Ids
  BY <1>1, DeclaredOK
<1>3. \A x \in Paths, i \in 1..MaxChunks : <<x, i>> \in Ids
  BY SpansOK DEF Ids
<1> SUFFICES ASSUME NEW p \in Paths PROVE BlankAt(docs', p)
  BY DEF BlankIn
<1>4. BlankAt(docs, p)
  BY DEF BlankIn
<1>5. CASE docs' = docs
  BY <1>4, <1>5
<1>6. CASE PutParent \/ WriteChunk
  <2>1. /\ Target \in Ids /\ \A e \in Ids \ {Target} : docs'[e] = docs[e]
        /\ ~docs'[Target].tomb /\ sync.path \in Paths /\ Target[1] = sync.path
        /\ PutParent => Target = <<sync.path, 0>>
        /\ WriteChunk => Target = Chunk /\ Chunk[2] # 0 /\ Serves(docs, <<sync.path, 0>>)
    <3>1. sync.path \in Paths /\ sync.path # NONE
      BY <1>1, <1>6, AtWork DEF SyncOK, PutParent, WriteChunk, Working
    <3>2. WriteChunk => Serves(docs, <<sync.path, 0>>)
      BY <1>1 DEF WriteChunk, Stands, StandsParent, Landing, Chunking
    <3> QED
      BY <1>1, <1>6, <3>1, <3>2, SyncPuts DEF Whole, Chunk
  <2>2. CASE p # sync.path
    <3>1. \A i \in 0..MaxChunks : <<p, i>> \in Ids \ {Target}
      BY <2>1, <2>2, IdOf
    <3>2. \A i \in 1..MaxChunks : docs'[<<p, i>>] = docs[<<p, i>>]
      BY <2>1, <3>1, SpansOK
    <3>3. docs'[<<p, 0>>] = docs[<<p, 0>>]
      BY <2>1, <3>1, SpansOK
    <3> QED
      BY <1>1, <1>4, <3>2, <3>3, BlankStill DEF Buried, Declared, Serves
  <2>3. CASE p = sync.path
    <3>1. ~Buried(docs', <<p, 0>>)
      <4>1. CASE PutParent
        BY <2>1, <2>3, <4>1 DEF Buried
      <4>2. CASE WriteChunk
        <5>1. <<p, 0>> # Target
          BY <2>1, <4>2
        <5> QED
          BY <1>2, <2>1, <2>3, <4>2, <5>1 DEF Buried, Serves
      <4> QED
        BY <1>6, <4>1, <4>2
    <3> QED
      BY <3>1 DEF BlankAt
  <2> QED
    BY <2>2, <2>3
<1>7. CASE Deletes
  <2>1. \A e \in Ids : docs'[e] = NONE \/ docs'[e] = docs[e]
    BY <1>1, <1>7 DEF Deletes, RowsOK
  <2> QED
    BY <1>1, <1>2, <1>3, <1>4, <2>1, BlankStill DEF Buried, Declared, Serves
<1> QED
  BY <1>5, <1>6, <1>7, SyncRows DEF Sound

-----------------------------------------------------------------------------
\* A redaction and a demotion add no row, take none away and keep its count.
Thins(ds, dt) ==
    \A d \in Ids : /\ dt[d] = NONE <=> ds[d] = NONE
                   /\ dt[d] # NONE => dt[d].count = ds[d].count
                   /\ Serves(dt, d) => Serves(ds, d)
\* A vector that is left stands for a row that is left as served.
Leaves(ds, dt, vs, vt) ==
    \A d \in Ids : vt[d] # NONE => vs[d] # NONE /\ (Serves(ds, d) => Serves(dt, d))

LEMMA Blanks ==
    ASSUME RowsOK, NEW d \in Ids, Tombstone(d)
    PROVE  /\ Thins(docs, docs') /\ Leaves(docs, docs', vecs, vecs') /\ ~Serves(docs', d)
           /\ \A e \in Ids \ {d} : docs'[e] = docs[e]
<1>1. CASE docs[d] = NONE
  BY <1>1 DEF Tombstone, stores, Thins, Leaves, Serves
<1>2. CASE docs[d] # NONE
  <2>1. docs' = [docs EXCEPT ![d] = Blanked(docs[d])] /\ vecs' = [vecs EXCEPT ![d] = NONE]
    BY <1>2 DEF Tombstone
  <2>2. docs[d] \in Row
    BY <1>2 DEF RowsOK
  <2>3. Blanked(docs[d]) \in Row /\ Blanked(docs[d]).tomb /\ Blanked(docs[d]).count = docs[d].count
    BY <2>2 DEF Blanked, Row, Tags
  <2>4. Blanked(docs[d]) # NONE
    BY <2>3, CorpusAssumption
  <2>5. docs'[d] = Blanked(docs[d]) /\ \A e \in Ids \ {d} : docs'[e] = docs[e]
    BY <2>1 DEF RowsOK
  <2>6. vecs'[d] = NONE /\ \A e \in Ids \ {d} : vecs'[e] = vecs[e]
    BY <2>1 DEF RowsOK
  <2> QED
    BY <1>2, <2>3, <2>4, <2>5, <2>6 DEF Thins, Leaves, Serves
<1> QED
  BY <1>1, <1>2

LEMMA DemoteThins ==
    ASSUME RowsOK, NEW d \in Ids, Demote(d)
    PROVE  /\ Thins(docs, docs') /\ Leaves(docs, docs', vecs, vecs')
           /\ \A e \in Ids : Buried(docs', e) => Buried(docs, e)
<1> DEFINE row == [docs[d] EXCEPT !.tag = "noise"]
<1>1. docs[d] \in Row /\ docs[d] # NONE
  BY DEF Demote, RowsOK
<1>2. row \in Row /\ row.tomb = docs[d].tomb /\ row.count = docs[d].count /\ row.text = docs[d].text
  BY <1>1 DEF Row, Tags
<1>3. PutDocument(d, row)
  BY DEF Demote
<1>4. row # NONE
  BY <1>2, CorpusAssumption
<1>5. row.tomb => row.text = BLANK
  BY <1>1, <1>2 DEF RowsOK, Tomb
<1> HIDE DEF row
<1>6. docs'[d] = row /\ \A e \in Ids \ {d} : docs'[e] = docs[e]
  BY <1>2, <1>3, <1>5, RowPut
<1>7. \A e \in Ids : vecs'[e] # NONE => vecs[e] # NONE
  <2>1. vecs' = vecs \/ (vecs[d] # NONE /\ \E v : vecs' = [vecs EXCEPT ![d] = v])
    BY <1>3 DEF PutDocument, Mirrored
  <2> QED
    BY <2>1 DEF RowsOK
<1> QED
  BY <1>1, <1>2, <1>4, <1>6, <1>7 DEF Thins, Leaves, Serves, Buried

\* Where writers wait, the others find no sync at work, and leave it so.
LEMMA OthersThin ==
    ASSUME Inv, Waits, Redaction \/ Others, Walked(redact, docs)
    PROVE  /\ sync.pc \in {"idle", "done"} /\ sync' = sync
           /\ Thins(docs, docs')
           /\ NoFaults /\ VectorsWork => Leaves(docs, docs', vecs, vecs')
<1>1. RowsOK /\ RedactOK /\ (Resting \/ redact.pc = "idle")
  BY DEF Inv, SeenOK
<1>2. Resting /\ sync' = sync
  BY <1>1 DEF Redaction, Others, RedactVector, ReadDeclared, RedactChunk, RedactParent,
     RedactionFails, ChangeFile, Demote, FreeToWrite, Waits, Disturb
<1>3. CASE docs' = docs /\ vecs' = vecs
  BY <1>2, <1>3 DEF Resting, Thins, Leaves
<1>4. ASSUME NEW d \in Ids, RedactVector(d)
      PROVE  Thins(docs, docs') /\ Leaves(docs, docs', vecs, vecs')
  BY <1>1, <1>4 DEF RedactVector, RowsOK, Thins, Leaves
<1>5. CASE RedactionFails
  <2>1. docs' = docs /\ ~(NoFaults /\ VectorsWork)
    BY <1>5 DEF RedactionFails, NoFaults, VectorsWork
  <2> QED
    BY <1>2, <2>1 DEF Resting, Thins
<1>6. CASE RedactParent
  BY <1>1, <1>2, <1>6, Blanks DEF RedactParent, RedactOK, Resting
<1>7. CASE RedactChunk /\ ~(docs' = docs /\ vecs' = vecs)
  <2>1. /\ redact.pc = "chunk" /\ redact \in Redactions /\ redact.id \in Ids
        /\ ~PastEnd(redact.next) /\ Tombstone(<<redact.id[1], redact.next>>)
    BY <1>1, <1>7 DEF RedactChunk, RedactOK, stores
  <2>2. redact.id[1] \in Paths /\ redact.next \in 0..MaxChunks
    BY <2>1, PathOf, SpansOK DEF PastEnd, PastDeclared, Redactions
  <2> QED
    BY <1>1, <1>2, <2>1, <2>2, IdOf, Blanks DEF Resting
<1>8. CASE Others /\ ~(docs' = docs /\ vecs' = vecs)
  BY <1>1, <1>2, <1>8, DemoteThins DEF Others, ChangeFile, stores, Resting
<1> QED
  BY <1>2, <1>3, <1>4, <1>5, <1>6, <1>7, <1>8 DEF Redaction, ReadDeclared, stores, Resting

\* What thins keeps its counts, and nothing more is served.
LEMMA ThinIs ==
    ASSUME RowsOK, Thins(docs, docs'), NEW p \in Paths
    PROVE  /\ Declared(docs', p) = Declared(docs, p)
           /\ \A i \in 1..MaxChunks : /\ Serves(docs', <<p, i>>) => Serves(docs, <<p, i>>)
                                      /\ docs'[<<p, i>>] = NONE <=> docs[<<p, i>>] = NONE
<1>1. <<p, 0>> \in Ids /\ \A i \in 1..MaxChunks : <<p, i>> \in Ids
  BY DeclaredOK, SpansOK DEF Ids
<1> QED
  BY <1>1 DEF Thins, Declared

LEMMA OthersStand ==
    ASSUME Sound, sync.pc \in {"idle", "done"}, sync' = sync, RowsOK, Thins(docs, docs')
    PROVE  Goes
<1>1. SyncOK(sync) /\ StandsCands(sync, docs) /\ (NoFaults => Plain(docs))
  BY PlainOf DEF Sound, Inv, Stands, Chunking
<1>2. sync.path = NONE /\ DOMAIN sync.cands = {}
  BY <1>1 DEF SyncOK, SyncStates, Working, StandsCands
<1>3. Stands(sync', docs') /\ ~Felling(sync')
  BY <1>2, NoCands, RestStands
<1>4. NoFaults => Plain(docs')
  BY <1>1, ThinIs DEF Plain
<1> QED
  BY <1>3, <1>4, ReachedOf DEF Goes

\* A redaction's walk along the chunks.
LEMMA ChunkWalks ==
    ASSUME Inv, Walked(redact, docs), RedactChunk
    PROVE  Walked(redact', docs') /\ \A p \in Paths : Buried(docs', <<p, 0>>) => Buried(docs, <<p, 0>>)
<1>1. /\ RowsOK /\ redact \in Redactions /\ redact.id \in Ids /\ redact.id[1] \in Paths
      /\ redact.pc = "chunk" /\ redact.id[2] = 0
      /\ redact.declared = Declared(docs, redact.id[1]) /\ redact.next \in 1..(MaxChunks + 1)
      /\ \A i \in 1..MaxChunks : i < redact.next => ~Serves(docs, <<redact.id[1], i>>)
  BY PathOf DEF Inv, RedactOK, RedactChunk, Walked
<1>2. CASE PastEnd(redact.next)
  <2>1. docs' = docs /\ redact' = [redact EXCEPT !.pc = "parent"]
    BY <1>2 DEF RedactChunk, stores
  <2>2. /\ redact'.pc = "parent" /\ redact'.id = redact.id /\ redact'.declared = redact.declared
        /\ redact'.next = redact.next
    BY <1>1, <2>1 DEF Redactions
  <2> QED
    BY <1>1, <1>2, <2>1, <2>2 DEF Walked, PastEnd, PastDeclared
<1>3. CASE ~PastEnd(redact.next)
  <2> DEFINE d == <<redact.id[1], redact.next>>
  <2>1. Tombstone(d) /\ redact' = [redact EXCEPT !.next = @ + 1]
    BY <1>3 DEF RedactChunk
  <2>2. /\ redact'.pc = "chunk" /\ redact'.id = redact.id /\ redact'.declared = redact.declared
        /\ redact'.next = redact.next + 1
    BY <1>1, <2>1 DEF Redactions
  <2>3. redact.next \in 1..MaxChunks
    <3>1. redact.declared \in 0..MaxChunks
      BY <1>1, DeclaredOK
    <3>2. redact.next > MaxChunks => redact.next > redact.declared
      BY <1>1, <3>1, SpansOK
    <3>3. ~(redact.next > MaxChunks)
      BY <1>3, <3>2 DEF PastEnd, PastDeclared
    <3> QED
      BY <1>1, <3>3, SpansOK
  <2>4. d \in Ids /\ \A p \in Paths : <<p, 0>> \in Ids /\ <<p, 0>> # d
    <3>1. redact.next \in 0..MaxChunks /\ redact.next # 0
      BY <2>3, SpansOK
    <3> QED
      BY <1>1, <3>1, IdOf, DeclaredOK
  <2>5. /\ Thins(docs, docs') /\ ~Serves(docs', d)
        /\ \A e \in Ids \ {d} : docs'[e] = docs[e]
    BY <1>1, <2>1, <2>4, Blanks
  <2>6. /\ Declared(docs', redact.id[1]) = Declared(docs, redact.id[1])
        /\ \A i \in 1..MaxChunks : Serves(docs', <<redact.id[1], i>>) => Serves(docs, <<redact.id[1], i>>)
    BY <1>1, <2>5, ThinIs
  <2>7. \A i \in 1..MaxChunks : i < redact.next + 1 => ~Serves(docs', <<redact.id[1], i>>)
    <3> SUFFICES ASSUME NEW i \in 1..MaxChunks, i < redact.next + 1
                 PROVE  ~Serves(docs', <<redact.id[1], i>>)
      OBVIOUS
    <3>1. i < redact.next \/ i = redact.next
      BY <2>3, SpansOK
    <3> QED
      BY <1>1, <2>5, <2>6, <3>1
  <2>8. redact.next + 1 \in 1..(MaxChunks + 1)
    BY <2>3, SpansOK
  <2> HIDE DEF d
  <2> QED
    BY <1>1, <2>2, <2>4, <2>5, <2>6, <2>7, <2>8 DEF Walked, Buried
<1> QED
  BY <1>2, <1>3

LEMMA OthersWalk ==
    ASSUME Inv, Waits, Walked(redact, docs), Redaction \/ Others
    PROVE  Walked(redact', docs')
<1>1. RowsOK /\ RedactOK
  BY DEF Inv
<1>2. CASE RedactChunk
  BY <1>2, ChunkWalks
<1>3. CASE RedactParent \/ RedactionFails
  <2>1. redact' = AtRest
    BY <1>3 DEF RedactParent, RedactionFails
  <2> QED
    BY <2>1, RestIs DEF Walked
<1>4. CASE \E d \in Ids : RedactVector(d)
  <2>1. redact'.pc = "read"
    BY <1>1, <1>4 DEF RedactVector, RedactOK, Redactions
  <2> QED
    BY <2>1 DEF Walked
<1>5. CASE ReadDeclared
  <2>1. /\ redact \in Redactions /\ redact.id \in Ids /\ redact.id[1] \in Paths /\ docs' = docs
    BY <1>1, <1>5, PathOf DEF ReadDeclared, RedactOK, stores
  <2>2. CASE redact.id[2] = 0
    <3>1. /\ redact'.pc = "chunk" /\ redact'.id = redact.id /\ redact'.next = 1
          /\ redact'.declared = Count(redact.id[1])
      BY <1>5, <2>1, <2>2 DEF ReadDeclared, Redactions
    <3>2. Count(redact.id[1]) = Declared(docs, redact.id[1])
      BY <1>1, <2>1, DeclaredOK
    <3>3. redact'.next \in 1..(MaxChunks + 1) /\ \A i \in 1..MaxChunks : ~(i < redact'.next)
      BY <3>1, SpansOK
    <3> QED
      BY <2>1, <2>2, <3>1, <3>2, <3>3 DEF Walked
  <2>3. CASE redact.id[2] # 0
    <3>1. redact'.pc = "parent" /\ redact'.id = redact.id
      BY <1>5, <2>1, <2>3 DEF ReadDeclared, Redactions
    <3> QED
      BY <2>3, <3>1 DEF Walked
  <2> QED
    BY <2>2, <2>3
<1>6. CASE Others
  <2>1. CASE \E d \in Ids : Demote(d)
    <3>1. redact.pc = "idle" /\ redact' = redact
      BY <2>1 DEF Demote, Waits
    <3> QED
      BY <3>1 DEF Walked
  <2>2. CASE \E p \in Paths, t \in Texts \cup {NONE} : ChangeFile(p, t)
    BY <2>2 DEF ChangeFile, stores
  <2> QED
    BY <1>6, <2>1, <2>2 DEF Others
<1> QED
  BY <1>2, <1>3, <1>4, <1>5, <1>6 DEF Redaction

\* The row a redaction blanks last: its chunks are blank, or beyond a gap.
LEMMA ParentBlank ==
    ASSUME Inv, Walked(redact, docs), RedactParent, redact.id[2] = 0, NoFaults => Plain(docs)
    PROVE  BlankAt(docs', redact.id[1])
<1> DEFINE p == redact.id[1]
<1>1. /\ RowsOK /\ redact \in Redactions /\ redact.id \in Ids /\ p \in Paths
      /\ redact.pc = "parent" /\ redact.declared = Declared(docs, p)
      /\ redact.next \in 1..(MaxChunks + 1) /\ redact.next > redact.declared
      /\ redact.next > MaxChunks \/ docs[<<p, redact.next>>] = NONE
      /\ \A i \in 1..MaxChunks : i < redact.next => ~Serves(docs, <<p, i>>)
  BY PathOf DEF Inv, RedactOK, RedactParent, Walked
<1>2. Tombstone(redact.id)
  BY DEF RedactParent
<1>3. Thins(docs, docs')
  BY <1>1, <1>2, Blanks
<1> HIDE DEF p
<1>4. Declared(docs', p) = Declared(docs, p) /\ Declared(docs, p) \in 0..MaxChunks
  BY <1>1, <1>3, ThinIs, DeclaredOK
<1> SUFFICES ASSUME NEW i \in 1..MaxChunks, Serves(docs', <<p, i>>)
             PROVE  ~NoFaults /\ \E j \in (Declared(docs', p) + 1)..(i - 1) : docs'[<<p, j>>] = NONE
  BY DEF BlankAt, p
<1>5. Serves(docs, <<p, i>>)
  BY <1>1, <1>3, ThinIs
<1>6. ~(i < redact.next)
  BY <1>1, <1>5
<1>7. redact.next <= MaxChunks /\ docs[<<p, redact.next>>] = NONE
  BY <1>1, <1>6, SpansOK
<1>8. i # redact.next
  BY <1>5, <1>7 DEF Serves
<1>9. redact.next \in (Declared(docs', p) + 1)..(i - 1) /\ redact.next \in 1..MaxChunks
  BY <1>1, <1>4, <1>6, <1>7, <1>8, SpansOK
<1>10. docs'[<<p, redact.next>>] = NONE
  BY <1>1, <1>3, <1>7, <1>9, ThinIs
<1>11. ~NoFaults
  <2> SUFFICES ASSUME NoFaults PROVE FALSE
    OBVIOUS
  <2>1. i <= Declared(docs, p)
    BY <1>1, <1>5 DEF Plain
  <2> QED
    BY <1>1, <1>4, <1>6, <2>1, SpansOK
<1> QED
  BY <1>9, <1>10, <1>11

LEMMA OthersBlank ==
    ASSUME Inv, Waits, Walked(redact, docs), BlankIn(docs), NoFaults => Plain(docs),
           Redaction \/ Others, Thins(docs, docs')
    PROVE  BlankIn(docs')
<1>1. RowsOK /\ RedactOK
  BY DEF Inv
<1> SUFFICES ASSUME NEW p \in Paths PROVE BlankAt(docs', p)
  BY DEF BlankIn
<1>2. BlankAt(docs, p) /\ <<p, 0>> \in Ids
  BY <1>1, DeclaredOK DEF BlankIn
<1>3. ASSUME Buried(docs', <<p, 0>>) => Buried(docs, <<p, 0>>) PROVE BlankAt(docs', p)
  BY <1>1, <1>2, <1>3, ThinIs, BlankStill
<1>4. CASE RedactParent
  <2>1. redact.id \in Ids /\ Tombstone(redact.id)
    BY <1>1, <1>4 DEF RedactParent, RedactOK
  <2>2. CASE redact.id = <<p, 0>>
    BY <1>4, <2>2, ParentBlank
  <2>3. CASE redact.id # <<p, 0>>
    BY <1>1, <1>2, <1>3, <2>1, <2>3, Blanks DEF Buried
  <2> QED
    BY <2>2, <2>3
<1>5. CASE RedactChunk
  BY <1>3, <1>5, ChunkWalks
<1>6. ASSUME NEW d \in Ids, Demote(d) PROVE BlankAt(docs', p)
  BY <1>1, <1>2, <1>3, <1>6, DemoteThins
<1> QED
  BY <1>2, <1>4, <1>5, <1>6 DEF Redaction, Others, RedactVector, ReadDeclared, RedactionFails,
     ChangeFile, stores

\* A vector is built for a row that is served, and goes with the row.
LEMMA SyncMirrors ==
    ASSUME Sound, NoFaults, VectorsWork, Mirrors(sync, docs, vecs), Start \/ Run \/ Raise
    PROVE  Mirrors(sync', docs', vecs')
<1>1. RowsOK /\ SyncOK(sync) /\ Stands(sync, docs) /\ sync \in Locals
  BY DEF Sound, Inv, SyncOK
<1>2. ASSUME docs' = docs, vecs' = vecs, sync.pc # "vector" PROVE Mirrors(sync', docs', vecs')
  BY <1>2 DEF Mirrors
<1>3. CASE Start \/ ListCandidates \/ EndOfRun \/ \E p \in Paths : Plan(p) \/ Prune(p)
  BY <1>2, <1>3 DEF Start, Resting, ListCandidates, EndOfRun, Plan, Prune, stores
<1>4. CASE ReadStored \/ Guard \/ ReadChunk \/ ProbeSurplus \/ Retire
  BY <1>2, <1>4 DEF ReadStored, Guard, ReadChunk, ProbeSurplus, Retire, stores
<1>5. CASE Raise
  BY <1>5, RaiseStands
<1>6. CASE PutParent \/ WriteChunk
  <2>1. /\ Target \in Ids /\ \A e \in Ids \ {Target} : docs'[e] = docs[e]
        /\ docs'[Target] \in Row /\ ~docs'[Target].tomb
    BY <1>1, <1>6, SyncPuts
  <2>2. Serves(docs', Target)
    BY <2>1, CorpusAssumption DEF Serves
  <2>3. sync.pc # "vector" /\ \E d, row : PutDocument(d, row)
    BY <1>6 DEF PutParent, WriteChunk
  <2>4. \A e \in Ids : vecs'[e] # NONE => vecs[e] # NONE
    <3>1. PICK d, row : PutDocument(d, row)
      BY <2>3
    <3>2. vecs' = vecs \/ (vecs[d] # NONE /\ \E v : vecs' = [vecs EXCEPT ![d] = v])
      BY <3>1 DEF PutDocument, Mirrored
    <3> QED
      BY <1>1, <3>2 DEF RowsOK
  <2> QED
    BY <2>1, <2>2, <2>3, <2>4 DEF Mirrors, Serves
<1>7. CASE EmbedChunk
  <2>1. /\ docs' = docs /\ sync.pc = "embed" /\ \E v : vecs' = [vecs EXCEPT ![Chunk] = v]
    BY <1>7 DEF EmbedChunk, Embed, VectorsWork
  <2>2. Serves(docs, Chunk)
    BY <1>1, <2>1 DEF Stands, StandsChunk, Chunk
  <2>3. \A e \in Ids \ {Chunk} : vecs'[e] = vecs[e]
    BY <1>1, <2>1 DEF RowsOK
  <2> QED
    BY <2>1, <2>2, <2>3 DEF Mirrors
<1>8. CASE WholeVector
  <2> DEFINE d == <<sync.path, 0>>
  <2>1. /\ docs' = docs /\ sync.pc = "whole" /\ \E v : vecs' = [vecs EXCEPT ![d] = v]
    BY <1>8 DEF WholeVector, Embed, DropVector, VectorsWork, Whole
  <2>2. Serves(docs, d)
    BY <1>1, <2>1 DEF Stands, StandsParent, Landing
  <2>3. \A e \in Ids \ {d} : vecs'[e] = vecs[e]
    BY <1>1, <2>1 DEF RowsOK
  <2> HIDE DEF d
  <2> QED
    BY <2>1, <2>2, <2>3 DEF Mirrors
<1>9. CASE DeleteSurplus \/ DeleteTree
  <2>1. vecs' = vecs /\ sync.pc # "vector"
    BY <1>9 DEF DeleteSurplus, DeleteTree
  <2>2. CASE docs' = docs
    BY <1>2, <2>1, <2>2
  <2>3. CASE docs' # docs
    <3>1. Deletes
      BY <1>9, <2>3, DeletesOne DEF Sound
    <3>2. sync' = [sync EXCEPT !.pc = "vector"] /\ sync.dels # <<>> /\ Head(sync.dels) = sync.dels[1]
      BY <1>1, <1>9, <2>3, <3>1, SyncTypes, TailOf DEF DeleteSurplus, DeleteTree
    <3>3. sync'.pc = "vector" /\ sync'.dels = sync.dels
      BY <1>1, <3>2 DEF Locals
    <3>4. \A e \in Ids \ {sync.dels[1]} : docs'[e] = docs[e]
      BY <1>1, <3>1, <3>2 DEF Deletes, RowsOK
    <3> QED
      BY <2>1, <3>3, <3>4 DEF Mirrors, Serves
  <2> QED
    BY <2>2, <2>3
<1>10. CASE DeleteVector
  <2>1. /\ docs' = docs /\ sync.pc = "vector" /\ vecs' = [vecs EXCEPT ![Head(sync.dels)] = NONE]
        /\ Head(sync.dels) = sync.dels[1]
    BY <1>1, <1>10, SyncTypes, TailOf DEF DeleteVector, DropVector, VectorsWork, SyncOK
  <2>2. \A e \in Ids : vecs'[e] # NONE => vecs[e] # NONE /\ e # sync.dels[1]
    BY <1>1, <2>1 DEF RowsOK
  <2> QED
    BY <2>1, <2>2 DEF Mirrors
<1> QED
  BY <1>3, <1>4, <1>5, <1>6, <1>7, <1>8, <1>9, <1>10 DEF Run, Record

\* What the invariant says after a step, of the state it leads to.
LEMMA Primed ==
    ASSUME env' = env,
           Waits => /\ Stands(sync', docs') /\ Walked(redact', docs') /\ BlankIn(docs')
                    /\ NoFaults => Reached(sync', docs')
                    /\ NoFaults /\ VectorsWork => Mirrors(sync', docs', vecs')
    PROVE  BlankInv'
<1>1. Waits' = Waits /\ NoFaults' = NoFaults /\ VectorsWork' = VectorsWork
  BY DEF Waits, NoFaults, VectorsWork
<1>2. /\ Stands(sync', docs') => Stands(sync, docs)'
      /\ Reached(sync', docs') => Reached(sync, docs)'
      /\ Walked(redact', docs') => Walked(redact, docs)'
  BY DEF Stands, StandsParent, StandsChunk, StandsDels, StandsOld, StandsCands, Reached, Walked,
     Serves, Buried, Declared, SizeOf, Clearing, Felling, Felled, Trunk, Listed
<1>3. BlankIn(docs') => BlankIn(docs)'
  BY <1>1 DEF BlankIn, BlankAt, Buried, Serves, Declared
<1>4. Mirrors(sync', docs', vecs') => Mirrors(sync, docs, vecs)'
  BY DEF Mirrors, Serves
<1> QED
  BY <1>1, <1>2, <1>3, <1>4 DEF BlankInv

LEMMA InitBlank == Init => BlankInv
<1> SUFFICES ASSUME Init PROVE BlankInv
  OBVIOUS
<1>1. sync.pc = "idle" /\ sync.path = NONE /\ DOMAIN sync.cands = {} /\ redact.pc = "idle"
  BY IdleSync, RestIs DEF Init
<1>2. Stands(sync, docs) /\ ~Felling(sync)
  BY <1>1, NoCands, RestStands
<1>3. \A d \in Ids : docs[d] = NONE /\ vecs[d] = NONE
  BY DEF Init
<1>4. \A p \in Paths : <<p, 0>> \in Ids /\ \A i \in 1..MaxChunks : <<p, i>> \in Ids
  <2>1. 0 \in 0..MaxChunks /\ \A i \in 1..MaxChunks : i \in 0..MaxChunks
    BY SpansOK
  <2> QED
    BY <2>1, IdOf
<1>5. Plain(docs) /\ BlankIn(docs) /\ Mirrors(sync, docs, vecs)
  BY <1>3, <1>4 DEF Plain, BlankIn, BlankAt, Mirrors, Serves, Buried
<1>6. Reached(sync, docs)
  BY <1>2, <1>5, ReachedOf
<1> QED
  BY <1>1, <1>2, <1>5, <1>6 DEF BlankInv, Walked

LEMMA BlankStep == Inv /\ BlankInv /\ [Next]_vars => BlankInv'
<1> SUFFICES ASSUME Inv, BlankInv, [Next]_vars PROVE BlankInv'
  OBVIOUS
<1>1. env' = env
  BY RestStep DEF vars
<1> SUFFICES ASSUME Waits
             PROVE  /\ Stands(sync', docs') /\ Walked(redact', docs') /\ BlankIn(docs')
                    /\ NoFaults => Reached(sync', docs')
                    /\ NoFaults /\ VectorsWork => Mirrors(sync', docs', vecs')
  BY <1>1, Primed
<1>2. Sound /\ Walked(redact, docs) /\ BlankIn(docs)
      /\ (NoFaults /\ VectorsWork => Mirrors(sync, docs, vecs))
  BY DEF Sound, BlankInv
<1>3. CASE UNCHANGED vars
  BY <1>2, <1>3 DEF vars, stores, Sound
<1>4. CASE Start \/ Run \/ Raise
  <2>1. Goes /\ BlankIn(docs')
    BY <1>2, <1>4, SyncGoes, SyncBlank
  <2>2. redact' = redact /\ redact.pc = "idle"
    BY <1>4, SyncTurns
  <2>3. Walked(redact', docs')
    BY <2>2 DEF Walked
  <2> QED
    BY <1>2, <1>4, <2>1, <2>3, SyncMirrors DEF Goes
<1>5. CASE Redaction \/ Others
  <2>1. /\ sync.pc \in {"idle", "done"} /\ sync' = sync /\ Thins(docs, docs')
        /\ NoFaults /\ VectorsWork => Leaves(docs, docs', vecs, vecs')
    BY <1>2, <1>5, OthersThin
  <2>2. NoFaults => Plain(docs)
    BY <1>2, <2>1, PlainOf DEF Sound, Chunking
  <2>3. Goes
    BY <1>2, <2>1, OthersStand DEF Inv
  <2>4. Walked(redact', docs') /\ BlankIn(docs')
    BY <1>2, <1>5, <2>1, <2>2, OthersWalk, OthersBlank
  <2>5. NoFaults /\ VectorsWork => Mirrors(sync', docs', vecs')
    BY <1>2, <2>1 DEF Mirrors, Leaves
  <2> QED
    BY <2>3, <2>4, <2>5 DEF Goes
<1> QED
  BY <1>3, <1>4, <1>5 DEF Next

\* No vector is left of a redacted document.
LEMMA NoVector ==
    ASSUME Inv, Waits, Stands(sync, docs), BlankIn(docs), NoFaults, Mirrors(sync, docs, vecs),
           NEW p \in Paths, Buried(docs, <<p, 0>>), NEW i \in 0..MaxChunks
    PROVE  vecs[<<p, i>>] = NONE
<1> SUFFICES ASSUME vecs[<<p, i>>] # NONE PROVE FALSE
  OBVIOUS
<1>1. SyncOK(sync) /\ <<p, i>> \in Ids
  BY IdOf DEF Inv
<1>2. ~Serves(docs, <<p, i>>)
  <2>1. i \in 1..MaxChunks \/ i = 0
    BY SpansOK
  <2>2. BlankAt(docs, p)
    BY DEF BlankIn
  <2> QED
    BY <2>1, <2>2 DEF BlankAt, Serves, Buried
<1>3. sync.pc = "vector" /\ sync.dels[1] = <<p, i>> /\ sync.dels # <<>>
  BY <1>1, <1>2 DEF Mirrors, SyncOK
<1>4. sync.dels[1][1] = p
  BY <1>3
<1>5. CASE p = sync.path
  <2>1. Clearing(sync)
    BY <1>3, <1>4, <1>5 DEF Clearing, Felling
  <2>2. Serves(docs, <<p, 0>>)
    BY <1>5, <2>1 DEF Stands, StandsParent
  <2> QED
    BY <2>2 DEF Serves, Buried
<1>6. CASE p # sync.path
  <2>1. Felling(sync)
    BY <1>3, <1>4, <1>6 DEF Felling
  <2>2. Felled(sync) /\ sync.dels \in Seq(Ids \cup {NONE})
    BY <1>1, <1>3, <2>1, SyncTypes DEF Stands, StandsDels
  <2>3. 1 \in DOMAIN sync.dels /\ Len(sync.dels) \in DOMAIN sync.dels
    BY <1>3, <2>2
  <2>4. sync.dels[1] # NONE
    BY <1>1, <1>3, PathOf
  <2>5. sync.dels[Len(sync.dels)] = <<p, 0>>
    BY <1>4, <2>2, <2>3, <2>4 DEF Felled
  <2>6. <<p, 0>> # NONE
    BY IdOf, SpansOK, PathOf
  <2> QED
    BY <2>1, <2>3, <2>5, <2>6 DEF Inv, SeenOK, Knows, KnowsDels
<1> QED
  BY <1>5, <1>6

LEMMA BlankSaid == Inv /\ BlankInv => RedactedIsBlank
<1> SUFFICES ASSUME Inv, BlankInv, Waits, NEW p \in Paths, Tomb(Whole(p))
             PROVE  /\ \A i \in 1..MaxChunks : Live(<<p, i>>) => BeyondGap(p, Count(p), i)
                    /\ NoFaults /\ VectorsWork => \A i \in 0..MaxChunks : vecs[<<p, i>>] = NONE
  BY DEF RedactedIsBlank
<1>1. Buried(docs, <<p, 0>>) /\ Declared(docs, p) = Count(p) /\ BlankAt(docs, p)
  BY TombIs, DeclaredOK DEF Inv, BlankInv, BlankIn
<1>2. \A i \in 1..MaxChunks : Live(<<p, i>>) => BeyondGap(p, Count(p), i)
  BY <1>1 DEF BlankAt, Live, Serves, BeyondGap
<1>3. NoFaults /\ VectorsWork => \A i \in 0..MaxChunks : vecs[<<p, i>>] = NONE
  BY <1>1, NoVector DEF BlankInv
<1> QED
  BY <1>2, <1>3

\* A redacted document serves no text, by its own row, by any of its chunks or
\* by a vector of one: whatever its files went through before, where nothing
\* ever died, and otherwise up to a chunk a dead run left beyond a gap.
THEOREM RedactedAlwaysBlank == Spec => []RedactedIsBlank
<1>1. Spec => []BlankInv
  BY InitBlank, BlankStep, Invariant, PTL DEF Spec
<1> QED
  BY <1>1, Invariant, BlankSaid, PTL

-----------------------------------------------------------------------------
(* The store holds the directory *)

Busy(s) == s.pc \notin {"idle", "done"}

\* What a run read of the directory (f) is still there, and all of it is, save
\* in a run that reads a part.
ReadsIt(s, f) ==
    /\ \A p \in DOMAIN s.records : s.records[p] = f[p]
    /\ "partial" \notin env => \A p \in Paths : f[p] # NONE => p \in DOMAIN s.records

\* What was moved is gone, unless it is the move under way or one that failed.
MovedGone(s, ds) ==
    \A p \in s.moved : /\ p \notin DOMAIN s.records
                       /\ Serves(ds, <<p, 0>>) => p = s.from \/ s.failed # {}

\* In a record, the tree that is deleted is that of the document it moved.
FellsMoved(s, ds) ==
    Felling(s) /\ s.path # NONE =>
        /\ s.from # NONE
        /\ s.dels # <<>> => Trunk(s) = s.from
        /\ s.dels = <<>> => ds[<<s.from, 0>>] = NONE

\* In a prune it is one whose file is gone; and every other document without
\* a file is still a candidate.
FellsVanished(s, ds, f) ==
    s.path = NONE /\ s.pc \in {"prune", "tree", "vector"} =>
        /\ Felling(s) /\ s.dels # <<>> => f[Trunk(s)] = NONE
        /\ \A p \in Paths : Serves(ds, <<p, 0>>) =>
              \/ f[p] # NONE \/ p \in DOMAIN s.cands \/ s.failed # {}
              \/ Felling(s) /\ s.dels # <<>> /\ Trunk(s) = p

Directory(s, ds, f) ==
    Busy(s) => /\ ReadsIt(s, f) /\ MovedGone(s, ds)
               /\ FellsMoved(s, ds) /\ FellsVanished(s, ds, f)

DirInv == Waits => Directory(sync, docs, file)

Dired == Sound /\ SyncOK(sync') /\ Goes /\ Directory(sync, docs, file)

\* The locals no step of a record changes.
Carries(s, e) ==
    /\ e.path = s.path /\ e.from = s.from /\ e.records = s.records /\ e.moved = s.moved
    /\ e.failed = s.failed /\ e.cands = s.cands

\* A step within a record, that deletes no document's own row.
LEMMA CarriesDirectory ==
    ASSUME NEW s, NEW e, NEW ds, NEW dt, NEW f, Busy(s), Directory(s, ds, f), Carries(s, e),
           s.path # NONE, ~Felling(e),
           \A p \in Paths \ DOMAIN s.records : Serves(dt, <<p, 0>>) => Serves(ds, <<p, 0>>),
           s.moved \subseteq Paths
    PROVE  Directory(e, dt, f)
<1>1. ReadsIt(s, f) /\ MovedGone(s, ds)
  BY DEF Directory
<1>2. ReadsIt(e, f) /\ MovedGone(e, dt)
  BY <1>1 DEF ReadsIt, MovedGone, Carries
<1>3. FellsMoved(e, dt) /\ FellsVanished(e, dt, f)
  BY DEF FellsMoved, FellsVanished, Carries
<1> QED
  BY <1>2, <1>3 DEF Directory

LEMMA SameCarries ==
    ASSUME SyncOK(sync), ReadStored \/ Guard \/ PutParent \/ ReadChunk \/ WriteChunk \/ EmbedChunk
                         \/ ProbeSurplus \/ DeleteSurplus \/ DeleteVector \/ Retire
    PROVE  Carries(sync, sync') /\ Busy(sync)
<1>1. sync \in Locals
  BY DEF SyncOK
<1>2. CASE ReadStored \/ Guard \/ ProbeSurplus \/ Retire
  BY <1>1, <1>2 DEF ReadStored, Guard, ProbeSurplus, Retire, Locals, Carries, Busy
<1>3. CASE PutParent
  BY <1>1, <1>3 DEF PutParent, Locals, Carries, Busy
<1>4. CASE ReadChunk
  BY <1>1, <1>4 DEF ReadChunk, NextChunk, Locals, Carries, Busy
<1>5. CASE WriteChunk \/ EmbedChunk
  BY <1>1, <1>5 DEF WriteChunk, EmbedChunk, NextChunk, Locals, Carries, Busy
<1>6. CASE DeleteSurplus \/ DeleteVector
  BY <1>1, <1>6 DEF DeleteSurplus, DeleteVector, Locals, Carries, Busy
<1> QED
  BY <1>2, <1>3, <1>4, <1>5, <1>6

\* The own rows of documents that are no records of a run in progress, in a
\* step of a record that deletes no tree.
LEMMA RecordRows ==
    ASSUME Sound, PutParent \/ WriteChunk \/ (DeleteSurplus /\ docs' # docs)
    PROVE  \A p \in Paths \ DOMAIN sync.records : docs'[<<p, 0>>] = docs[<<p, 0>>]
<1>1. /\ SyncOK(sync) /\ RowsOK /\ sync.path \in Paths /\ sync.path \in DOMAIN sync.records
  BY AtWork DEF Sound, Inv, SyncOK, PutParent, WriteChunk, DeleteSurplus, Working
<1>2. \A p \in Paths : <<p, 0>> \in Ids
  BY <1>1, DeclaredOK
<1>3. CASE PutParent \/ WriteChunk
  <2>1. Target[1] = sync.path /\ \A e \in Ids \ {Target} : docs'[e] = docs[e]
    BY <1>1, <1>3, SyncPuts DEF Whole, Chunk
  <2>2. \A p \in Paths \ DOMAIN sync.records : <<p, 0>> # Target
    BY <1>1, <2>1
  <2> QED
    BY <1>2, <2>1, <2>2
<1>4. CASE DeleteSurplus /\ docs' # docs
  <2>1. /\ sync.pc = "surplus" /\ sync.dels # <<>> /\ Own(sync) /\ sync.dels \in Seq(Ids \cup {NONE})
        /\ docs' = [docs EXCEPT ![Head(sync.dels)] = NONE]
    BY <1>1, <1>4, SyncTypes DEF DeleteSurplus, SyncOK
  <2>2. Head(sync.dels)[1] = sync.path
    BY <2>1, TailOf DEF Own
  <2>3. \A p \in Paths \ DOMAIN sync.records : <<p, 0>> # Head(sync.dels)
    BY <1>1, <2>2
  <2> QED
    BY <1>1, <1>2, <2>1, <2>3 DEF RowsOK
<1> QED
  BY <1>3, <1>4

LEMMA RecordDirectory ==
    ASSUME Dired, ReadStored \/ Guard \/ PutParent \/ ReadChunk \/ WriteChunk \/ EmbedChunk
                  \/ ProbeSurplus \/ DeleteSurplus \/ (DeleteVector /\ ~Felling(sync))
    PROVE  Directory(sync', docs', file)
<1>1. /\ SyncOK(sync) /\ Carries(sync, sync') /\ Busy(sync) /\ sync.moved \subseteq Paths
      /\ sync.path # NONE
  <2>1. SyncOK(sync) /\ Carries(sync, sync') /\ Busy(sync) /\ sync.moved \subseteq Paths
    BY SameCarries, SyncTypes DEF Dired, Sound, Inv
  <2>2. CASE DeleteVector /\ ~Felling(sync)
    BY <2>1, <2>2, PathOf DEF DeleteVector, Felling, SyncOK
  <2>3. CASE ReadStored \/ Guard \/ PutParent \/ ReadChunk \/ WriteChunk \/ EmbedChunk
             \/ ProbeSurplus \/ DeleteSurplus
    BY <2>1, <2>3 DEF SyncOK, Working, ReadStored, Guard, PutParent, ReadChunk, WriteChunk,
       EmbedChunk, ProbeSurplus, DeleteSurplus
  <2> QED
    BY <2>1, <2>2, <2>3
<1>2. \A p \in Paths \ DOMAIN sync.records : docs'[<<p, 0>>] = docs[<<p, 0>>]
  BY RecordRows DEF Dired, ReadStored, Guard, ReadChunk, EmbedChunk, ProbeSurplus, DeleteVector, stores
<1>3. ~Felling(sync')
  <2>1. CASE DeleteSurplus
    BY <1>1, <2>1, SurplusLocal
  <2>2. CASE DeleteVector /\ ~Felling(sync)
    BY <1>1, <2>2, VectorLocal DEF Felling
  <2>3. CASE ReadStored \/ Guard \/ PutParent \/ ReadChunk \/ WriteChunk \/ EmbedChunk \/ ProbeSurplus
    <3>1. sync'.pc \in {"put", "putting", "chunk", "write", "writing", "embed", "probe", "whole", "surplus"}
      BY <1>1, <2>3, StoredLocal, GuardLocal, PutLocal, ReadChunkLocal, WriteLocal, ProbeLocal DEF Dired, Sound, Inv
    <3> QED
      BY <3>1 DEF Felling
  <2> QED
    BY <2>1, <2>2, <2>3
<1> QED
  BY <1>1, <1>2, <1>3, CarriesDirectory DEF Dired, Serves

\* A record that ends.
LEMMA EndsDirectory ==
    ASSUME Dired, Busy(sync), sync.path # NONE, docs' = docs, sync' = EndOfRecord(sync),
           sync.from # NONE => docs[<<sync.from, 0>>] = NONE
    PROVE  Directory(sync', docs', file)
<1>1. /\ SyncOK(sync) /\ sync \in Locals /\ sync.moved \subseteq Paths
  BY SyncTypes DEF Dired, Sound, Inv
<1>2. /\ sync'.pc = "plan" /\ sync'.records = sync.records /\ sync'.moved = sync.moved
      /\ sync'.failed = sync.failed
  BY <1>1 DEF EndOfRecord, Locals
<1>3. ReadsIt(sync, file) /\ MovedGone(sync, docs)
  BY DEF Dired, Directory
<1>4. \A p \in sync.moved : p # NONE
  BY <1>1, CorpusAssumption
<1>5. ReadsIt(sync', file) /\ MovedGone(sync', docs)
  BY <1>2, <1>3, <1>4 DEF ReadsIt, MovedGone, Serves
<1>6. FellsMoved(sync', docs) /\ FellsVanished(sync', docs, file)
  BY <1>2 DEF FellsMoved, FellsVanished, Felling
<1> QED
  BY <1>5, <1>6 DEF Directory

LEMMA WholeDirectory == ASSUME Dired, WholeVector PROVE Directory(sync', docs', file)
<1>1. SyncOK(sync) /\ sync \in Locals /\ sync.pc = "whole" /\ sync.path # NONE /\ docs' = docs
      /\ sync.moved \subseteq Paths
  BY SyncTypes DEF Dired, Sound, Inv, WholeVector, SyncOK, Working
<1>2. CASE sync.from = NONE
  BY <1>1, <1>2, EndsDirectory DEF WholeVector, Busy
<1>3. CASE sync.from # NONE
  <2>1. sync'.pc = "retire" /\ Carries(sync, sync')
    BY <1>1, <1>3 DEF WholeVector, Locals, Carries
  <2> QED
    BY <1>1, <2>1, CarriesDirectory DEF Dired, Busy, Felling
<1> QED
  BY <1>2, <1>3

LEMMA RetireDirectory == ASSUME Dired, Retire PROVE Directory(sync', docs', file)
<1>1. /\ SyncOK(sync) /\ RowsOK /\ docs' = docs /\ sync.pc = "retire" /\ sync.path # NONE /\ sync.from \in Paths
      /\ Carries(sync, sync') /\ Busy(sync) /\ DOMAIN sync.cands = {}
  BY SameCarries, SyncTypes DEF Dired, Sound, Inv, Retire, stores, SyncOK, Working, Stands, StandsCands
<1>2. sync'.pc = "tree" /\ sync'.dels = Tree(sync.from, Count(sync.from)) /\ Count(sync.from) \in 0..MaxChunks
  BY <1>1, RetireLocal, CountOK
<1>3. sync'.dels # <<>> /\ Trunk(sync') = sync.from
  BY <1>1, <1>2, TreeLists DEF Carries
<1>4. ReadsIt(sync, file) /\ MovedGone(sync, docs)
  BY <1>1 DEF Dired, Directory
<1>5. ReadsIt(sync', file) /\ MovedGone(sync', docs)
  BY <1>1, <1>4 DEF ReadsIt, MovedGone, Carries
<1>6. FellsMoved(sync', docs) /\ FellsVanished(sync', docs, file)
  BY <1>1, <1>3, CorpusAssumption DEF FellsMoved, FellsVanished, Carries
<1> QED
  BY <1>1, <1>5, <1>6 DEF Directory

\* The last to go of a tree is the document's own row.
LEMMA LastIsTrunk ==
    ASSUME NEW s, s.dels \in Seq(Ids \cup {NONE}), s.dels # <<>>, Felled(s)
    PROVE  /\ Tail(s.dels) = <<>> => s.dels[1] = <<Trunk(s), 0>>
           /\ s.dels[1] # NONE => s.dels[1][1] = Trunk(s)
           /\ s.dels[1] = NONE => Tail(s.dels) # <<>>
<1>1. /\ Len(s.dels) \in Nat \ {0} /\ DOMAIN s.dels = 1..Len(s.dels)
      /\ Len(Tail(s.dels)) = Len(s.dels) - 1
      /\ Tail(s.dels) # <<>> => Len(Tail(s.dels)) # 0
  BY RestOf
<1>2. Tail(s.dels) = <<>> => Len(s.dels) = 1
  <2> SUFFICES ASSUME Tail(s.dels) = <<>> PROVE Len(s.dels) = 1
    OBVIOUS
  <2>1. Len(<<>>) = 0
    OBVIOUS
  <2>2. Len(Tail(s.dels)) = Len(<<>>)
    OBVIOUS
  <2> QED
    BY <1>1, <2>1, <2>2
<1>3. Trunk(s) \in Paths /\ s.dels[Len(s.dels)] = <<Trunk(s), 0>>
  BY DEF Felled
<1>4. <<Trunk(s), 0>> # NONE
  BY <1>3, IdOf, PathOf, SpansOK
<1>5. 1 \in DOMAIN s.dels
  BY <1>1
<1>6. s.dels[1] # NONE => s.dels[1][1] = Trunk(s)
  BY <1>5 DEF Felled
<1>7. Tail(s.dels) = <<>> => s.dels[1] = <<Trunk(s), 0>>
  BY <1>2, <1>3
<1> QED
  BY <1>4, <1>6, <1>7

\* The vector of a row of a tree goes, or a tombstone in it is passed over.
LEMMA TailDirectory ==
    ASSUME Dired, Felling(sync), sync.dels # <<>>, docs' = docs, sync' \in Locals,
           sync'.pc = "tree", Carries(sync, sync'), sync'.dels = Tail(sync.dels),
           sync.dels[1] = NONE \/ docs[sync.dels[1]] = NONE
    PROVE  Directory(sync', docs', file)
<1>1. /\ SyncOK(sync) /\ RowsOK /\ Busy(sync) /\ sync.dels \in Seq(Ids \cup {NONE}) /\ Felled(sync)
  BY SyncTypes DEF Dired, Sound, Inv, Felling, Busy, Stands, StandsDels
<1>2. sync'.dels # <<>> => Trunk(sync') = Trunk(sync)
  BY <1>1, TailLists DEF Carries
<1>3. sync'.dels = <<>> => docs[<<Trunk(sync), 0>>] = NONE
  BY <1>1, LastIsTrunk
<1>4. /\ ReadsIt(sync, file) /\ MovedGone(sync, docs) /\ FellsMoved(sync, docs)
      /\ FellsVanished(sync, docs, file)
  BY <1>1 DEF Dired, Directory
<1>5. ReadsIt(sync', file) /\ MovedGone(sync', docs)
  BY <1>4 DEF ReadsIt, MovedGone, Carries
<1>6. FellsMoved(sync', docs)
  BY <1>2, <1>3, <1>4 DEF FellsMoved, Carries
<1>7. FellsVanished(sync', docs, file)
  <2>1. sync.pc \in {"tree", "vector"} /\ Felling(sync')
    BY DEF Felling
  <2> SUFFICES ASSUME sync.path = NONE
               PROVE  /\ sync'.dels # <<>> => file[Trunk(sync')] = NONE
                      /\ \A p \in Paths : Serves(docs, <<p, 0>>) =>
                           \/ file[p] # NONE \/ p \in DOMAIN sync.cands \/ sync.failed # {}
                           \/ sync'.dels # <<>> /\ Trunk(sync') = p
    BY <2>1 DEF FellsVanished, Carries
  <2>2. /\ file[Trunk(sync)] = NONE
        /\ \A p \in Paths : Serves(docs, <<p, 0>>) =>
              \/ file[p] # NONE \/ p \in DOMAIN sync.cands \/ sync.failed # {}
              \/ Trunk(sync) = p
    BY <1>4, <2>1 DEF FellsVanished
  <2> QED
    BY <1>2, <1>3, <2>2 DEF Serves
<1> QED
  BY <1>5, <1>6, <1>7 DEF Directory

LEMMA VectorDirectory == ASSUME Dired, DeleteVector, Felling(sync) PROVE Directory(sync', docs', file)
<1>1. /\ SyncOK(sync) /\ docs' = docs /\ sync.pc = "vector" /\ sync.dels # <<>> /\ SyncOK(sync')
      /\ Carries(sync, sync') /\ docs[sync.dels[1]] = NONE
  BY SameCarries DEF Dired, Sound, Inv, DeleteVector, SyncOK, Stands, StandsDels
<1>2. sync'.dels = Tail(sync.dels) /\ sync'.pc = "tree"
  <2>1. Head(sync.dels) = sync.dels[1] /\ sync \in Locals
    BY <1>1, SyncTypes, TailOf
  <2>2. Head(sync.dels)[1] # sync.path
    BY <1>1, <2>1 DEF Felling
  <2> QED
    BY <2>1, <2>2 DEF DeleteVector, Locals
<1> QED
  BY <1>1, <1>2, TailDirectory DEF SyncOK

LEMMA TreeDirectory == ASSUME Dired, DeleteTree PROVE Directory(sync', docs', file)
<1>1. /\ SyncOK(sync) /\ RowsOK /\ sync.pc = "tree" /\ sync \in Locals /\ Busy(sync) /\ Felling(sync)
      /\ sync.dels \in Seq(Ids \cup {NONE})
  BY SyncTypes DEF Dired, Sound, Inv, DeleteTree, SyncOK, Busy, Felling
<1>2. /\ ReadsIt(sync, file) /\ MovedGone(sync, docs) /\ FellsMoved(sync, docs)
      /\ FellsVanished(sync, docs, file)
  BY <1>1 DEF Dired, Directory
<1>3. CASE sync.dels = <<>> /\ sync.path # NONE
  <2>1. sync' = EndOfRecord(sync) /\ docs' = docs
    BY <1>3 DEF DeleteTree
  <2> QED
    BY <1>1, <1>2, <1>3, <2>1, EndsDirectory DEF FellsMoved
<1>4. CASE sync.dels = <<>> /\ sync.path = NONE
  <2>1. sync'.pc = "prune" /\ Carries(sync, sync') /\ docs' = docs
    BY <1>1, <1>4 DEF DeleteTree, Locals, Carries
  <2>2. ReadsIt(sync', file) /\ MovedGone(sync', docs)
    BY <1>2, <2>1 DEF ReadsIt, MovedGone, Carries
  <2>3. FellsMoved(sync', docs) /\ FellsVanished(sync', docs, file)
    BY <1>1, <1>2, <1>4, <2>1 DEF FellsMoved, FellsVanished, Carries, Felling
  <2> QED
    BY <2>1, <2>2, <2>3 DEF Directory
<1>5. CASE sync.dels # <<>>
  <2>1. Head(sync.dels) = sync.dels[1] /\ Felled(sync) /\ sync.dels[1] \in Ids \cup {NONE}
    BY <1>1, <1>5, TailOf DEF Dired, Sound, Stands, StandsDels
  <2>2. CASE sync.dels[1] = NONE
    <3>1. /\ docs' = docs /\ sync'.pc = "tree" /\ Carries(sync, sync') /\ sync'.dels = Tail(sync.dels)
      BY <1>1, <1>5, <2>1, <2>2 DEF DeleteTree, Locals, Carries
    <3> QED
      BY <1>1, <1>5, <2>2, <3>1, TailDirectory DEF Dired, SyncOK
  <2>3. CASE sync.dels[1] # NONE
    <3>1. /\ docs' = [docs EXCEPT ![sync.dels[1]] = NONE]
          /\ sync'.pc = "vector" /\ Carries(sync, sync') /\ sync'.dels = sync.dels
      BY <1>1, <1>5, <2>1, <2>3 DEF DeleteTree, Locals, Carries
    <3>2. \A p \in Paths : Serves(docs', <<p, 0>>) => Serves(docs, <<p, 0>>)
      <4>1. \A p \in Paths : <<p, 0>> \in Ids
        BY <1>1, DeclaredOK
      <4> QED
        BY <1>1, <3>1, <4>1 DEF Serves, RowsOK
    <3>3. Trunk(sync') = Trunk(sync) /\ sync.moved \subseteq Paths
      BY <1>1, <3>1, SyncTypes DEF Trunk
    <3>4. ReadsIt(sync', file) /\ MovedGone(sync', docs')
      BY <1>2, <3>1, <3>2, <3>3 DEF ReadsIt, MovedGone, Carries
    <3>5. FellsMoved(sync', docs')
      BY <1>1, <1>2, <1>5, <3>1, <3>3 DEF FellsMoved, Carries
    <3>6. Felling(sync')
      <4>1. sync.dels[1][1] # sync.path
        BY <1>1, <1>5, <2>3, SyncTypes, TailOf DEF SyncOK, Foreign
      <4> QED
        BY <3>1, <4>1 DEF Felling, Carries
    <3>7. FellsVanished(sync', docs', file)
      BY <1>1, <1>2, <1>5, <3>1, <3>2, <3>3, <3>6 DEF FellsVanished, Carries
    <3> QED
      BY <3>4, <3>5, <3>7 DEF Directory
  <2> QED
    BY <2>2, <2>3
<1> QED
  BY <1>3, <1>4, <1>5

LEMMA StartDirectory == ASSUME Dired, Start PROVE Directory(sync', docs', file)
<1>1. PICK scope \in Scopes, prune \in BOOLEAN, classify \in BOOLEAN :
         sync' = [Idle EXCEPT !.pc = "plan", !.todo = {p \in scope : file[p] # NONE},
                              !.records = [p \in {p \in scope : file[p] # NONE} |-> file[p]],
                              !.prune = prune, !.classify = classify,
                              !.quiet = redact.pc = "idle" /\ NoStrayChunk]
  BY DEF Start
<1> DEFINE found == {p \in scope : file[p] # NONE}
           records == [p \in found |-> file[p]]
<1>2. \A p \in DOMAIN records : records[p] = file[p]
  OBVIOUS
<1>3. "partial" \notin env => \A p \in Paths : file[p] # NONE => p \in DOMAIN records
  BY DEF Scopes
<1> HIDE DEF found, records
<1>4. sync'.pc = "plan" /\ sync'.moved = {} /\ sync'.records = records
  BY <1>1 DEF Idle, found, records
<1>5. ReadsIt(sync', file) /\ MovedGone(sync', docs')
  BY <1>2, <1>3, <1>4 DEF ReadsIt, MovedGone
<1>6. FellsMoved(sync', docs') /\ FellsVanished(sync', docs', file)
  BY <1>4 DEF FellsMoved, FellsVanished, Felling
<1> QED
  BY <1>5, <1>6 DEF Directory

LEMMA PlanDirectory == ASSUME Dired, NEW p \in Paths, Plan(p) PROVE Directory(sync', docs', file)
<1> DEFINE t == sync.records[p]
<1>1. /\ SyncOK(sync) /\ RowsOK /\ sync \in Locals /\ sync.pc = "plan" /\ docs' = docs
      /\ sync.from = NONE /\ sync.moved \subseteq Paths
  BY SyncTypes DEF Dired, Sound, Inv, Plan, stores, SyncOK, SyncStates, Working
<1>2. ReadsIt(sync, file) /\ MovedGone(sync, docs)
  BY <1>1 DEF Dired, Directory, Busy
<1>3. \A x \in sync.moved : x # NONE
  BY <1>1, CorpusAssumption
<1>4. CASE SkipRecord(p, t)
  <2>1. /\ sync'.pc = "plan" /\ sync'.records = sync.records /\ sync'.moved = sync.moved
        /\ sync'.failed = sync.failed /\ sync'.from = sync.from
    BY <1>1, <1>4 DEF Plan, Locals
  <2>2. ReadsIt(sync', file) /\ MovedGone(sync', docs)
    BY <1>2, <2>1 DEF ReadsIt, MovedGone
  <2>3. FellsMoved(sync', docs) /\ FellsVanished(sync', docs, file)
    BY <2>1 DEF FellsMoved, FellsVanished, Felling
  <2> QED
    BY <1>1, <2>2, <2>3 DEF Directory
<1>5. CASE ~SkipRecord(p, t)
  <2>1. PICK a \in Actions(p, t) :
           sync' = [sync EXCEPT
                  !.pc = IF a[1] = "update" THEN "stored" ELSE "put",
                  !.path = p, !.action = a[1], !.from = a[2],
                  !.moved = IF a[1] = "move" THEN @ \cup {a[2]} ELSE @]
    BY <1>5 DEF Plan
  <2>2. a[2] # NONE => a[2] \notin DOMAIN sync.records
    BY <1>1, PlanChoice
  <2>3. a[1] = "move" => a[2] \in Paths
    <3>1. a[1] = "move" => \E d \in Hits(t) : a = <<"move", d[1]>>
      BY DEF Actions
    <3>2. \A d \in Hits(t) : d[1] \in Paths
      BY PathOf DEF Hits
    <3> QED
      BY <3>1, <3>2
  <2>4. a[1] = "move" => a[2] # NONE
    BY <2>3, CorpusAssumption
  <2>5. /\ sync'.pc \in {"stored", "put"} /\ sync'.records = sync.records /\ sync'.failed = sync.failed
        /\ sync'.from = a[2]
        /\ sync'.moved = IF a[1] = "move" THEN sync.moved \cup {a[2]} ELSE sync.moved
    BY <1>1, <2>1 DEF Locals
  <2>6. ReadsIt(sync', file)
    BY <1>2, <2>5 DEF ReadsIt
  <2>7. MovedGone(sync', docs)
    BY <1>1, <1>2, <1>3, <2>2, <2>4, <2>5 DEF MovedGone
  <2>8. FellsMoved(sync', docs) /\ FellsVanished(sync', docs, file)
    BY <2>5 DEF FellsMoved, FellsVanished, Felling
  <2> QED
    BY <1>1, <2>6, <2>7, <2>8 DEF Directory
<1> QED
  BY <1>4, <1>5

LEMMA ListDirectory == ASSUME Dired, ListCandidates PROVE Directory(sync', docs', file)
<1> DEFINE gone == {p \in Paths \ (DOMAIN sync.records \cup sync.moved) : docs[Whole(p)] # NONE}
<1>1. /\ SyncOK(sync) /\ RowsOK /\ sync \in Locals /\ sync.pc = "plan" /\ docs' = docs
      /\ sync.from = NONE /\ sync.path = NONE /\ file \in [Paths -> Texts \cup {NONE}]
  BY DEF Dired, Sound, Inv, RestOK, ListCandidates, stores, SyncOK, SyncStates, Working
<1>2. ReadsIt(sync, file) /\ MovedGone(sync, docs)
  BY <1>1 DEF Dired, Directory, Busy
<1>3. /\ sync'.pc = "prune" /\ sync'.records = sync.records /\ sync'.failed = sync.failed
      /\ sync'.from = sync.from /\ sync'.moved = sync.moved /\ sync'.path = NONE
      /\ sync'.cands = [p \in gone |-> docs[Whole(p)]]
  BY <1>1 DEF ListCandidates, Locals
<1>4. DOMAIN sync'.cands = gone
  BY <1>3
<1>5. ReadsIt(sync', file) /\ MovedGone(sync', docs)
  BY <1>2, <1>3 DEF ReadsIt, MovedGone
<1>6. ~Felling(sync')
  BY <1>3 DEF Felling
<1>7. FellsVanished(sync', docs, file)
  <2> SUFFICES ASSUME NEW p \in Paths, Serves(docs, <<p, 0>>)
               PROVE  file[p] # NONE \/ p \in gone \/ sync.failed # {}
    BY <1>3, <1>4, <1>6 DEF FellsVanished
  <2>1. CASE p \in DOMAIN sync.records
    <3>1. sync.records[p] \in Texts /\ sync.records[p] = file[p]
      BY <1>1, <1>2, <2>1, SyncTypes DEF ReadsIt
    <3> QED
      BY <3>1, CorpusAssumption
  <2>2. CASE p \in sync.moved
    <3>1. p # sync.from
      BY <1>1, CorpusAssumption
    <3> QED
      BY <1>2, <2>2, <3>1 DEF MovedGone
  <2>3. CASE p \notin DOMAIN sync.records \cup sync.moved
    <3>1. docs[Whole(p)] # NONE
      BY DEF Serves, Whole
    <3> QED
      BY <2>3, <3>1
  <2> QED
    BY <2>1, <2>2, <2>3
<1>8. FellsMoved(sync', docs)
  BY <1>6 DEF FellsMoved
<1> QED
  BY <1>1, <1>5, <1>7, <1>8 DEF Directory

LEMMA PruneDirectory == ASSUME Dired, NEW p \in Paths, Prune(p) PROVE Directory(sync', docs', file)
<1>1. /\ SyncOK(sync) /\ RowsOK /\ sync \in Locals /\ sync.pc = "prune" /\ docs' = docs
      /\ sync.from = NONE /\ sync.path = NONE /\ p \in DOMAIN sync.cands /\ ~Felling(sync)
      /\ StandsCands(sync, docs)
  BY DEF Dired, Sound, Inv, Prune, stores, SyncOK, SyncStates, Working, Felling, Stands
<1>2. ReadsIt(sync, file) /\ MovedGone(sync, docs) /\ FellsVanished(sync, docs, file)
  BY <1>1 DEF Dired, Directory, Busy
<1>3. /\ sync'.records = sync.records /\ sync'.failed = sync.failed
      /\ sync'.from = sync.from /\ sync'.moved = sync.moved /\ sync'.path = NONE
      /\ sync'.cands = Without(sync.cands, p)
  BY <1>1 DEF Prune, Locals
<1>4. DOMAIN sync'.cands = DOMAIN sync.cands \ {p}
  BY <1>3 DEF Without
<1>5. ReadsIt(sync', file) /\ MovedGone(sync', docs)
  BY <1>2, <1>3 DEF ReadsIt, MovedGone
<1>6. \A q \in Paths : Serves(docs, <<q, 0>>) =>
         file[q] # NONE \/ q \in DOMAIN sync.cands \/ sync.failed # {}
  BY <1>1, <1>2 DEF FellsVanished
<1>7. FellsMoved(sync', docs)
  BY <1>3 DEF FellsMoved
<1>8. CASE Vanished(p) /\ ~sync.cands[p].tomb
  <2>1. sync'.pc = "tree" /\ sync'.dels = Tree(p, sync.cands[p].count)
    BY <1>1, <1>8 DEF Prune, Locals
  <2>2. sync.cands[p].count \in 0..MaxChunks
    <3>1. sync.cands[p] \in Row
      BY <1>1, SyncTypes, PartialIs
    <3> QED
      BY <3>1 DEF Row
  <2>3. sync'.dels # <<>> /\ Trunk(sync') = p /\ Felling(sync')
    BY <1>4, <2>1, <2>2, TreeLists DEF Felling
  <2>4. FellsVanished(sync', docs, file)
    BY <1>3, <1>4, <1>6, <1>8, <2>3 DEF FellsVanished, Vanished
  <2> QED
    BY <1>1, <1>5, <1>7, <2>4 DEF Directory
<1>9. CASE ~(Vanished(p) /\ ~sync.cands[p].tomb)
  <2>1. sync'.pc = "prune"
    BY <1>1, <1>9 DEF Prune, Locals
  <2>2. Serves(docs, <<p, 0>>) => file[p] # NONE
    BY <1>1, <1>9 DEF StandsCands, Serves, Vanished
  <2>3. FellsVanished(sync', docs, file)
    BY <1>3, <1>4, <1>6, <2>1, <2>2 DEF FellsVanished, Felling
  <2> QED
    BY <1>1, <1>5, <1>7, <2>3 DEF Directory
<1> QED
  BY <1>8, <1>9

LEMMA RaiseDirectory == ASSUME Dired, Raise PROVE Directory(sync', docs', file)
<1>1. SyncOK(sync) /\ sync \in Locals /\ sync.moved \subseteq Paths /\ docs' = docs /\ Busy(sync)
  BY SyncTypes DEF Dired, Sound, Inv, Raise, stores, SyncOK, Resting, Busy
<1>2. CASE sync' = Idle
  BY <1>2, IdleSync DEF Directory, Busy
<1>3. CASE sync.path # NONE /\ sync' = [EndOfRecord(sync) EXCEPT !.failed = @ \cup {sync.path}]
  <2> DEFINE d == EndOfRecord(sync)
  <2>1. /\ d.pc = "plan" /\ d.records = sync.records /\ d.moved = sync.moved
        /\ d.failed = sync.failed /\ d \in Locals
    BY <1>1, EndsRecord DEF EndOfRecord, Locals, SyncOK
  <2> HIDE DEF d
  <2>2. /\ sync'.pc = "plan" /\ sync'.records = sync.records /\ sync'.moved = sync.moved
        /\ sync'.failed = sync.failed \cup {sync.path}
    BY <1>3, <2>1 DEF Locals, d
  <2>3. sync'.failed # {}
    BY <2>2
  <2>4. ReadsIt(sync, file) /\ MovedGone(sync, docs)
    BY <1>1 DEF Dired, Directory
  <2>5. ReadsIt(sync', file) /\ MovedGone(sync', docs)
    BY <2>2, <2>3, <2>4 DEF ReadsIt, MovedGone
  <2>6. FellsMoved(sync', docs) /\ FellsVanished(sync', docs, file)
    BY <2>2 DEF FellsMoved, FellsVanished, Felling
  <2> QED
    BY <1>1, <2>5, <2>6 DEF Directory
<1> QED
  BY <1>2, <1>3 DEF Raise

LEMMA SyncDirectory == ASSUME Dired, Start \/ Run \/ Raise PROVE Directory(sync', docs', file)
<1>1. CASE Record
  <2>1. CASE DeleteVector
    BY <2>1, VectorDirectory, RecordDirectory
  <2>2. CASE Record /\ ~DeleteVector
    BY <2>2, RecordDirectory, WholeDirectory, RetireDirectory, TreeDirectory DEF Record
  <2> QED
    BY <1>1, <2>1, <2>2
<1>2. CASE EndOfRun
  <2>1. sync'.pc = "done"
    BY <1>2, EndLocal DEF Dired, Sound, Inv
  <2> QED
    BY <2>1 DEF Directory, Busy
<1> QED
  BY <1>1, <1>2, StartDirectory, RaiseDirectory, ListDirectory, PlanDirectory, PruneDirectory DEF Run

LEMMA DirectoryStep == Inv /\ BlankInv /\ DirInv /\ [Next]_vars => DirInv'
<1> SUFFICES ASSUME Inv, BlankInv, DirInv, [Next]_vars PROVE DirInv'
  OBVIOUS
<1>1. Inv' /\ BlankInv' /\ env' = env
  BY InvStep, BlankStep, RestStep DEF vars
<1>2. Waits' = Waits
  BY <1>1 DEF Waits
<1> SUFFICES ASSUME Waits PROVE Directory(sync, docs, file)'
  BY <1>2 DEF DirInv
<1>3. Sound /\ Directory(sync, docs, file) /\ Walked(redact, docs)
  BY DEF Sound, BlankInv, DirInv
<1>4. ASSUME Directory(sync', docs', file), file' = file PROVE Directory(sync, docs, file)'
  BY <1>1, <1>4 DEF Directory, Busy, ReadsIt, MovedGone, FellsMoved, FellsVanished, Serves, Felling, Trunk
<1>5. CASE Start \/ Run \/ Raise
  <2>1. SyncOK(sync') /\ Goes
    BY <1>3, <1>5, SyncGoes, SyncKeeps DEF Sound, Kept
  <2>2. file' = file
    BY <1>5 DEF Start, Run, Raise, Plan, Prune, Record, ListCandidates, EndOfRun, ReadStored, Guard,
       PutParent, ReadChunk, WriteChunk, EmbedChunk, ProbeSurplus, DeleteSurplus, DeleteVector,
       WholeVector, Retire, DeleteTree
  <2> QED
    BY <1>3, <1>4, <1>5, <2>1, <2>2, SyncDirectory DEF Dired
<1>6. CASE Redaction \/ Others
  <2>1. sync'.pc \in {"idle", "done"}
    BY <1>3, <1>6, OthersThin DEF Sound
  <2> QED
    BY <2>1 DEF Directory, Busy
<1>7. CASE UNCHANGED vars
  BY <1>3, <1>4, <1>7 DEF vars, stores
<1> QED
  BY <1>5, <1>6, <1>7 DEF Next

LEMMA DirectoryInv == Spec => []DirInv
<1>1. Init => DirInv
  BY IdleSync DEF Init, DirInv, Directory, Busy
<1>2. Spec => []BlankInv
  BY InitBlank, BlankStep, Invariant, PTL DEF Spec
<1> QED
  BY <1>1, <1>2, DirectoryStep, Invariant, PTL DEF Spec

\* What a step of a run deletes of a document whose file is there is none of
\* its own row.
LEMMA PresentStep ==
    ASSUME Inv, BlankInv, DirInv, Waits, [Next]_vars, "partial" \in env => sync.path = NONE,
           NEW p \in Paths, docs[Whole(p)] # NONE, file[p] # NONE
    PROVE  docs'[Whole(p)] # NONE
<1>1. /\ RowsOK /\ SyncOK(sync) /\ Stands(sync, docs) /\ <<p, 0>> \in Ids /\ Whole(p) = <<p, 0>>
  BY DeclaredOK DEF Inv, BlankInv
<1>2. CASE docs' = docs
  BY <1>2
<1>3. CASE PutParent \/ WriteChunk
  <2>1. /\ Target \in Ids /\ \A e \in Ids \ {Target} : docs'[e] = docs[e]
        /\ docs'[Target] \in Row
    BY <1>1, <1>3, SyncPuts
  <2> QED
    BY <1>1, <2>1, CorpusAssumption
<1>4. CASE Deletes
  <2> SUFFICES ASSUME Head(sync.dels) = <<p, 0>> PROVE FALSE
    BY <1>1, <1>4 DEF Deletes, RowsOK
  <2>1. /\ sync.dels # <<>> /\ sync.dels \in Seq(Ids \cup {NONE}) /\ sync.dels[1] = <<p, 0>>
        /\ 1 \in DOMAIN sync.dels /\ sync.pc \in {"surplus", "tree"}
    BY <1>1, <1>4, SyncTypes, TailOf DEF Deletes
  <2>2. CASE sync.pc = "surplus"
    <3>1. sync.dels[1][2] # 0
      BY <1>1, <2>1, <2>2 DEF Stands, StandsDels, Clearing
    <3> QED
      BY <2>1, <3>1
  <2>3. CASE sync.pc = "tree"
    <3>1. Felling(sync) /\ Felled(sync)
      BY <1>1, <2>1, <2>3 DEF Stands, StandsDels, Felling
    <3>2. Trunk(sync) = p
      BY <1>1, <2>1, <3>1, PathOf DEF Felled
    <3>3. ReadsIt(sync, file) /\ FellsMoved(sync, docs) /\ FellsVanished(sync, docs, file)
      BY <2>3 DEF DirInv, Directory, Busy
    <3>4. CASE sync.path = NONE
      BY <2>1, <2>3, <3>1, <3>2, <3>3, <3>4 DEF FellsVanished
    <3>5. CASE sync.path # NONE
      <4>1. sync.from = p /\ p \in DOMAIN sync.records
        BY <2>1, <3>1, <3>2, <3>3, <3>5 DEF FellsMoved, ReadsIt
      <4> QED
        BY <1>1, <4>1 DEF SyncOK
    <3> QED
      BY <3>4, <3>5
  <2> QED
    BY <2>1, <2>2, <2>3
<1>5. CASE Redaction \/ Others
  <2>1. Thins(docs, docs')
    BY <1>5, OthersThin DEF BlankInv
  <2> QED
    BY <1>1, <2>1 DEF Thins
<1> QED
  BY <1>2, <1>3, <1>4, <1>5, SyncRows DEF Next, vars, stores

LEMMA PrunedStep ==
    ASSUME Inv, BlankInv, DirInv, Waits, [Next]_vars,
           sync.pc = "prune", sync'.pc = "done", sync.failed = {}
    PROVE  /\ \A p \in Paths : Live(Whole(p)) => file[p] # NONE
           /\ NoFaults => NoStrayChunk
<1>1. /\ SyncOK(sync) /\ sync.path = NONE /\ ~Felling(sync) /\ sync \in Locals
  BY DEF Inv, SyncOK, SyncStates, Working, Felling
<1>2. EndOfRun
  <2>1. ~(Redaction \/ Others) /\ sync' # sync
    BY OthersThin DEF BlankInv
  <2>2. ~Raise
    <3>1. SUFFICES ASSUME Raise PROVE sync'.pc # "done"
      OBVIOUS
    <3> QED
      BY <1>1, <3>1, IdleSync DEF Raise
  <2>3. \A p \in Paths : ~Plan(p) /\ ~Prune(p)
    BY <1>1 DEF Plan, Prune, Locals
  <2>4. ~Record /\ ~ListCandidates /\ ~Start
    BY DEF Record, ReadStored, Guard, PutParent, ReadChunk, WriteChunk, EmbedChunk, ProbeSurplus,
       DeleteSurplus, DeleteVector, WholeVector, Retire, DeleteTree, ListCandidates, Start, Resting
  <2> QED
    BY <2>1, <2>2, <2>3, <2>4 DEF Next, Run, vars
<1>3. DOMAIN sync.cands = {}
  BY <1>2, EmptyPartial DEF EndOfRun
<1>4. FellsVanished(sync, docs, file)
  BY DEF DirInv, Directory, Busy
<1>5. \A p \in Paths : Serves(docs, <<p, 0>>) => file[p] # NONE
  BY <1>1, <1>3, <1>4 DEF FellsVanished
<1>6. NoFaults => Plain(docs)
  BY PlainOf DEF BlankInv, Chunking
<1>7. Plain(docs) => NoStrayChunk
  <2> SUFFICES ASSUME Plain(docs), NEW p \in Paths, NEW i \in 1..MaxChunks, Live(<<p, i>>)
               PROVE  docs[Whole(p)] # NONE
    BY DEF NoStrayChunk
  <2>1. i <= Declared(docs, p)
    BY DEF Plain, Serves, Live
  <2>2. ~(i <= 0)
    BY SpansOK
  <2> QED
    BY <2>1, <2>2 DEF Declared, Whole
<1> QED
  BY <1>5, <1>6, <1>7 DEF Live, Serves, Whole

\* When a run with prune ends well, no document of a file that is gone is left,
\* nor, where nothing ever died, a chunk of a document that is gone; and no
\* prune, nor a move of a run that read the whole directory, deletes a document
\* whose file is there.
THEOREM DirectoriesHeld == Spec => StoreHoldsDirectory
<1>1. Inv /\ BlankInv /\ DirInv /\ [Next]_vars =>
        [Waits =>
         /\ sync.pc = "prune" /\ sync'.pc = "done" /\ sync.failed = {} =>
              /\ \A p \in Paths : Live(Whole(p)) => file[p] # NONE
              /\ NoFaults => NoStrayChunk
         /\ ("partial" \in env => sync.path = NONE) => KeepsPresent]_vars
  BY PresentStep, PrunedStep DEF KeepsPresent
<1>2. Spec => []BlankInv
  BY InitBlank, BlankStep, Invariant, PTL DEF Spec
<1> QED
  BY <1>1, <1>2, DirectoryInv, Invariant, PTL DEF Spec, StoreHoldsDirectory

-----------------------------------------------------------------------------
(* The vectors mirror the rows *)

\* The record under way has put its parent and not yet settled its vector.
InHand(s) == s.pc \in Landing \/ Clearing(s)

PieceOf(s) == Spans[s.records[s.path]][s.next]
TagFor(s) ==
    IF s.tag # NONE /\ (s.row = NONE \/ s.row.text # PieceOf(s) \/ TagOf(s.row) = NONE)
    THEN s.tag ELSE TagOf(s.row)

\* What is still to be embedded is in its row.
Written(s, ds) ==
    /\ InHand(s) => /\ ds[<<s.path, 0>>].text = s.records[s.path]
                    /\ ds[<<s.path, 0>>].tag = s.tag
    /\ s.pc = "embed" => /\ ds[<<s.path, s.next>>].text = PieceOf(s)
                         /\ ds[<<s.path, s.next>>].tag = TagFor(s)

\* A vector has the tag of its row, and its text unless it is to be rebuilt.
Exact(s, ds, vs) ==
    \A d \in Ids : vs[d] # NONE /\ Serves(ds, d) =>
        /\ vs[d].tag = ds[d].tag
        /\ \/ vs[d].text = ds[d].text
           \/ InHand(s) /\ d = <<s.path, 0>>
           \/ s.pc = "embed" /\ d = <<s.path, s.next>>

\* A document has a vector of its own or its chunks have, unless that is still
\* to be settled, or its vector is gone because it is being redacted.
OneOrOther(s, r, ds, vs) ==
    \A p \in Paths : Serves(ds, <<p, 0>>) =>
        \/ vs[<<p, 0>>] = NONE <=> ds[<<p, 0>>].count > 0
        \/ InHand(s) /\ p = s.path
        \/ r.pc # "idle" /\ r.id = <<p, 0>>

Works == Waits /\ NoFaults /\ VectorsWork
VecInv == Works => /\ Written(sync, docs) /\ Exact(sync, docs, vecs)
                   /\ OneOrOther(sync, redact, docs, vecs)

Vectored == /\ Sound /\ Works /\ Mirrors(sync, docs, vecs) /\ SyncOK(sync') /\ redact' = redact
            /\ redact.pc = "idle"
            /\ Written(sync, docs) /\ Exact(sync, docs, vecs) /\ OneOrOther(sync, redact, docs, vecs)
Matched == /\ Written(sync', docs') /\ Exact(sync', docs', vecs')
           /\ OneOrOther(sync', redact', docs', vecs')

LEMMA NotInHand == ASSUME NEW s, NEW ds, ~InHand(s) PROVE Written(s, ds) /\ s.pc # "embed"
BY DEF Written, InHand, Landing, Chunking

\* A step that leaves the rows and vectors alone, or takes some of them away.
LEMMA ExactStill ==
    ASSUME NEW s, NEW e, NEW ds, NEW dt, NEW vs, NEW vt, Exact(s, ds, vs),
           \A d \in Ids : vt[d] # NONE /\ Serves(dt, d) => vt[d] = vs[d] /\ dt[d] = ds[d],
           InHand(s) => InHand(e) /\ e.path = s.path, s.pc # "embed"
    PROVE  Exact(e, dt, vt)
BY DEF Exact, Serves

LEMMA OneStill ==
    ASSUME NEW s, NEW e, NEW r, NEW ds, NEW dt, NEW vs, NEW vt, OneOrOther(s, r, ds, vs),
           \A p \in Paths : Serves(dt, <<p, 0>>) =>
               /\ vt[<<p, 0>>] = vs[<<p, 0>>] \/ (InHand(e) /\ p = e.path)
               /\ dt[<<p, 0>>] = ds[<<p, 0>>] \/ (InHand(e) /\ p = e.path),
           InHand(s) => InHand(e) /\ e.path = s.path
    PROVE  OneOrOther(e, r, dt, vt)
BY DEF OneOrOther, Serves

LEMMA VectorFollows ==
    ASSUME RowsOK, VectorsWork, NEW d \in Ids, NEW row \in Row, PutDocument(d, row)
    PROVE  /\ \A e \in Ids \ {d} : vecs'[e] = vecs[e]
           /\ vecs'[d] = NONE <=> vecs[d] = NONE
           /\ vecs[d] # NONE => vecs'[d].text = vecs[d].text /\ vecs'[d].tag = row.tag
<1>1. vecs' = Mirrored(d, row)
  BY DEF PutDocument, VectorsWork
<1>2. row.tag \in Tags /\ vecs[d] \in VectorRow \cup {NONE}
  BY DEF Row, RowsOK
<1>3. CASE vecs[d] = NONE
  BY <1>1, <1>3 DEF Mirrored
<1>4. CASE vecs[d] # NONE
  <2>1. vecs' = [vecs EXCEPT ![d] = [vecs[d] EXCEPT !.tag = row.tag]]
    BY <1>1, <1>4 DEF RowsOK, Mirrored
  <2>2. /\ [vecs[d] EXCEPT !.tag = row.tag] \in VectorRow
        /\ [vecs[d] EXCEPT !.tag = row.tag].tag = row.tag
        /\ [vecs[d] EXCEPT !.tag = row.tag].text = vecs[d].text
    BY <1>2, <1>4 DEF VectorRow
  <2>3. vecs'[d] = [vecs[d] EXCEPT !.tag = row.tag] /\ \A e \in Ids \ {d} : vecs'[e] = vecs[e]
    BY <2>1 DEF RowsOK
  <2> QED
    BY <1>4, <2>2, <2>3, CorpusAssumption
<1> QED
  BY <1>3, <1>4

\* A vector that is built, or dropped.
LEMMA VectorSet ==
    ASSUME RowsOK, VectorsWork, NEW d \in Ids, NEW text \in Texts \cup Pieces, NEW tag \in Tags
    PROVE  /\ Embed(d, text, tag) => /\ vecs'[d] # NONE /\ vecs'[d].text = text /\ vecs'[d].tag = tag
                                     /\ \A e \in Ids \ {d} : vecs'[e] = vecs[e]
           /\ DropVector(d) => vecs'[d] = NONE /\ \A e \in Ids \ {d} : vecs'[e] = vecs[e]
<1>1. [text |-> text, tag |-> tag] \in VectorRow
  BY DEF VectorRow
<1>2. [text |-> text, tag |-> tag] # NONE
  BY <1>1, CorpusAssumption
<1> QED
  BY <1>2 DEF Embed, DropVector, VectorsWork, RowsOK

\* The locals a record's steps leave between its put and its end.
Holding(s, e) == e.path = s.path /\ e.records = s.records /\ e.tag = s.tag

LEMMA WrittenStill ==
    ASSUME NEW s, NEW e, NEW ds, NEW dt, Written(s, ds), InHand(s), e.pc # "embed", Holding(s, e),
           dt[<<s.path, 0>>] = ds[<<s.path, 0>>]
    PROVE  Written(e, dt)
BY DEF Written, Holding

LEMMA NextHolds ==
    ASSUME SyncOK(sync), sync.pc \in Chunking, NEW e, e = NextChunk(sync)
    PROVE  Holding(sync, e) /\ InHand(e) /\ e.pc # "embed"
BY DEF SyncOK, Locals, NextChunk, Holding, AfterChunks, InHand, Landing, Chunking

\* Between records, and before the put, nothing is in hand.
LEMMA FreeVectors ==
    ASSUME Vectored, docs' = docs, vecs' = vecs, ~InHand(sync), ~InHand(sync')
    PROVE  Matched
<1>1. sync.pc # "embed"
  BY NotInHand
<1>2. Exact(sync', docs', vecs')
  BY <1>1, ExactStill DEF Vectored
<1>3. OneOrOther(sync', redact', docs', vecs')
  BY OneStill DEF Vectored
<1> QED
  BY <1>2, <1>3, NotInHand DEF Matched

LEMMA HeldVectors ==
    ASSUME Vectored, docs' = docs, vecs' = vecs, InHand(sync), InHand(sync'), Holding(sync, sync'),
           sync.pc # "embed", sync'.pc # "embed"
    PROVE  Matched
<1>1. Exact(sync', docs', vecs')
  BY ExactStill DEF Vectored, Holding
<1>2. OneOrOther(sync', redact', docs', vecs')
  BY OneStill DEF Vectored, Holding
<1>3. Written(sync', docs')
  BY WrittenStill DEF Vectored
<1> QED
  BY <1>1, <1>2, <1>3 DEF Matched

LEMMA QuietVectors ==
    ASSUME Vectored, \/ Start \/ ReadStored \/ Guard \/ ReadChunk \/ ProbeSurplus \/ Retire
                     \/ ListCandidates \/ EndOfRun \/ \E p \in Paths : Plan(p) \/ Prune(p)
    PROVE  Matched
<1>1. SyncOK(sync) /\ RowsOK /\ RestOK /\ sync \in Locals /\ docs' = docs /\ vecs' = vecs
  BY DEF Vectored, Sound, Inv, SyncOK, Start, ReadStored, Guard, ReadChunk, ProbeSurplus, Retire,
     ListCandidates, EndOfRun, Plan, Prune, stores
<1>2. CASE Start
  <2>1. sync.pc \in {"idle", "done"} /\ sync'.pc = "plan"
    BY <1>1, <1>2, StartLocal DEF Start, Resting
  <2> QED
    BY <1>1, <2>1, FreeVectors DEF InHand, Landing, Chunking, Clearing
<1>3. CASE ReadStored
  <2>1. sync.pc = "stored" /\ sync'.pc = "put"
    BY <1>1, <1>3, StoredLocal DEF ReadStored
  <2> QED
    BY <1>1, <2>1, FreeVectors DEF InHand, Landing, Chunking, Clearing
<1>4. CASE Guard
  <2>1. Holding(sync, sync') /\ sync.pc \in {"put", "write"}
        /\ sync'.pc = IF sync.pc = "put" THEN "putting" ELSE "writing"
    BY <1>1, <1>4 DEF Guard, Locals, Holding
  <2>2. CASE sync.pc = "put"
    BY <1>1, <2>1, <2>2, FreeVectors DEF InHand, Landing, Chunking, Clearing
  <2>3. CASE sync.pc = "write"
    BY <1>1, <2>1, <2>3, HeldVectors DEF InHand, Landing, Chunking
  <2> QED
    BY <2>1, <2>2, <2>3
<1>5. CASE ReadChunk
  <2>1. sync.pc = "chunk"
    BY <1>5 DEF ReadChunk
  <2>2. CASE sync' = NextChunk(sync)
    BY <1>1, <2>1, <2>2, NextHolds, HeldVectors DEF InHand, Landing, Chunking
  <2>3. CASE sync' = [sync EXCEPT !.pc = "write", !.row = docs[Chunk]]
    <3>1. Holding(sync, sync') /\ sync'.pc = "write"
      BY <1>1, <2>3 DEF Locals, Holding
    <3> QED
      BY <1>1, <2>1, <3>1, HeldVectors DEF InHand, Landing, Chunking
  <2> QED
    BY <1>5, <2>2, <2>3 DEF ReadChunk
<1>6. CASE ProbeSurplus
  <2>1. sync.pc = "probe" /\ sync'.pc = "surplus" /\ Holding(sync, sync')
    BY <1>1, <1>6 DEF ProbeSurplus, Locals, Holding
  <2> QED
    BY <1>1, <2>1, HeldVectors DEF InHand, Landing, Clearing
<1>7. CASE Retire
  <2>1. sync.pc = "retire" /\ sync'.pc = "tree"
    BY <1>1, <1>7 DEF Retire, Locals
  <2> QED
    BY <1>1, <2>1, FreeVectors DEF InHand, Landing, Chunking, Clearing
<1>8. CASE ListCandidates \/ EndOfRun
  <2>1. sync.pc \in {"plan", "prune"} /\ sync'.pc \in {"prune", "done"}
    BY <1>1, <1>8, ListLocal, EndLocal DEF ListCandidates, EndOfRun
  <2> QED
    BY <1>1, <2>1, FreeVectors DEF InHand, Landing, Chunking, Clearing
<1>9. ASSUME NEW p \in Paths, Plan(p) PROVE Matched
  <2>1. sync.pc = "plan" /\ sync'.pc \in {"plan", "stored", "put"}
    BY <1>1, <1>9, PlanLocal DEF Plan
  <2> QED
    BY <1>1, <2>1, FreeVectors DEF InHand, Landing, Chunking, Clearing
<1>10. ASSUME NEW p \in Paths, Prune(p) PROVE Matched
  <2>1. sync.pc = "prune" /\ sync'.pc \in {"prune", "tree"}
    BY <1>1, <1>10, PruneLocal DEF Prune
  <2> QED
    BY <1>1, <2>1, FreeVectors DEF InHand, Landing, Chunking, Clearing
<1> QED
  BY <1>2, <1>3, <1>4, <1>5, <1>6, <1>7, <1>8, <1>9, <1>10

LEMMA PutVectors == ASSUME Vectored, PutParent PROVE Matched
<1> DEFINE row == [text |-> Text, count |-> Size, tag |-> ParentTag, tomb |-> FALSE]
           w == <<sync.path, 0>>
<1>1. /\ SyncOK(sync) /\ RowsOK /\ sync \in Locals /\ sync.pc = "putting" /\ PutDocument(Whole(sync.path), row)
      /\ sync.path \in Paths
  BY AtWork DEF Vectored, Sound, Inv, PutParent, SyncOK, Working
<1>2. w \in Ids /\ Whole(sync.path) = w /\ Text \in Texts /\ Size \in 0..MaxChunks
  BY <1>1, TargetIs, DeclaredOK
<1>3. row \in Row /\ row.tomb = FALSE /\ row.tag = ParentTag /\ row.text = Text
  BY <1>1, <1>2, ParentTagOK DEF Row
<1>4. /\ sync'.pc \in {"chunk", "probe", "whole"} /\ sync'.path = sync.path
      /\ sync'.records = sync.records /\ sync'.tag = ParentTag
  BY <1>1 DEF PutParent, Locals, AfterChunks
<1> HIDE DEF row
<1>5. docs'[w] = row /\ \A e \in Ids \ {w} : docs'[e] = docs[e]
  BY <1>1, <1>2, <1>3, RowPut
<1>6. /\ \A e \in Ids \ {w} : vecs'[e] = vecs[e]
      /\ vecs'[w] = NONE <=> vecs[w] = NONE
      /\ vecs[w] # NONE => vecs'[w].tag = row.tag
  BY <1>1, <1>2, <1>3, VectorFollows DEF Vectored, Works
<1>7. InHand(sync') /\ ~InHand(sync) /\ sync'.pc # "embed" /\ sync.pc # "embed"
  BY <1>1, <1>4 DEF InHand, Landing, Chunking, Clearing
<1>8. Written(sync', docs')
  BY <1>3, <1>4, <1>5, <1>7 DEF Written, Text
<1>9. Exact(sync', docs', vecs')
  <2> SUFFICES ASSUME NEW d \in Ids, vecs'[d] # NONE, Serves(docs', d)
               PROVE  vecs'[d].tag = docs'[d].tag /\ (vecs'[d].text = docs'[d].text \/ d = w)
    BY <1>4, <1>7 DEF Exact
  <2>1. CASE d = w
    BY <1>5, <1>6, <2>1
  <2>2. CASE d # w
    BY <1>5, <1>6, <1>7, <2>2 DEF Vectored, Exact, Serves
  <2> QED
    BY <2>1, <2>2
<1>10. \A p \in Paths : p # sync.path => <<p, 0>> \in Ids \ {w}
  BY <1>1, DeclaredOK
<1>11. OneOrOther(sync', redact', docs', vecs')
  BY <1>4, <1>5, <1>6, <1>7, <1>10, OneStill DEF Vectored
<1> QED
  BY <1>8, <1>9, <1>11 DEF Matched

LEMMA WriteVectors == ASSUME Vectored, WriteChunk PROVE Matched
<1> DEFINE row == [text |-> Piece, count |-> Size, tag |-> ChunkTag, tomb |-> FALSE]
           w == <<sync.path, 0>>
<1>1. /\ SyncOK(sync) /\ RowsOK /\ sync \in Locals /\ sync.pc = "writing" /\ PutDocument(Chunk, row)
      /\ sync.path \in Paths /\ sync.row = docs[Chunk]
  <2>1. sync.pc = "writing" /\ SyncOK(sync) /\ Knows(Waits, sync, docs) /\ Waits
    BY DEF Vectored, Sound, Inv, SeenOK, WriteChunk
  <2>2. sync.row = docs[Chunk]
    BY <2>1 DEF Knows, KnowsRow, Aim, Chunk
  <2> QED
    BY <2>1, <2>2, AtWork DEF Vectored, Sound, Inv, WriteChunk, SyncOK, Working
<1>2. Chunk \in Ids /\ Piece \in Pieces /\ Size \in 0..MaxChunks /\ Chunk[2] # 0 /\ Chunk # w /\ w \in Ids
  BY <1>1, TargetIs, DeclaredOK DEF Chunking
<1>3. row \in Row /\ row.tomb = FALSE /\ row.tag = ChunkTag /\ row.text = Piece
  BY <1>1, <1>2, ChunkTagOK DEF Row
<1> HIDE DEF row
<1>4. docs'[Chunk] = row /\ \A e \in Ids \ {Chunk} : docs'[e] = docs[e]
  BY <1>1, <1>2, <1>3, RowPut
<1>5. /\ \A e \in Ids \ {Chunk} : vecs'[e] = vecs[e]
      /\ vecs'[Chunk] = NONE <=> vecs[Chunk] = NONE
      /\ vecs[Chunk] # NONE => vecs'[Chunk].tag = row.tag /\ vecs'[Chunk].text = vecs[Chunk].text
  BY <1>1, <1>2, <1>3, VectorFollows DEF Vectored, Works
<1>6. InHand(sync) /\ sync.pc # "embed"
  BY <1>1 DEF InHand, Landing, Chunking
<1>7. /\ Holding(sync, sync') /\ InHand(sync')
      /\ Changed(sync.row) => /\ sync'.pc = "embed" /\ sync'.next = sync.next /\ sync'.row = sync.row
  <2>1. CASE Changed(sync.row)
    BY <1>1, <2>1 DEF WriteChunk, Locals, Holding, InHand, Landing, Chunking
  <2>2. CASE ~Changed(sync.row)
    BY <1>1, <2>2, NextHolds DEF WriteChunk, Chunking
  <2> QED
    BY <2>1, <2>2
<1>8. docs'[w] = docs[w] /\ vecs'[w] = vecs[w]
  BY <1>2, <1>4, <1>5
<1>9. Written(sync', docs')
  <2>1. CASE Changed(sync.row)
    <3>1. TagFor(sync') = ChunkTag /\ PieceOf(sync') = Piece /\ <<sync'.path, sync'.next>> = Chunk
      BY <1>7, <2>1 DEF TagFor, ChunkTag, Changed, PieceOf, Piece, Text, Holding, Chunk
    <3>2. /\ docs'[<<sync'.path, 0>>].text = sync'.records[sync'.path]
          /\ docs'[<<sync'.path, 0>>].tag = sync'.tag
      BY <1>6, <1>7, <1>8 DEF Vectored, Written, Holding
    <3> QED
      BY <1>3, <1>4, <3>1, <3>2 DEF Written
  <2>2. CASE ~Changed(sync.row)
    <3>1. sync'.pc # "embed"
      BY <1>1, <2>2, NextHolds DEF WriteChunk, Chunking
    <3> QED
      BY <1>6, <1>7, <1>8, <3>1, WrittenStill DEF Vectored
  <2> QED
    BY <2>1, <2>2
<1>10. Exact(sync', docs', vecs')
  <2> SUFFICES ASSUME NEW d \in Ids, vecs'[d] # NONE, Serves(docs', d)
               PROVE  /\ vecs'[d].tag = docs'[d].tag
                      /\ \/ vecs'[d].text = docs'[d].text
                         \/ d = w
                         \/ sync'.pc = "embed" /\ d = <<sync.path, sync'.next>>
    BY <1>7 DEF Exact, Holding
  <2>1. CASE d = Chunk
    <3>1. vecs'[d].tag = docs'[d].tag
      BY <1>4, <1>5, <2>1
    <3>2. CASE Changed(sync.row)
      BY <1>7, <2>1, <3>1, <3>2 DEF Chunk
    <3>3. CASE ~Changed(sync.row)
      <4>1. docs[Chunk].text = Piece /\ docs[Chunk] # NONE
        BY <1>1, <3>3 DEF Changed
      <4>2. Serves(docs, Chunk)
        BY <1>1, <1>2, <1>5, <2>1 DEF Vectored, Mirrors
      <4>3. vecs[Chunk].text = docs[Chunk].text
        BY <1>2, <1>5, <1>6, <2>1, <4>2 DEF Vectored, Exact
      <4> QED
        BY <1>3, <1>4, <1>5, <2>1, <3>1, <4>1, <4>3
    <3> QED
      BY <3>2, <3>3
  <2>2. CASE d # Chunk
    BY <1>4, <1>5, <1>6, <2>2 DEF Vectored, Exact, Serves
  <2> QED
    BY <2>1, <2>2
<1>11. \A p \in Paths : <<p, 0>> \in Ids \ {Chunk}
  <2>1. \A p \in Paths : <<p, 0>> \in Ids /\ <<p, 0>> # Chunk
    <3> SUFFICES ASSUME NEW p \in Paths PROVE <<p, 0>> \in Ids /\ <<p, 0>> # Chunk
      OBVIOUS
    <3>1. <<p, 0>>[2] = 0 /\ <<p, 0>> \in Ids
      BY <1>1, DeclaredOK
    <3> QED
      BY <1>2, <3>1
  <2> QED
    BY <2>1
<1>12. OneOrOther(sync', redact', docs', vecs')
  BY <1>4, <1>5, <1>6, <1>7, <1>11, OneStill DEF Vectored, Holding
<1> QED
  BY <1>9, <1>10, <1>12 DEF Matched

LEMMA EmbedVectors == ASSUME Vectored, EmbedChunk PROVE Matched
<1> DEFINE w == <<sync.path, 0>>
<1>1. /\ SyncOK(sync) /\ RowsOK /\ sync.pc = "embed" /\ docs' = docs /\ Embed(Chunk, Piece, ChunkTag)
      /\ sync.path \in Paths /\ sync' = NextChunk(sync)
  BY AtWork DEF Vectored, Sound, Inv, EmbedChunk, SyncOK, Working
<1>2. Chunk \in Ids /\ Piece \in Pieces /\ Chunk[2] # 0 /\ Chunk # w /\ w \in Ids /\ ChunkTag \in Tags
  BY <1>1, TargetIs, DeclaredOK, ChunkTagOK DEF Chunking
<1>3. /\ vecs'[Chunk] # NONE /\ vecs'[Chunk].text = Piece /\ vecs'[Chunk].tag = ChunkTag
      /\ \A e \in Ids \ {Chunk} : vecs'[e] = vecs[e]
  BY <1>1, <1>2, VectorSet DEF Vectored, Works
<1>4. InHand(sync) /\ Holding(sync, sync') /\ InHand(sync') /\ sync'.pc # "embed"
  BY <1>1, NextHolds DEF InHand, Landing, Chunking
<1>5. docs[Chunk].text = Piece /\ docs[Chunk].tag = ChunkTag
  BY <1>1 DEF Vectored, Written, PieceOf, TagFor, ChunkTag, Changed, Piece, Text, Chunk
<1>6. Exact(sync', docs', vecs')
  <2> SUFFICES ASSUME NEW d \in Ids, vecs'[d] # NONE, Serves(docs, d)
               PROVE  vecs'[d].tag = docs[d].tag /\ (vecs'[d].text = docs[d].text \/ d = w)
    BY <1>1, <1>4 DEF Exact, Holding
  <2>1. CASE d = Chunk
    BY <1>3, <1>5, <2>1
  <2>2. CASE d # Chunk
    BY <1>3, <2>2 DEF Vectored, Exact, Chunk
  <2> QED
    BY <2>1, <2>2
<1>7. Written(sync', docs')
  BY <1>1, <1>4, WrittenStill DEF Vectored
<1>8. \A p \in Paths : <<p, 0>> \in Ids \ {Chunk}
  <2>1. \A p \in Paths : <<p, 0>> \in Ids /\ <<p, 0>> # Chunk
    <3> SUFFICES ASSUME NEW p \in Paths PROVE <<p, 0>> \in Ids /\ <<p, 0>> # Chunk
      OBVIOUS
    <3>1. <<p, 0>>[2] = 0 /\ <<p, 0>> \in Ids
      BY <1>1, DeclaredOK
    <3> QED
      BY <1>2, <3>1
  <2> QED
    BY <2>1
<1>9. OneOrOther(sync', redact', docs', vecs')
  BY <1>1, <1>3, <1>4, <1>8, OneStill DEF Vectored, Holding
<1> QED
  BY <1>6, <1>7, <1>9 DEF Matched

LEMMA WholeVectors == ASSUME Vectored, WholeVector PROVE Matched
<1> DEFINE w == <<sync.path, 0>>
<1>1. /\ SyncOK(sync) /\ RowsOK /\ sync \in Locals /\ sync.pc = "whole" /\ docs' = docs
      /\ sync.path \in Paths /\ sync.path # NONE /\ Text \in Texts /\ Size \in 0..MaxChunks
  BY AtWork DEF Vectored, Sound, Inv, WholeVector, SyncOK, Working, Text, Size
<1>2. w \in Ids /\ Whole(sync.path) = w /\ sync.tag \in Tags
  BY <1>1, DeclaredOK, SyncTypes
<1>3. /\ Serves(docs, w) /\ docs[w].count = Size /\ docs[w].text = Text /\ docs[w].tag = sync.tag
  BY <1>1 DEF Vectored, Sound, Stands, StandsParent, Written, InHand, Landing, Declared, Serves, SizeOf,
     Size, Text
<1>4. /\ \A e \in Ids \ {w} : vecs'[e] = vecs[e]
      /\ Size = 0 => vecs'[w] # NONE /\ vecs'[w].text = Text /\ vecs'[w].tag = sync.tag
      /\ Size # 0 => vecs'[w] = NONE
  <2>1. CASE Size = 0
    <3>1. Embed(w, Text, sync.tag)
      BY <1>2, <2>1 DEF WholeVector
    <3> QED
      BY <1>1, <1>2, <2>1, <3>1, VectorSet DEF Vectored, Works
  <2>2. CASE Size # 0
    <3>1. DropVector(w)
      BY <1>2, <2>2 DEF WholeVector
    <3> QED
      BY <1>1, <1>2, <2>2, <3>1, VectorSet DEF Vectored, Works
  <2> QED
    BY <2>1, <2>2
<1>5. ~InHand(sync') /\ sync'.pc # "embed"
  <2>1. sync'.pc \in {"plan", "retire"}
    BY <1>1, WholeLocal
  <2> QED
    BY <2>1 DEF InHand, Landing, Chunking, Clearing
<1>6. Exact(sync', docs', vecs')
  <2> SUFFICES ASSUME NEW d \in Ids, vecs'[d] # NONE, Serves(docs, d)
               PROVE  vecs'[d].tag = docs[d].tag /\ vecs'[d].text = docs[d].text
    BY <1>1 DEF Exact
  <2>1. CASE d = w
    BY <1>3, <1>4, <2>1
  <2>2. CASE d # w
    BY <1>1, <1>4, <2>2 DEF Vectored, Exact
  <2> QED
    BY <2>1, <2>2
<1>7. OneOrOther(sync', redact', docs', vecs')
  <2> SUFFICES ASSUME NEW p \in Paths, Serves(docs, <<p, 0>>)
               PROVE  vecs'[<<p, 0>>] = NONE <=> docs[<<p, 0>>].count > 0
    BY <1>1 DEF OneOrOther
  <2>1. CASE p = sync.path
    <3>1. Size # 0 <=> Size > 0
      BY <1>1, SpansOK
    <3> QED
      BY <1>3, <1>4, <2>1, <3>1
  <2>2. CASE p # sync.path
    <3>1. <<p, 0>> \in Ids \ {w}
      BY <1>1, <2>2, DeclaredOK
    <3> QED
      BY <1>4, <2>2, <3>1 DEF Vectored, OneOrOther
  <2> QED
    BY <2>1, <2>2
<1> QED
  BY <1>5, <1>6, <1>7, NotInHand DEF Matched

\* A document goes, and its vector after it.
LEMMA GoneVectors == ASSUME Vectored, DeleteSurplus \/ DeleteTree \/ DeleteVector PROVE Matched
<1>1. /\ SyncOK(sync) /\ RowsOK /\ sync \in Locals /\ sync.pc \in {"surplus", "tree", "vector"}
      /\ sync.dels \in Seq(Ids \cup {NONE}) /\ sync.pc # "embed"
  BY SyncTypes DEF Vectored, Sound, Inv, DeleteSurplus, DeleteTree, DeleteVector, SyncOK
<1>2. \A d \in Ids : vecs'[d] # NONE /\ Serves(docs', d) => vecs'[d] = vecs[d] /\ docs'[d] = docs[d]
  <2>1. CASE DeleteVector
    BY <1>1, <2>1 DEF DeleteVector, DropVector, RowsOK
  <2>2. CASE DeleteSurplus \/ DeleteTree
    <3>1. vecs' = vecs /\ (docs' = docs \/ Deletes)
      BY <2>2, DeletesOne DEF Vectored, Sound, DeleteSurplus, DeleteTree
    <3> QED
      BY <1>1, <3>1 DEF Deletes, RowsOK, Serves
  <2> QED
    BY <2>1, <2>2
<1>3. \A p \in Paths : Serves(docs', <<p, 0>>) =>
         vecs'[<<p, 0>>] = vecs[<<p, 0>>] /\ docs'[<<p, 0>>] = docs[<<p, 0>>]
  <2>1. \A p \in Paths : <<p, 0>> \in Ids
    BY <1>1, DeclaredOK
  <2>2. CASE DeleteVector
    <3>1. docs' = docs /\ docs[sync.dels[1]] = NONE /\ Head(sync.dels) = sync.dels[1]
      BY <1>1, <2>2, TailOf DEF DeleteVector, SyncOK, Vectored, Sound, Stands, StandsDels
    <3>2. \A p \in Paths : Serves(docs, <<p, 0>>) => <<p, 0>> # sync.dels[1]
      BY <3>1 DEF Serves
    <3> QED
      BY <1>1, <2>1, <2>2, <3>1, <3>2 DEF DeleteVector, DropVector, RowsOK
  <2>3. CASE DeleteSurplus \/ DeleteTree
    <3>1. vecs' = vecs /\ (docs' = docs \/ Deletes)
      BY <2>3, DeletesOne DEF Vectored, Sound, DeleteSurplus, DeleteTree
    <3> QED
      BY <1>1, <2>1, <3>1 DEF Deletes, RowsOK, Serves
  <2> QED
    BY <2>2, <2>3
<1>4. CASE InHand(sync)
  <2>1. Clearing(sync) /\ sync.pc \in {"surplus", "vector"} /\ ~Felling(sync)
    BY <1>1, <1>4 DEF InHand, Landing, Chunking, Clearing, Felling
  <2>2. Holding(sync, sync') /\ InHand(sync') /\ sync'.pc # "embed"
    <3>1. CASE DeleteSurplus
      <4>1. Holding(sync, sync')
        BY <1>1, <3>1 DEF DeleteSurplus, Locals, Holding
      <4>2. sync'.pc \in {"surplus", "whole", "vector"} /\ ~Felling(sync')
        BY <1>1, <3>1, SurplusLocal
      <4> QED
        BY <4>1, <4>2 DEF InHand, Landing, Clearing
    <3>2. CASE DeleteVector
      <4>1. Holding(sync, sync')
        BY <1>1, <3>2 DEF DeleteVector, Locals, Holding
      <4>2. sync'.pc = "surplus"
        BY <1>1, <2>1, <3>2, VectorLocal
      <4> QED
        BY <4>1, <4>2 DEF InHand, Clearing
    <3> QED
      BY <2>1, <3>1, <3>2 DEF DeleteTree
  <2>3. docs'[<<sync.path, 0>>] = docs[<<sync.path, 0>>]
    <3>1. CASE docs' # docs
      <4>1. Deletes /\ sync.pc = "surplus" /\ sync.path \in Paths
        BY <2>1, <3>1, DeletesOne, AtWork DEF Vectored, Sound, Inv, Deletes, DeleteSurplus, DeleteTree,
           DeleteVector, SyncOK, Working
      <4>2. Head(sync.dels) = sync.dels[1] /\ sync.dels[1][2] # 0
        BY <1>1, <2>1, <4>1, TailOf DEF Deletes, Vectored, Sound, Stands, StandsDels
      <4> QED
        BY <1>1, <4>1, <4>2, DeclaredOK DEF Deletes, RowsOK
    <3> QED
      BY <3>1
  <2> QED
    BY <1>1, <1>2, <1>3, <1>4, <2>2, <2>3, ExactStill, OneStill, WrittenStill DEF Matched, Vectored, Holding
<1>5. CASE ~InHand(sync)
  <2>1. ~InHand(sync')
    <3>1. ~Clearing(sync)
      BY <1>5 DEF InHand
    <3>2. CASE DeleteTree
      <4>1. /\ sync'.pc \in {"plan", "prune", "tree"} \/ (sync'.pc = "vector" /\ Felling(sync'))
        <5>1. CASE sync'.pc = "vector"
          <6>1. /\ sync.dels # <<>> /\ sync'.dels = sync.dels /\ sync'.path = sync.path
                /\ Head(sync.dels) # NONE /\ sync.pc = "tree"
            BY <1>1, <3>2, <5>1, EndsRecord DEF DeleteTree, Locals
          <6>2. sync.dels[1][1] # sync.path
            BY <1>1, <6>1, TailOf DEF SyncOK, Foreign
          <6> QED
            BY <5>1, <6>1, <6>2 DEF Felling
        <5> QED
          BY <1>1, <3>2, <5>1, TreeLocal
      <4> QED
        BY <4>1 DEF InHand, Landing, Chunking, Clearing
    <3>3. CASE DeleteVector
      <4>1. sync.dels # <<>> /\ sync.dels[1][1] # sync.path /\ Head(sync.dels) = sync.dels[1]
        BY <1>1, <3>1, <3>3, TailOf DEF DeleteVector, SyncOK, Clearing, Felling
      <4>2. sync'.pc = "tree"
        BY <1>1, <3>3, <4>1 DEF DeleteVector, Locals
      <4> QED
        BY <4>2 DEF InHand, Landing, Chunking, Clearing
    <3>4. ~DeleteSurplus
      BY <3>1 DEF DeleteSurplus, Clearing
    <3> QED
      BY <3>2, <3>3, <3>4
  <2> QED
    BY <1>1, <1>2, <1>3, <1>5, <2>1, ExactStill, OneStill, NotInHand DEF Matched, Vectored
<1> QED
  BY <1>4, <1>5

LEMMA SyncVectors == ASSUME Vectored, Start \/ Run \/ Raise PROVE Matched
<1>1. ~Raise
  BY RaiseStands DEF Vectored, Works
<1> QED
  BY <1>1, QuietVectors, PutVectors, WriteVectors, EmbedVectors, WholeVectors, GoneVectors DEF Run, Record

\* The other writers, where they wait: no record is in hand.
LEMMA OthersVectors ==
    ASSUME Inv, Works, Walked(redact, docs), Mirrors(sync, docs, vecs), Redaction \/ Others,
           Written(sync, docs), Exact(sync, docs, vecs), OneOrOther(sync, redact, docs, vecs)
    PROVE  Matched
<1>1. RowsOK /\ RedactOK /\ sync.pc \in {"idle", "done"} /\ sync' = sync
  BY OthersThin DEF Inv, Works
<1>2. ~InHand(sync) /\ ~InHand(sync') /\ sync.pc # "embed"
  BY <1>1 DEF InHand, Landing, Chunking, Clearing
<1>3. /\ \A d \in Ids : vecs[d] # NONE => Serves(docs, d) /\ vecs[d].tag = docs[d].tag /\ vecs[d].text = docs[d].text
      /\ \A p \in Paths : Serves(docs, <<p, 0>>) =>
            (vecs[<<p, 0>>] = NONE <=> docs[<<p, 0>>].count > 0) \/ (redact.pc # "idle" /\ redact.id = <<p, 0>>)
  BY <1>1, <1>2 DEF Mirrors, Exact, OneOrOther
<1>4. \A p \in Paths : <<p, 0>> \in Ids
  BY <1>1, DeclaredOK
<1> SUFFICES /\ \A d \in Ids : vecs'[d] # NONE /\ Serves(docs', d) =>
                   vecs'[d].tag = docs'[d].tag /\ vecs'[d].text = docs'[d].text
             /\ \A p \in Paths : Serves(docs', <<p, 0>>) =>
                   \/ vecs'[<<p, 0>>] = NONE <=> docs'[<<p, 0>>].count > 0
                   \/ redact'.pc # "idle" /\ redact'.id = <<p, 0>>
  BY <1>2, NotInHand DEF Matched, Exact, OneOrOther
<1>5. ASSUME NEW d \in Ids, Demote(d)
      PROVE  /\ \A e \in Ids : vecs'[e] # NONE /\ Serves(docs', e) =>
                   vecs'[e].tag = docs'[e].tag /\ vecs'[e].text = docs'[e].text
             /\ \A p \in Paths : Serves(docs', <<p, 0>>) =>
                   \/ vecs'[<<p, 0>>] = NONE <=> docs'[<<p, 0>>].count > 0
                   \/ redact'.pc # "idle" /\ redact'.id = <<p, 0>>
  <2> DEFINE row == [docs[d] EXCEPT !.tag = "noise"]
  <2>1. docs[d] \in Row /\ docs[d] # NONE
    BY <1>1, <1>5 DEF Demote, RowsOK
  <2>2. /\ row \in Row /\ row.tomb = docs[d].tomb /\ row.count = docs[d].count
        /\ row.text = docs[d].text
    BY <2>1 DEF Row, Tags
  <2>3. PutDocument(d, row) /\ redact' = redact
    BY <1>5 DEF Demote
  <2>4. row # NONE /\ (row.tomb => row.text = BLANK)
    BY <1>1, <2>1, <2>2, CorpusAssumption DEF RowsOK, Tomb
  <2> HIDE DEF row
  <2>5. docs'[d] = row /\ \A e \in Ids \ {d} : docs'[e] = docs[e]
    BY <1>1, <2>2, <2>3, <2>4, RowPut
  <2>6. /\ \A e \in Ids \ {d} : vecs'[e] = vecs[e]
        /\ vecs'[d] = NONE <=> vecs[d] = NONE
        /\ vecs[d] # NONE => vecs'[d].text = vecs[d].text /\ vecs'[d].tag = row.tag
    BY <1>1, <2>2, <2>3, VectorFollows DEF Works
  <2>7. \A e \in Ids : vecs'[e] # NONE /\ Serves(docs', e) =>
           vecs'[e].tag = docs'[e].tag /\ vecs'[e].text = docs'[e].text
    <3> SUFFICES ASSUME NEW e \in Ids, vecs'[e] # NONE
                 PROVE  vecs'[e].tag = docs'[e].tag /\ vecs'[e].text = docs'[e].text
      OBVIOUS
    <3>1. CASE e = d
      BY <1>3, <2>2, <2>5, <2>6, <3>1
    <3>2. CASE e # d
      BY <1>3, <2>5, <2>6, <3>2
    <3> QED
      BY <3>1, <3>2
  <2>8. \A p \in Paths : Serves(docs', <<p, 0>>) =>
           \/ vecs'[<<p, 0>>] = NONE <=> docs'[<<p, 0>>].count > 0
           \/ redact'.pc # "idle" /\ redact'.id = <<p, 0>>
    <3> SUFFICES ASSUME NEW p \in Paths, Serves(docs', <<p, 0>>)
                 PROVE  \/ vecs'[<<p, 0>>] = NONE <=> docs'[<<p, 0>>].count > 0
                        \/ redact.pc # "idle" /\ redact.id = <<p, 0>>
      BY <2>3
    <3>1. CASE <<p, 0>> = d
      <4>1. Serves(docs, d)
        BY <2>1, <2>2, <2>5, <3>1 DEF Serves
      <4> QED
        BY <1>3, <2>2, <2>5, <2>6, <3>1, <4>1
    <3>2. CASE <<p, 0>> # d
      BY <1>3, <1>4, <2>5, <2>6, <3>2 DEF Serves
    <3> QED
      BY <3>1, <3>2
  <2> QED
    BY <2>7, <2>8
<1>6. ASSUME NEW d \in Ids, RedactVector(d)
      PROVE  /\ \A e \in Ids : vecs'[e] # NONE /\ Serves(docs', e) =>
                   vecs'[e].tag = docs'[e].tag /\ vecs'[e].text = docs'[e].text
             /\ \A p \in Paths : Serves(docs', <<p, 0>>) =>
                   \/ vecs'[<<p, 0>>] = NONE <=> docs'[<<p, 0>>].count > 0
                   \/ redact'.pc # "idle" /\ redact'.id = <<p, 0>>
  <2>1. /\ docs' = docs /\ redact.pc = "idle" /\ redact'.pc = "read" /\ redact'.id = d
        /\ vecs' = [vecs EXCEPT ![d] = NONE]
    BY <1>1, <1>6 DEF RedactVector, RedactOK, Redactions
  <2>2. vecs'[d] = NONE /\ \A e \in Ids \ {d} : vecs'[e] = vecs[e]
    BY <1>1, <2>1 DEF RowsOK
  <2> QED
    BY <1>3, <1>4, <2>1, <2>2
<1>7. ASSUME NEW d \in Ids, Tombstone(d)
      PROVE  /\ ~Serves(docs', d) /\ \A e \in Ids \ {d} : docs'[e] = docs[e] /\ vecs'[e] = vecs[e]
  <2>1. ~Serves(docs', d) /\ \A e \in Ids \ {d} : docs'[e] = docs[e]
    BY <1>1, <1>7, Blanks
  <2>2. \A e \in Ids \ {d} : vecs'[e] = vecs[e]
    BY <1>1, <1>7 DEF Tombstone, stores, RowsOK
  <2> QED
    BY <2>1, <2>2
<1>8. CASE RedactChunk
  <2>1. redact.pc = "chunk" /\ redact'.pc # "idle" /\ redact'.id = redact.id /\ redact.id \in Ids
    BY <1>1, <1>8 DEF RedactChunk, RedactOK, Redactions
  <2>2. CASE docs' = docs /\ vecs' = vecs
    BY <1>3, <2>1, <2>2
  <2>3. CASE ~(docs' = docs /\ vecs' = vecs)
    <3> DEFINE c == <<redact.id[1], redact.next>>
    <3>1. ~PastEnd(redact.next) /\ Tombstone(c)
      BY <1>8, <2>3 DEF RedactChunk, stores
    <3>2. redact.id[1] \in Paths /\ redact.next \in 0..MaxChunks
      BY <1>1, <2>1, <3>1, PathOf, SpansOK DEF PastEnd, PastDeclared, RedactOK, Redactions
    <3>3. c \in Ids
      BY <3>2, IdOf
    <3> HIDE DEF c
    <3>4. ~Serves(docs', c) /\ \A e \in Ids \ {c} : docs'[e] = docs[e] /\ vecs'[e] = vecs[e]
      BY <1>7, <3>1, <3>3
    <3> QED
      BY <1>3, <1>4, <2>1, <3>3, <3>4 DEF Serves
  <2> QED
    BY <2>2, <2>3
<1>9. CASE RedactParent
  <2>1. redact.id \in Ids /\ Tombstone(redact.id) /\ redact.pc = "parent"
    BY <1>1, <1>9 DEF RedactParent, RedactOK
  <2>2. /\ ~Serves(docs', redact.id)
        /\ \A e \in Ids \ {redact.id} : docs'[e] = docs[e] /\ vecs'[e] = vecs[e]
    BY <1>7, <2>1
  <2> QED
    BY <1>3, <1>4, <2>1, <2>2 DEF Serves
<1>10. CASE ReadDeclared
  <2>1. /\ docs' = docs /\ vecs' = vecs /\ redact.pc = "read" /\ redact'.id = redact.id
        /\ redact'.pc # "idle"
    BY <1>1, <1>10 DEF ReadDeclared, stores, RedactOK, Redactions
  <2> QED
    BY <1>3, <2>1
<1>11. ~RedactionFails
  BY DEF RedactionFails, Works, NoFaults, VectorsWork
<1>12. ASSUME NEW p \in Paths, NEW t \in Texts \cup {NONE}, ChangeFile(p, t)
       PROVE  docs' = docs /\ vecs' = vecs /\ redact' = redact
  BY <1>12 DEF ChangeFile, stores
<1> QED
  BY <1>3, <1>5, <1>6, <1>8, <1>9, <1>10, <1>11, <1>12 DEF Redaction, Others

LEMMA VectorsStep == Inv /\ BlankInv /\ VecInv /\ [Next]_vars => VecInv'
<1> SUFFICES ASSUME Inv, BlankInv, VecInv, [Next]_vars PROVE VecInv'
  OBVIOUS
<1>1. Inv' /\ env' = env
  BY InvStep, RestStep DEF vars
<1>2. Works' = Works
  BY <1>1 DEF Works, Waits, NoFaults, VectorsWork
<1>3. Matched => /\ Written(sync, docs)' /\ Exact(sync, docs, vecs)'
                 /\ OneOrOther(sync, redact, docs, vecs)'
  BY DEF Matched, Written, Exact, OneOrOther, InHand, Clearing, Felling, Serves, PieceOf, TagFor, TagOf
<1> SUFFICES ASSUME Works PROVE Matched
  BY <1>2, <1>3 DEF VecInv
<1>4. /\ Sound /\ Walked(redact, docs) /\ Mirrors(sync, docs, vecs)
      /\ Written(sync, docs) /\ Exact(sync, docs, vecs) /\ OneOrOther(sync, redact, docs, vecs)
  BY DEF Sound, BlankInv, VecInv, Works
<1>5. CASE Start \/ Run \/ Raise
  <2>1. SyncOK(sync') /\ redact' = redact /\ redact.pc = "idle"
    BY <1>4, <1>5, SyncKeeps, SyncTurns DEF Kept, Works
  <2> QED
    BY <1>4, <1>5, <2>1, SyncVectors DEF Vectored
<1>6. CASE Redaction \/ Others
  BY <1>4, <1>6, OthersVectors
<1>7. CASE UNCHANGED vars
  BY <1>4, <1>7 DEF vars, stores, Matched
<1> QED
  BY <1>5, <1>6, <1>7 DEF Next

LEMMA InitVectors == Init => VecInv
<1> SUFFICES ASSUME Init PROVE VecInv
  OBVIOUS
<1>1. sync.pc = "idle" /\ \A d \in Ids : docs[d] = NONE
  BY IdleSync DEF Init
<1>2. ~InHand(sync)
  BY <1>1 DEF InHand, Landing, Chunking, Clearing
<1>3. 0 \in 0..MaxChunks
  BY SpansOK
<1>4. \A p \in Paths : docs[<<p, 0>>] = NONE
  BY <1>1, <1>3, IdOf
<1> QED
  BY <1>1, <1>2, <1>4, NotInHand DEF VecInv, Exact, OneOrOther, Serves

LEMMA VectorsSaid == Inv /\ BlankInv /\ VecInv => VectorsMirrorRows
<1> SUFFICES ASSUME Inv, BlankInv, VecInv, Works, Resting, redact.pc = "idle"
             PROVE  /\ \A d \in Ids : vecs[d] # NONE => HasText(d, vecs[d].text) /\ docs[d].tag = vecs[d].tag
                    /\ \A p \in Paths : Live(Whole(p)) =>
                          (vecs[Whole(p)] = NONE <=> docs[Whole(p)].count > 0)
  BY DEF VectorsMirrorRows, Works
<1>1. ~InHand(sync) /\ sync.pc # "embed" /\ sync.pc # "vector"
  BY DEF InHand, Landing, Chunking, Clearing, Resting
<1>2. \A d \in Ids : vecs[d] # NONE => HasText(d, vecs[d].text) /\ docs[d].tag = vecs[d].tag
  BY <1>1 DEF BlankInv, Mirrors, VecInv, Exact, Works, HasText, Serves
<1>3. \A p \in Paths : Live(Whole(p)) => (vecs[Whole(p)] = NONE <=> docs[Whole(p)].count > 0)
  BY <1>1 DEF VecInv, OneOrOther, Live, Serves, Whole
<1> QED
  BY <1>2, <1>3

\* Whatever syncs, redactions and demotions did before, where no call fails,
\* every vector stands for a row of the document store, with its text and its
\* tag, and a document has either one vector of its own or its chunks have.
THEOREM VectorsAlwaysMirror == Spec => []VectorsMirrorRows
<1>1. Spec => []BlankInv
  BY InitBlank, BlankStep, Invariant, PTL DEF Spec
<1>2. Spec => []VecInv
  BY <1>1, InitVectors, VectorsStep, Invariant, PTL DEF Spec
<1> QED
  BY <1>1, <1>2, Invariant, VectorsSaid, PTL
-----------------------------------------------------------------------------
(* A quiet run lands its records *)

Is(ds, d, text) == ds[d] # NONE /\ ds[d].text = text

\* The first m pieces of a text are in place, or redacted.
Holds(ds, p, t, m) == \A i \in 1..m : Buried(ds, <<p, i>>) \/ Is(ds, <<p, i>>, Spans[t][i])

\* Nothing is served within reach beyond the first n chunks.
Gap(ds, p, n, i) == \E j \in (n + 1)..(i - 1) : ds[<<p, j>>] = NONE
Clear(ds, p, n) == \A i \in (n + 1)..MaxChunks : Serves(ds, <<p, i>>) => Gap(ds, p, n, i)

Lands(ds, p, t) ==
    /\ Is(ds, <<p, 0>>, t) /\ Holds(ds, p, t, Len(Spans[t]))
    /\ Len(Spans[t]) > 0 => Clear(ds, p, Len(Spans[t]))

Bare(ds, p) == \A i \in 1..MaxChunks : ~Serves(ds, <<p, i>>)

\* The parent of every document tells its pieces.
Sized(ds) ==
    \A p \in Paths : Serves(ds, <<p, 0>>) =>
        /\ ds[<<p, 0>>].text \in Texts
        /\ ds[<<p, 0>>].count = Len(Spans[ds[<<p, 0>>].text])

\* What is felled, or may be, is no record; and a prune waits for all of them.
Elsewhere(s) ==
    /\ DOMAIN s.cands \cap DOMAIN s.records = {}
    /\ Felling(s) => \A k \in DOMAIN s.dels :
                        s.dels[k] # NONE => s.dels[k][1] \notin DOMAIN s.records
    /\ s.pc \in {"prune", "done"} \/ (s.path = NONE /\ s.pc \in {"tree", "vector"}) => s.todo = {}

\* A document that is to come has no chunk yet.
Ahead(s, ds) == \A p \in s.todo \ {s.path} : ds[<<p, 0>>] = NONE => Bare(ds, p)
Ready(s, ds) ==
    s.pc \in {"stored", "put", "putting"} /\ s.action # "update" => Bare(ds, s.path)

\* The record under way, from the put of its parent on: the chunks that are
\* in place, and what is left beyond them.
Placed(s) == s.path # NONE /\ s.pc \notin {"stored", "put", "putting"}
Reaches(s) ==
    IF s.pc \in {"chunk", "write", "writing"} THEN s.next - 1
    ELSE IF s.pc = "embed" THEN s.next ELSE SizeOf(s)
Surplus(s, ds) ==
    /\ \A k \in DOMAIN s.dels : s.dels[k][2] # 0 /\ s.dels[k][2] \notin 1..SizeOf(s)
    /\ s.pc = "vector" => ~Serves(ds, s.dels[1])
    /\ \A i \in (SizeOf(s) + 1)..MaxChunks : Serves(ds, <<s.path, i>>) =>
          Listed(s, <<s.path, i>>) \/ Gap(ds, s.path, SizeOf(s), i)
Beyond(s, ds) ==
    /\ s.pc \in Chunking /\ s.action # "update" =>
          \A i \in (SizeOf(s) + 1)..MaxChunks : ~Serves(ds, <<s.path, i>>)
    /\ Clearing(s) => Surplus(s, ds)
    /\ s.pc \in {"whole", "retire"} \/ Felling(s) => Clear(ds, s.path, SizeOf(s))
InPlace(s, ds) ==
    /\ Is(ds, <<s.path, 0>>, s.records[s.path])
    /\ Holds(ds, s.path, s.records[s.path], Reaches(s))
    /\ Beyond(s, ds)

\* The records that are done with.
Past(s) == DOMAIN s.records \ (s.todo \cup s.failed \cup {s.path})
Done(s, ds) == \A p \in Past(s) : Buried(ds, <<p, 0>>) \/ Lands(ds, p, s.records[p])

Underway(s, ds) == Ahead(s, ds) /\ Ready(s, ds) /\ (Placed(s) => InPlace(s, ds))
Quiet(s, ds) == s.quiet => (Busy(s) => Underway(s, ds)) /\ Done(s, ds)

LandInv ==
    /\ Sized(docs) /\ Elsewhere(sync) /\ Quiet(sync, docs)
    /\ sync.quiet /\ Busy(sync) => redact.pc = "idle"

\* What a probe upward walks over, and what it stops at.
LEMMA ProbeIs ==
    ASSUME NEW p \in Paths, NEW i \in 0..(MaxChunks + 1)
    PROVE  /\ FirstAbsent(p, i) \in i..(MaxChunks + 1)
           /\ FirstAbsent(p, i) > MaxChunks \/ docs[<<p, FirstAbsent(p, i)>>] = NONE
           /\ \A k \in i..(FirstAbsent(p, i) - 1) : docs[<<p, k>>] # NONE
<1> DEFINE S == {j \in i..(MaxChunks + 1) : j > MaxChunks \/ docs[<<p, j>>] = NONE}
<1>1. S \subseteq Nat /\ S # {}
  <2>1. MaxChunks + 1 \in S
    BY SpansOK
  <2> QED
    BY <2>1
<1>2. PICK j \in S : \A k \in S : j <= k
  <2> HIDE DEF S
  <2> QED
    BY <1>1, LeastNatural
<1>3. \A k \in i..(j - 1) : docs[<<p, k>>] # NONE
  <2> SUFFICES ASSUME NEW k \in i..(j - 1), docs[<<p, k>>] = NONE PROVE FALSE
    OBVIOUS
  <2>1. k \in S
    BY <1>2, SpansOK
  <2> QED
    BY <1>2, <2>1, SpansOK
<1>4. j \in i..(MaxChunks + 1) /\ (j > MaxChunks \/ docs[<<p, j>>] = NONE)
  BY <1>2
<1> HIDE DEF S
<1> QED
  BY <1>3, <1>4 DEF FirstAbsent

\* Beyond the first row that is absent everything is behind a gap.
LEMMA GapAfter ==
    ASSUME NEW p \in Paths, NEW n \in 0..MaxChunks, NEW i \in (n + 1)..(MaxChunks + 1),
           NEW k \in i..MaxChunks, k >= FirstAbsent(p, i), docs[<<p, k>>] # NONE
    PROVE  Gap(docs, p, n, k)
<1>1. PICK f : f = FirstAbsent(p, i)
  OBVIOUS
<1>2. f \in i..(MaxChunks + 1) /\ (f > MaxChunks \/ docs[<<p, f>>] = NONE)
  BY <1>1, ProbeIs, SpansOK
<1>3. f # k /\ f <= MaxChunks
  BY <1>1, <1>2, SpansOK
<1>4. f \in (n + 1)..(k - 1) /\ docs[<<p, f>>] = NONE
  BY <1>1, <1>2, <1>3, SpansOK
<1> QED
  BY <1>4 DEF Gap

-----------------------------------------------------------------------------
\* Every row of a document stays as it is.
Untouched(ds, dt, p) == \A i \in 0..MaxChunks : dt[<<p, i>>] = ds[<<p, i>>]

LEMMA Within ==
    /\ 0 \in 0..MaxChunks /\ MaxChunks \in Nat
    /\ \A n \in Nat : \A i \in (n + 1)..MaxChunks : i \in 0..MaxChunks /\ i \in 1..MaxChunks
    /\ \A n \in 0..MaxChunks : n \in Nat
BY SpansOK

LEMMA UntouchedStays ==
    ASSUME NEW ds, NEW dt, NEW p, Untouched(ds, dt, p)
    PROVE  /\ dt[<<p, 0>>] = ds[<<p, 0>>]
           /\ Bare(ds, p) => Bare(dt, p)
           /\ \A t : \A m \in 0..MaxChunks : Holds(ds, p, t, m) => Holds(dt, p, t, m)
           /\ \A n \in 0..MaxChunks : Clear(ds, p, n) => Clear(dt, p, n)
           /\ \A t \in Texts : Lands(ds, p, t) => Lands(dt, p, t)
<1>1. \A i \in 0..MaxChunks : dt[<<p, i>>] = ds[<<p, i>>]
  BY DEF Untouched
<1>2. dt[<<p, 0>>] = ds[<<p, 0>>]
  BY <1>1, Within
<1>3. Bare(ds, p) => Bare(dt, p)
  BY <1>1, Within DEF Bare, Serves
<1>4. ASSUME NEW t, NEW m \in 0..MaxChunks, Holds(ds, p, t, m) PROVE Holds(dt, p, t, m)
  <2>1. \A i \in 1..m : i \in 0..MaxChunks
    BY Within
  <2> QED
    BY <1>1, <1>4, <2>1 DEF Holds, Is, Buried
<1>5. ASSUME NEW n \in 0..MaxChunks, Clear(ds, p, n) PROVE Clear(dt, p, n)
  <2> SUFFICES ASSUME NEW i \in (n + 1)..MaxChunks, Serves(dt, <<p, i>>) PROVE Gap(dt, p, n, i)
    BY DEF Clear
  <2>1. Serves(ds, <<p, i>>)
    BY <1>1, Within DEF Serves
  <2>2. Gap(ds, p, n, i)
    BY <1>5, <2>1 DEF Clear
  <2>3. \A j \in (n + 1)..(i - 1) : j \in 0..MaxChunks
    BY Within
  <2> QED
    BY <1>1, <2>2, <2>3 DEF Gap
<1>6. ASSUME NEW t \in Texts, Lands(ds, p, t) PROVE Lands(dt, p, t)
  <2>1. Len(Spans[t]) \in 0..MaxChunks
    BY SpansOK
  <2> QED
    BY <1>2, <1>4, <1>5, <1>6, <2>1 DEF Lands, Is
<1> QED
  BY <1>2, <1>3, <1>4, <1>5, <1>6

\* A redaction and a demotion add no row and take none away, and leave a text
\* or a blank.
Fades(ds, dt) ==
    \A d \in Ids : /\ dt[d] = NONE <=> ds[d] = NONE
                   /\ Buried(ds, d) => Buried(dt, d)
                   /\ Serves(dt, d) => /\ Serves(ds, d) /\ dt[d].text = ds[d].text
                                       /\ dt[d].count = ds[d].count

LEMMA FadesStays ==
    ASSUME NEW ds, NEW dt, NEW p \in Paths, Fades(ds, dt), NEW t \in Texts,
           Buried(ds, <<p, 0>>) \/ Lands(ds, p, t)
    PROVE  Buried(dt, <<p, 0>>) \/ Lands(dt, p, t)
<1>0. \A i \in 0..MaxChunks : <<p, i>> \in Ids
  BY IdOf
<1>1. \A i \in 0..MaxChunks : \A x :
         Buried(ds, <<p, i>>) \/ Is(ds, <<p, i>>, x) => Buried(dt, <<p, i>>) \/ Is(dt, <<p, i>>, x)
  BY <1>0 DEF Fades, Buried, Is, Serves
<1>2. CASE Buried(ds, <<p, 0>>)
  BY <1>0, <1>2, Within DEF Fades
<1>3. CASE Lands(ds, p, t) /\ ~Buried(dt, <<p, 0>>)
  <2>1. Len(Spans[t]) \in 0..MaxChunks
    BY SpansOK
  <2>2. Is(dt, <<p, 0>>, t)
    BY <1>1, <1>3, Within DEF Lands
  <2>3. \A i \in 1..Len(Spans[t]) : i \in 0..MaxChunks
    BY <2>1, Within
  <2>4. Holds(dt, p, t, Len(Spans[t]))
    BY <1>1, <1>3, <2>3 DEF Lands, Holds
  <2>5. ASSUME Clear(ds, p, Len(Spans[t])) PROVE Clear(dt, p, Len(Spans[t]))
    <3> SUFFICES ASSUME NEW i \in (Len(Spans[t]) + 1)..MaxChunks, Serves(dt, <<p, i>>)
                 PROVE  Gap(dt, p, Len(Spans[t]), i)
      BY DEF Clear
    <3>1. Serves(ds, <<p, i>>)
      BY <1>0, <2>1, Within DEF Fades
    <3>2. Gap(ds, p, Len(Spans[t]), i)
      BY <2>5, <3>1 DEF Clear
    <3>3. \A j \in (Len(Spans[t]) + 1)..(i - 1) : j \in 0..MaxChunks
      BY <2>1, Within
    <3> QED
      BY <1>0, <3>2, <3>3 DEF Gap, Fades
  <2> QED
    BY <1>3, <2>2, <2>4, <2>5 DEF Lands
<1> QED
  BY <1>2, <1>3

LEMMA BlankFades ==
    ASSUME RowsOK, NEW d \in Ids, Tombstone(d)
    PROVE  Fades(docs, docs')
<1>1. CASE docs[d] = NONE
  BY <1>1 DEF Tombstone, stores, Fades, Serves, Buried
<1>2. CASE docs[d] # NONE
  <2>1. docs' = [docs EXCEPT ![d] = Blanked(docs[d])]
    BY <1>2 DEF Tombstone
  <2>2. docs[d] \in Row
    BY <1>2 DEF RowsOK
  <2>3. Blanked(docs[d]) \in Row /\ Blanked(docs[d]).tomb
    BY <2>2 DEF Blanked, Row, Tags
  <2>4. Blanked(docs[d]) # NONE
    BY <2>3, CorpusAssumption
  <2>5. docs'[d] = Blanked(docs[d]) /\ \A e \in Ids \ {d} : docs'[e] = docs[e]
    BY <2>1 DEF RowsOK
  <2> QED
    BY <1>2, <2>3, <2>4, <2>5 DEF Fades, Serves, Buried
<1> QED
  BY <1>1, <1>2

LEMMA DemoteFades ==
    ASSUME RowsOK, NEW d \in Ids, Demote(d)
    PROVE  Fades(docs, docs')
<1> DEFINE row == [docs[d] EXCEPT !.tag = "noise"]
<1>1. docs[d] \in Row /\ docs[d] # NONE
  BY DEF Demote, RowsOK
<1>2. row \in Row /\ row.tomb = docs[d].tomb /\ row.count = docs[d].count /\ row.text = docs[d].text
  BY <1>1 DEF Row, Tags
<1>3. PutDocument(d, row)
  BY DEF Demote
<1>4. row # NONE
  BY <1>2, CorpusAssumption
<1>5. row.tomb => row.text = BLANK
  BY <1>1, <1>2 DEF RowsOK, Tomb
<1> HIDE DEF row
<1>6. docs'[d] = row /\ \A e \in Ids \ {d} : docs'[e] = docs[e]
  BY <1>2, <1>3, <1>5, RowPut
<1> QED
  BY <1>1, <1>2, <1>4, <1>6 DEF Fades, Serves, Buried

LEMMA OthersFade == ASSUME Inv, Redaction \/ Others PROVE Fades(docs, docs')
<1>1. RowsOK /\ RedactOK
  BY DEF Inv
<1>2. CASE docs' = docs
  BY <1>2 DEF Fades
<1>3. CASE RedactParent
  BY <1>1, <1>3, BlankFades DEF RedactParent, RedactOK
<1>4. CASE RedactChunk /\ docs' # docs
  <2>1. /\ redact.pc = "chunk" /\ redact \in Redactions /\ redact.id \in Ids
        /\ ~PastEnd(redact.next) /\ Tombstone(<<redact.id[1], redact.next>>)
    BY <1>1, <1>4 DEF RedactChunk, RedactOK, stores
  <2>2. redact.id[1] \in Paths /\ redact.next \in 0..MaxChunks
    BY <2>1, PathOf, SpansOK DEF PastEnd, PastDeclared, Redactions
  <2> QED
    BY <1>1, <2>1, <2>2, IdOf, BlankFades
<1>5. ASSUME NEW d \in Ids, Demote(d) PROVE Fades(docs, docs')
  BY <1>1, <1>5, DemoteFades
<1> QED
  BY <1>2, <1>3, <1>4, <1>5 DEF Redaction, Others, RedactVector, ReadDeclared, RedactionFails,
     ChangeFile, stores

\* A quiet run at work is left alone.
LEMMA OthersLeave ==
    ASSUME SyncOK(sync), sync.quiet /\ Busy(sync) => redact.pc = "idle", Redaction \/ Others, sync'.quiet
    PROVE  /\ sync' = sync
           /\ Busy(sync) => docs' = docs /\ redact'.pc = "idle"
<1>1. sync \in Locals
  BY DEF SyncOK
<1>2. ASSUME NEW blanked, Disturb(blanked) PROVE Resting /\ sync' = sync
  <2>1. CASE ~Resting
    <3> DEFINE late == sync.late \/ (sync.pc \in {"putting", "writing"} /\ Target \in blanked)
    <3>1. sync' = [sync EXCEPT !.quiet = FALSE, !.late = late]
      BY <1>2, <2>1 DEF Disturb
    <3> HIDE DEF late
    <3> QED
      BY <1>1, <3>1 DEF Locals
  <2> QED
    BY <1>2, <2>1 DEF Disturb
<1>3. Resting => ~Busy(sync)
  BY DEF Resting, Busy
<1>4. CASE Redaction /\ ~RedactionFails
  <2>1. \E blanked : Disturb(blanked)
    BY <1>4 DEF Redaction, RedactVector, ReadDeclared, RedactChunk, RedactParent
  <2> QED
    BY <1>2, <1>3, <2>1
<1>5. CASE RedactionFails
  BY <1>5 DEF RedactionFails
<1>6. CASE Others
  BY <1>2, <1>3, <1>6 DEF Others, ChangeFile, Demote, stores
<1> QED
  BY <1>4, <1>5, <1>6

-----------------------------------------------------------------------------
Laid == Inv /\ SyncOK(sync') /\ Elsewhere(sync) /\ Quiet(sync, docs)
Lies == Elsewhere(sync') /\ Quiet(sync', docs')

\* A step of a run touches the record under way, or no record.
LEMMA RunTouches ==
    ASSUME Inv, Elsewhere(sync), Start \/ Run \/ Raise
    PROVE  \A p \in DOMAIN sync.records \ {sync.path} : Untouched(docs, docs', p)
<1>1. RowsOK /\ SyncOK(sync) /\ DOMAIN sync.records \subseteq Paths
  BY SyncTypes DEF Inv
<1>2. CASE docs' = docs
  BY <1>2 DEF Untouched
<1>3. ASSUME NEW d \in Ids, d[1] = sync.path \/ d[1] \notin DOMAIN sync.records,
             \A e \in Ids \ {d} : docs'[e] = docs[e]
      PROVE  \A p \in DOMAIN sync.records \ {sync.path} : Untouched(docs, docs', p)
  <2> SUFFICES ASSUME NEW p \in DOMAIN sync.records \ {sync.path}, NEW i \in 0..MaxChunks
               PROVE  docs'[<<p, i>>] = docs[<<p, i>>]
    BY DEF Untouched
  <2>1. <<p, i>> \in Ids /\ <<p, i>>[1] = p
    BY <1>1, IdOf
  <2>2. <<p, i>> # d
    BY <1>3, <2>1
  <2> QED
    BY <1>3, <2>1, <2>2
<1>4. CASE PutParent \/ WriteChunk
  <2>1. Target \in Ids /\ Target[1] = sync.path /\ \A e \in Ids \ {Target} : docs'[e] = docs[e]
    BY <1>1, <1>4, SyncPuts DEF Whole, Chunk
  <2> QED
    BY <1>3, <2>1
<1>5. CASE Deletes
  <2>1. /\ Head(sync.dels) \in Ids /\ Head(sync.dels) = sync.dels[1] /\ 1 \in DOMAIN sync.dels
        /\ \A e \in Ids \ {Head(sync.dels)} : docs'[e] = docs[e]
    BY <1>1, <1>5, SyncTypes, TailOf DEF Deletes, RowsOK
  <2>2. CASE sync.pc = "surplus"
    BY <1>1, <1>3, <2>1, <2>2 DEF SyncOK, Own
  <2>3. CASE sync.pc = "tree"
    <3>1. Head(sync.dels)[1] \notin DOMAIN sync.records
      BY <2>1, <2>3, PathOf DEF Elsewhere, Felling
    <3> QED
      BY <1>3, <2>1, <3>1
  <2> QED
    BY <1>5, <2>2, <2>3 DEF Deletes
<1> QED
  BY <1>2, <1>4, <1>5, SyncRows

LEMMA DoneStays ==
    ASSUME NEW s, NEW e, NEW ds, NEW dt, SyncOK(s), Done(s, ds), e.records = s.records,
           \A p \in DOMAIN s.records \ {s.path} : Untouched(ds, dt, p), Past(e) \subseteq Past(s)
    PROVE  Done(e, dt)
<1> SUFFICES ASSUME NEW p \in Past(e) PROVE Buried(dt, <<p, 0>>) \/ Lands(dt, p, e.records[p])
  BY DEF Done
<1>1. p \in DOMAIN s.records \ {s.path} /\ s.records[p] \in Texts
  BY SyncTypes DEF Past
<1>2. Buried(ds, <<p, 0>>) \/ Lands(ds, p, s.records[p])
  BY DEF Done
<1> QED
  BY <1>1, <1>2, UntouchedStays DEF Buried

LEMMA AheadStays ==
    ASSUME NEW s, NEW e, NEW ds, NEW dt, SyncOK(s), Ahead(s, ds),
           \A p \in DOMAIN s.records \ {s.path} : Untouched(ds, dt, p),
           e.todo \ {e.path} \subseteq s.todo \ {s.path}
    PROVE  Ahead(e, dt)
<1> SUFFICES ASSUME NEW p \in e.todo \ {e.path}, dt[<<p, 0>>] = NONE PROVE Bare(dt, p)
  BY DEF Ahead
<1>1. p \in s.todo \ {s.path} /\ p \in DOMAIN s.records \ {s.path}
  BY DEF SyncOK
<1> QED
  BY <1>1, UntouchedStays DEF Ahead

\* The locals of a record's step.
Stays(s, e) == Carries(s, e) /\ e.todo = s.todo /\ e.quiet = s.quiet /\ e.action = s.action

LEMMA SameStays ==
    ASSUME SyncOK(sync), ReadStored \/ Guard \/ PutParent \/ ReadChunk \/ WriteChunk \/ EmbedChunk
                         \/ ProbeSurplus \/ DeleteSurplus \/ DeleteVector \/ Retire
                         \/ (WholeVector /\ sync.from # NONE) \/ (DeleteTree /\ sync.dels # <<>>)
    PROVE  Stays(sync, sync') /\ Busy(sync)
<1>1. sync \in Locals
  BY DEF SyncOK
<1>2. CASE ReadStored \/ Guard
  BY <1>1, <1>2 DEF ReadStored, Guard, Locals, Stays, Carries, Busy
<1>8. CASE ProbeSurplus \/ Retire
  BY <1>1, <1>8 DEF ProbeSurplus, Retire, Locals, Stays, Carries, Busy
<1>3. CASE PutParent
  BY <1>1, <1>3 DEF PutParent, Locals, Stays, Carries, Busy
<1>4. CASE ReadChunk
  BY <1>1, <1>4 DEF ReadChunk, NextChunk, Locals, Stays, Carries, Busy
<1>5. CASE WriteChunk \/ EmbedChunk
  BY <1>1, <1>5 DEF WriteChunk, EmbedChunk, NextChunk, Locals, Stays, Carries, Busy
<1>6. CASE DeleteSurplus \/ DeleteVector
  BY <1>1, <1>6 DEF DeleteSurplus, DeleteVector, Locals, Stays, Carries, Busy
<1>7. CASE (WholeVector /\ sync.from # NONE) \/ (DeleteTree /\ sync.dels # <<>>)
  BY <1>1, <1>7 DEF WholeVector, DeleteTree, Locals, Stays, Carries, Busy
<1> QED
  BY <1>2, <1>3, <1>4, <1>5, <1>6, <1>7, <1>8

\* A step of a record: what is left is to look at the record.
LEMMA RecordLies ==
    ASSUME Laid, Run, Stays(sync, sync'), Busy(sync), sync.path # NONE,
           Felling(sync') => \A k \in DOMAIN sync'.dels :
               sync'.dels[k] # NONE => sync'.dels[k][1] \notin DOMAIN sync.records,
           sync.quiet => Ready(sync', docs') /\ (Placed(sync') => InPlace(sync', docs'))
    PROVE  Lies
<1>1. SyncOK(sync) /\ \A p \in DOMAIN sync.records \ {sync.path} : Untouched(docs, docs', p)
  BY RunTouches DEF Laid, Inv
<1>2. sync'.path # NONE /\ sync'.pc \notin {"prune", "done"}
  BY DEF Laid, Stays, Carries, SyncOK, SyncStates, Working
<1>3. Elsewhere(sync')
  BY <1>2 DEF Laid, Elsewhere, Stays, Carries
<1>4. ASSUME sync.quiet PROVE Ahead(sync', docs') /\ Done(sync', docs')
  <2>1. Ahead(sync, docs) /\ Done(sync, docs)
    BY <1>4 DEF Laid, Quiet, Underway
  <2>2. Past(sync') = Past(sync) /\ sync'.todo \ {sync'.path} = sync.todo \ {sync.path}
        /\ sync'.records = sync.records
    BY DEF Past, Stays, Carries
  <2> QED
    BY <1>1, <2>1, <2>2, DoneStays, AheadStays
<1> QED
  BY <1>3, <1>4 DEF Lies, Quiet, Underway, Stays

\* What a record's step finds.
LEMMA AtHand ==
    ASSUME Laid, sync.path # NONE
    PROVE  /\ SyncOK(sync) /\ RowsOK /\ sync \in Locals /\ sync.path \in Paths
           /\ sync.records[sync.path] \in Texts /\ SizeOf(sync) \in 0..MaxChunks
           /\ Size = SizeOf(sync) /\ Text = sync.records[sync.path] /\ Whole(sync.path) = <<sync.path, 0>>
           /\ sync.quiet => Underway(sync, docs)
           /\ sync.pc \in SyncStates \ {"idle", "plan", "prune", "done"}
<1>1. SyncOK(sync) /\ RowsOK /\ sync \in Locals /\ Quiet(sync, docs)
  BY DEF Laid, Inv, SyncOK
<1>2. sync.pc \in SyncStates \ {"idle", "plan", "prune", "done"}
  BY <1>1 DEF SyncOK, Working, SyncStates, Locals
<1> QED
  BY <1>1, <1>2, AtWork DEF Quiet, Busy, Size, SizeOf, Text, Whole

LEMMA NotFelling == ASSUME NEW s, s.pc \notin {"tree", "vector"} PROVE ~Felling(s) /\ (Clearing(s) <=> s.pc = "surplus")
BY DEF Felling, Clearing

LEMMA PrePutLies == ASSUME Laid, ReadStored \/ (Guard /\ sync.pc = "put") PROVE Lies
<1>1. sync.path # NONE /\ Run
  BY DEF Laid, Inv, SyncOK, ReadStored, Guard, Working, Run, Record
<1>2. SyncOK(sync) /\ Stays(sync, sync') /\ Busy(sync) /\ docs' = docs /\ (sync.quiet => Ready(sync, docs))
  BY <1>1, AtHand, SameStays DEF ReadStored, Guard, stores, Underway
<1>3. sync'.pc \in {"put", "putting"} /\ sync.pc \in {"stored", "put"}
  BY <1>2, AtHand, <1>1, StoredLocal, GuardLocal DEF ReadStored
<1>4. ~Felling(sync') /\ ~Placed(sync')
  BY <1>3, NotFelling DEF Placed
<1>5. sync.quiet => Ready(sync', docs')
  BY <1>2, <1>3 DEF Ready, Stays, Carries
<1> QED
  BY <1>1, <1>2, <1>4, <1>5, RecordLies

\* A chunk is done with.
LEMMA NextInPlace ==
    ASSUME Laid, sync.pc \in Chunking, NEW e, e = NextChunk(sync), NEW ds,
           Is(ds, <<sync.path, 0>>, sync.records[sync.path]),
           Holds(ds, sync.path, sync.records[sync.path], sync.next),
           sync.action # "update" => \A i \in (SizeOf(sync) + 1)..MaxChunks : ~Serves(ds, <<sync.path, i>>)
    PROVE  InPlace(e, ds) /\ e.pc \notin {"stored", "put", "putting", "tree", "vector"}
<1>1. /\ SyncOK(sync) /\ sync \in Locals /\ sync.path # NONE
      /\ Size = SizeOf(sync) /\ SizeOf(sync) \in 0..MaxChunks
      /\ sync.next \in 1..SizeOf(sync)
  <2>1. sync.path # NONE /\ sync.next \in 1..SizeOf(sync)
    BY DEF Laid, Inv, SyncOK, Chunking, Working, SizeOf
  <2> QED
    BY <2>1, AtHand
<1>2. /\ e.pc = IF sync.next < Size THEN "chunk" ELSE AfterChunks
      /\ e.next = sync.next + 1 /\ e.path = sync.path /\ e.records = sync.records /\ e.action = sync.action
  BY <1>1 DEF NextChunk, Locals
<1>3. e.pc \in {"chunk", "probe", "whole"} /\ SizeOf(e) = SizeOf(sync)
  BY <1>2 DEF AfterChunks, SizeOf
<1>4. Reaches(e) = sync.next
  BY <1>1, <1>2, <1>3, SpansOK DEF Reaches, AfterChunks
<1>5. e.pc = "whole" => sync.action # "update"
  BY <1>2 DEF AfterChunks
<1>6. Beyond(e, ds)
  BY <1>2, <1>3, <1>5, NotFelling DEF Beyond, Clear
<1> QED
  BY <1>2, <1>3, <1>4, <1>6 DEF InPlace

LEMMA PutLies == ASSUME Laid, PutParent PROVE Lies
<1>1. sync.path # NONE /\ Run /\ sync.pc = "putting"
  BY DEF Laid, Inv, SyncOK, PutParent, Working, Run, Record
<1>2. /\ Stays(sync, sync') /\ Busy(sync) /\ SyncOK(sync) /\ sync \in Locals /\ Size = SizeOf(sync)
      /\ SizeOf(sync) \in 0..MaxChunks /\ RowsOK
      /\ sync.quiet => Ready(sync, docs)
  BY <1>1, AtHand, SameStays DEF Underway
<1>3. /\ sync'.pc = IF Size > 0 THEN "chunk" ELSE AfterChunks
      /\ sync'.next = 1
  BY <1>2 DEF PutParent, Locals
<1>4. sync'.pc \in {"chunk", "probe", "whole"} /\ SizeOf(sync') = SizeOf(sync)
  BY <1>2, <1>3 DEF AfterChunks, SizeOf, Stays, Carries
<1>5. /\ <<sync.path, 0>> \in Ids
      /\ docs'[<<sync.path, 0>>].text = sync.records[sync.path] /\ docs'[<<sync.path, 0>>] # NONE
      /\ \A d \in Ids \ {<<sync.path, 0>>} : docs'[d] = docs[d]
  <2> DEFINE row == [text |-> Text, count |-> Size, tag |-> ParentTag, tomb |-> FALSE]
  <2>1. Target \in Ids /\ Target = <<sync.path, 0>> /\ docs'[Target] \in Row
        /\ \A d \in Ids \ {Target} : docs'[d] = docs[d]
    BY <1>2, SyncPuts DEF Whole
  <2>2. docs' = [docs EXCEPT ![<<sync.path, 0>>] = row]
    BY DEF PutParent, PutDocument, Whole
  <2>3. row.text = Text
    OBVIOUS
  <2> HIDE DEF row
  <2>4. docs'[<<sync.path, 0>>] = row
    BY <1>2, <2>1, <2>2 DEF RowsOK
  <2> QED
    BY <2>1, <2>3, <2>4, CorpusAssumption DEF Text
<1>6. ASSUME sync.quiet PROVE InPlace(sync', docs')
  <2>1. Reaches(sync') = 0
    BY <1>2, <1>3, <1>4, SpansOK DEF Reaches, AfterChunks
  <2>2. Holds(docs', sync.path, sync.records[sync.path], 0)
    BY DEF Holds
  <2>3. ASSUME sync.action # "update", NEW i \in 1..MaxChunks PROVE ~Serves(docs', <<sync.path, i>>)
    <3>1. ~Serves(docs, <<sync.path, i>>)
      BY <1>1, <1>2, <1>6, <2>3 DEF Ready, Bare
    <3>2. <<sync.path, i>> \in Ids /\ <<sync.path, i>>[2] = i
      BY <1>1, AtHand, Within, IdOf
    <3>3. <<sync.path, i>> # <<sync.path, 0>>
      BY <3>2, Within
    <3> QED
      BY <1>5, <3>1, <3>2, <3>3 DEF Serves
  <2>4. sync'.action # "update" => \A i \in (SizeOf(sync) + 1)..MaxChunks : ~Serves(docs', <<sync.path, i>>)
    BY <1>2, <2>3, Within DEF Stays
  <2>5. sync'.pc = "whole" => sync.action # "update"
    BY <1>3 DEF AfterChunks
  <2>6. Beyond(sync', docs')
    BY <1>2, <1>4, <2>4, <2>5, NotFelling DEF Beyond, Clear, Stays, Carries
  <2>7. sync'.path = sync.path /\ sync'.records = sync.records
    BY <1>2 DEF Stays, Carries
  <2>8. Is(docs', <<sync.path, 0>>, sync.records[sync.path])
    BY <1>5 DEF Is
  <2> QED
    BY <2>1, <2>2, <2>6, <2>7, <2>8 DEF InPlace
<1>7. ~Felling(sync') /\ sync'.pc \notin {"stored", "put", "putting"}
  BY <1>4, NotFelling
<1> QED
  BY <1>1, <1>2, <1>6, <1>7, RecordLies DEF Ready

-----------------------------------------------------------------------------
LEMMA ChunkAtHand ==
    ASSUME Laid, sync.pc \in Chunking
    PROVE  /\ sync.path # NONE /\ sync.next \in 1..SizeOf(sync) /\ SizeOf(sync) \in 0..MaxChunks
           /\ sync.next \in 1..MaxChunks /\ Chunk \in Ids /\ Chunk = <<sync.path, sync.next>>
           /\ Piece = Spans[sync.records[sync.path]][sync.next]
           /\ Chunk # <<sync.path, 0>> /\ sync.next - 1 \in 0..MaxChunks
           /\ sync.quiet => InPlace(sync, docs)
<1>1. sync.path # NONE /\ sync.next \in 1..SizeOf(sync) /\ sync.pc \notin {"stored", "put", "putting"}
  BY DEF Laid, Inv, SyncOK, Chunking, Working, SizeOf
<1>2. SizeOf(sync) \in 0..MaxChunks /\ sync.path \in Paths /\ (sync.quiet => Underway(sync, docs))
  BY <1>1, AtHand
<1>3. sync.next \in 1..MaxChunks /\ sync.next \in 0..MaxChunks /\ sync.next # 0 /\ sync.next - 1 \in 0..MaxChunks
  BY <1>1, <1>2, SpansOK
<1>4. Chunk \in Ids /\ Chunk = <<sync.path, sync.next>> /\ Chunk # <<sync.path, 0>>
  BY <1>2, <1>3, IdOf DEF Chunk
<1> QED
  BY <1>1, <1>2, <1>3, <1>4 DEF Piece, Text, Underway, Placed

\* One more chunk.
LEMMA HoldsOne ==
    ASSUME NEW ds, NEW p, NEW t, NEW m \in Nat, m # 0, Holds(ds, p, t, m - 1),
           Buried(ds, <<p, m>>) \/ Is(ds, <<p, m>>, Spans[t][m])
    PROVE  Holds(ds, p, t, m)
<1>1. \A i \in 1..m : i \in 1..(m - 1) \/ i = m
  OBVIOUS
<1> QED
  BY <1>1 DEF Holds

LEMMA GuardLies == ASSUME Laid, Guard, sync.pc = "write" PROVE Lies
<1>1. sync.path # NONE /\ Run /\ sync.pc \in Chunking
  BY DEF Laid, Inv, SyncOK, Guard, Working, Run, Record, Chunking
<1>2. SyncOK(sync) /\ Stays(sync, sync') /\ Busy(sync) /\ docs' = docs
  BY <1>1, AtHand, SameStays DEF Guard, stores
<1>3. sync'.pc = "writing" /\ sync'.next = sync.next
  BY <1>2, GuardLocal
<1>4. sync.quiet => InPlace(sync, docs)
  BY <1>1, ChunkAtHand
<1>5. ~Felling(sync') /\ ~Clearing(sync') /\ ~Felling(sync)
  BY <1>3, NotFelling
<1>6. Reaches(sync') = Reaches(sync) /\ SizeOf(sync') = SizeOf(sync)
  BY <1>2, <1>3 DEF Reaches, SizeOf, Stays, Carries
<1>7. Beyond(sync, docs) => Beyond(sync', docs)
  BY <1>1, <1>2, <1>3, <1>5, <1>6 DEF Beyond, Stays, Carries, Chunking
<1>8. InPlace(sync, docs) => InPlace(sync', docs')
  BY <1>2, <1>6, <1>7 DEF InPlace, Stays, Carries
<1>9. Ready(sync', docs')
  BY <1>3 DEF Ready
<1> QED
  BY <1>1, <1>2, <1>4, <1>5, <1>8, <1>9, RecordLies

\* A step that is done with a chunk.
LEMMA NextLies ==
    ASSUME Laid, Run, sync.pc \in Chunking, sync' = NextChunk(sync), Stays(sync, sync'), Busy(sync),
           sync.quiet => /\ Is(docs', <<sync.path, 0>>, sync.records[sync.path])
                         /\ Holds(docs', sync.path, sync.records[sync.path], sync.next)
                         /\ sync.action # "update" =>
                              \A i \in (SizeOf(sync) + 1)..MaxChunks : ~Serves(docs', <<sync.path, i>>)
    PROVE  Lies
<1>1. PICK e : e = NextChunk(sync)
  OBVIOUS
<1>2. PICK ds : ds = docs'
  OBVIOUS
<1>3. /\ e.pc \in {"chunk", "probe", "whole"} /\ sync.path # NONE
  BY <1>1, ChunkAtHand, NextIs DEF Laid, Inv
<1>4. sync.quiet => InPlace(e, ds)
  BY <1>1, <1>2, NextInPlace
<1>5. sync' = e
  BY <1>1
<1>6. sync.quiet => InPlace(sync', docs')
  BY <1>2, <1>4, <1>5
<1>7. ~Felling(sync') /\ Ready(sync', docs')
  BY <1>3, <1>5, NotFelling DEF Ready
<1> QED
  BY <1>3, <1>6, <1>7, RecordLies

LEMMA ReadLies == ASSUME Laid, ReadChunk PROVE Lies
<1>1. /\ sync.path # NONE /\ Run /\ sync.pc \in Chunking /\ sync.pc = "chunk"
  BY DEF Laid, Inv, SyncOK, ReadChunk, Working, Run, Record, Chunking
<1>2. SyncOK(sync) /\ sync \in Locals /\ Stays(sync, sync') /\ Busy(sync) /\ docs' = docs
  BY <1>1, AtHand, SameStays DEF ReadChunk, stores
<1>3. /\ sync.next \in Nat /\ sync.next # 0 /\ Chunk = <<sync.path, sync.next>>
      /\ Piece = Spans[sync.records[sync.path]][sync.next]
      /\ sync.quiet => InPlace(sync, docs)
  BY <1>1, ChunkAtHand, SpansOK
<1>4. sync.quiet => /\ Is(docs, <<sync.path, 0>>, sync.records[sync.path])
                    /\ Holds(docs, sync.path, sync.records[sync.path], sync.next - 1)
                    /\ Beyond(sync, docs)
  BY <1>1, <1>3 DEF InPlace, Reaches
<1>5. CASE Tomb(Chunk) \/ ChunkIsCurrent(docs[Chunk])
  <2>1. sync' = NextChunk(sync)
    BY <1>5 DEF ReadChunk
  <2>2. Buried(docs, Chunk) \/ Is(docs, Chunk, Piece)
    BY <1>5, TombIs DEF ChunkIsCurrent, Changed, Is
  <2>3. sync.quiet => Holds(docs, sync.path, sync.records[sync.path], sync.next)
    BY <1>3, <1>4, <2>2, HoldsOne
  <2> QED
    BY <1>1, <1>2, <1>4, <2>1, <2>3, NextLies DEF Beyond
<1>6. CASE ~(Tomb(Chunk) \/ ChunkIsCurrent(docs[Chunk]))
  <2> DEFINE row == docs[Chunk]
  <2>1. sync' = [sync EXCEPT !.pc = "write", !.row = row]
    BY <1>6 DEF ReadChunk
  <2> HIDE DEF row
  <2>2. sync'.pc = "write" /\ sync'.next = sync.next
    BY <1>2, <2>1 DEF Locals
  <2>3. ~Felling(sync') /\ ~Clearing(sync')
    BY <2>2, NotFelling
  <2>4. Reaches(sync') = sync.next - 1 /\ SizeOf(sync') = SizeOf(sync)
    BY <1>2, <2>2 DEF Reaches, SizeOf, Stays, Carries
  <2>5. Beyond(sync, docs) => Beyond(sync', docs)
    BY <1>1, <1>2, <2>2, <2>3, <2>4 DEF Beyond, Stays, Carries
  <2>6. sync.quiet => InPlace(sync', docs')
    BY <1>2, <1>4, <2>4, <2>5 DEF InPlace, Stays, Carries
  <2>7. Ready(sync', docs')
    BY <2>2 DEF Ready
  <2> QED
    BY <1>1, <1>2, <2>3, <2>6, <2>7, RecordLies
<1> QED
  BY <1>5, <1>6

LEMMA WriteLies == ASSUME Laid, WriteChunk PROVE Lies
<1>1. /\ sync.path # NONE /\ Run /\ sync.pc \in Chunking /\ sync.pc = "writing"
  BY DEF Laid, Inv, SyncOK, WriteChunk, Working, Run, Record, Chunking
<1>2. SyncOK(sync) /\ RowsOK /\ sync \in Locals /\ Stays(sync, sync') /\ Busy(sync) /\ sync.path \in Paths
  BY <1>1, AtHand, SameStays
<1>3. /\ sync.next \in 1..SizeOf(sync) /\ sync.next \in Nat /\ sync.next # 0
      /\ SizeOf(sync) \in 0..MaxChunks /\ Chunk = <<sync.path, sync.next>> /\ Chunk \in Ids
      /\ Piece = Spans[sync.records[sync.path]][sync.next] /\ Chunk # <<sync.path, 0>>
      /\ sync.next - 1 \in Nat /\ sync.next - 1 <= MaxChunks
      /\ sync.quiet => InPlace(sync, docs)
  BY <1>1, ChunkAtHand, SpansOK
<1>4. sync.quiet => /\ Is(docs, <<sync.path, 0>>, sync.records[sync.path])
                    /\ Holds(docs, sync.path, sync.records[sync.path], sync.next - 1)
                    /\ Beyond(sync, docs)
  BY <1>1, <1>3 DEF InPlace, Reaches
<1>5. /\ Is(docs', Chunk, Piece)
      /\ \A d \in Ids \ {Chunk} : docs'[d] = docs[d]
  BY <1>2, SyncPuts, CorpusAssumption DEF Is
<1>6. \A i \in 0..MaxChunks : i # sync.next => docs'[<<sync.path, i>>] = docs[<<sync.path, i>>]
  <2> SUFFICES ASSUME NEW i \in 0..MaxChunks, i # sync.next PROVE <<sync.path, i>> \in Ids \ {Chunk}
    BY <1>5
  <2> QED
    BY <1>2, <1>3, IdOf
<1>7. ASSUME sync.quiet
      PROVE  /\ Is(docs', <<sync.path, 0>>, sync.records[sync.path])
             /\ Holds(docs', sync.path, sync.records[sync.path], sync.next)
             /\ sync.action # "update" =>
                  \A i \in (SizeOf(sync) + 1)..MaxChunks : ~Serves(docs', <<sync.path, i>>)
  <2>1. Is(docs', <<sync.path, 0>>, sync.records[sync.path])
    BY <1>3, <1>4, <1>6, <1>7, Within DEF Is
  <2>2. \A i \in 1..(sync.next - 1) : i \in 0..MaxChunks /\ i # sync.next
    BY <1>3, SpansOK
  <2>3. Holds(docs', sync.path, sync.records[sync.path], sync.next - 1)
    BY <1>4, <1>6, <1>7, <2>2 DEF Holds, Is, Buried
  <2>4. Holds(docs', sync.path, sync.records[sync.path], sync.next)
    BY <1>3, <1>5, <2>3, HoldsOne
  <2>5. \A i \in (SizeOf(sync) + 1)..MaxChunks : i \in 0..MaxChunks /\ i # sync.next
    BY <1>3, SpansOK
  <2>6. sync.action # "update" =>
           \A i \in (SizeOf(sync) + 1)..MaxChunks : ~Serves(docs, <<sync.path, i>>)
    BY <1>1, <1>4, <1>7 DEF Beyond
  <2> QED
    BY <1>6, <2>1, <2>4, <2>5, <2>6 DEF Serves
<1>8. CASE sync' = NextChunk(sync)
  BY <1>1, <1>2, <1>7, <1>8, NextLies
<1>9. CASE sync' = [sync EXCEPT !.pc = "embed"]
  <2>1. sync'.pc = "embed" /\ sync'.next = sync.next
    BY <1>2, <1>9 DEF Locals
  <2>2. ~Felling(sync') /\ ~Clearing(sync')
    BY <2>1, NotFelling
  <2>3. Reaches(sync') = sync.next /\ SizeOf(sync') = SizeOf(sync)
    BY <1>2, <2>1 DEF Reaches, SizeOf, Stays, Carries
  <2>4. sync.quiet => Beyond(sync', docs')
    BY <1>2, <1>7, <2>1, <2>2, <2>3 DEF Beyond, Stays, Carries
  <2>5. sync.quiet => InPlace(sync', docs')
    BY <1>2, <1>7, <2>3, <2>4 DEF InPlace, Stays, Carries
  <2>6. Ready(sync', docs')
    BY <2>1 DEF Ready
  <2> QED
    BY <1>1, <1>2, <2>2, <2>5, <2>6, RecordLies
<1> QED
  BY <1>8, <1>9 DEF WriteChunk

LEMMA EmbedLies == ASSUME Laid, EmbedChunk PROVE Lies
<1>1. /\ sync.path # NONE /\ Run /\ sync.pc \in Chunking /\ sync.pc = "embed"
      /\ sync' = NextChunk(sync) /\ docs' = docs
  BY DEF Laid, Inv, SyncOK, EmbedChunk, Working, Run, Record, Chunking
<1>2. Stays(sync, sync') /\ Busy(sync)
  BY <1>1, AtHand, SameStays
<1>3. sync.quiet => InPlace(sync, docs)
  BY <1>1, ChunkAtHand
<1>4. sync.quiet => /\ Is(docs, <<sync.path, 0>>, sync.records[sync.path])
                    /\ Holds(docs, sync.path, sync.records[sync.path], sync.next)
                    /\ Beyond(sync, docs)
  BY <1>1, <1>3 DEF InPlace, Reaches
<1> QED
  BY <1>1, <1>2, <1>4, NextLies DEF Beyond

-----------------------------------------------------------------------------
\* A surplus lists all that is beyond the size, up to the first gap.
LEMMA SurplusCovers ==
    ASSUME NEW p \in Paths, NEW n \in 0..MaxChunks, sync.old \in 0..MaxChunks,
           NEW s, s.dels = SurplusBeforeEnd(p, n)
    PROVE  /\ \A k \in DOMAIN s.dels : s.dels[k][2] # 0 /\ s.dels[k][2] \notin 1..n
           /\ \A i \in (n + 1)..MaxChunks : docs[<<p, i>>] # NONE =>
                 Listed(s, <<p, i>>) \/ Gap(docs, p, n, i)
<1> DEFINE i0 == Larger(n, sync.old) + 1
           stop == FirstAbsent(p, i0) - 1
<1>1. i0 \in (n + 1)..(MaxChunks + 1) /\ i0 \in 0..(MaxChunks + 1)
  BY SpansOK DEF Larger
<1>2. FirstAbsent(p, i0) \in i0..(MaxChunks + 1)
  BY <1>1, ProbeIs
<1> HIDE DEF i0
<1>3. stop \in n..MaxChunks /\ FirstAbsent(p, i0) = stop + 1
  BY <1>1, <1>2, SpansOK
<1>4. s.dels = [k \in 1..(stop - n) |-> <<p, stop + 1 - k>>]
  BY DEF SurplusBeforeEnd, Downward, i0
<1> HIDE DEF stop
<1>5. \A k \in 1..(stop - n) : s.dels[k] = <<p, stop + 1 - k>> /\ stop + 1 - k # 0
                               /\ stop + 1 - k \notin 1..n
  BY <1>3, <1>4, SpansOK
<1>6. DOMAIN s.dels = 1..(stop - n)
  BY <1>4
<1>7. ASSUME NEW k \in DOMAIN s.dels PROVE s.dels[k][2] # 0 /\ s.dels[k][2] \notin 1..n
  <2>1. s.dels[k][2] = stop + 1 - k
    BY <1>5, <1>6
  <2> QED
    BY <1>5, <1>6, <2>1
<1>8. ASSUME NEW i \in (n + 1)..MaxChunks, docs[<<p, i>>] # NONE
      PROVE  Listed(s, <<p, i>>) \/ Gap(docs, p, n, i)
  <2>1. CASE i <= stop
    <3>1. stop + 1 - i \in 1..(stop - n) /\ stop + 1 - (stop + 1 - i) = i
      BY <1>3, <2>1, SpansOK
    <3> QED
      BY <1>5, <1>6, <3>1 DEF Listed
  <2>2. CASE ~(i <= stop)
    <3>1. i >= FirstAbsent(p, i0) /\ i \in i0..MaxChunks
      BY <1>1, <1>2, <1>3, <2>2, SpansOK
    <3> QED
      BY <1>1, <1>8, <3>1, GapAfter
  <2> QED
    BY <2>1, <2>2
<1> QED
  BY <1>7, <1>8

\* What holds of the record from the first of its rows beyond the size on.
LEMMA PastChunks ==
    ASSUME Laid, sync.path # NONE, sync.pc \in {"probe", "surplus", "whole", "retire"} \/ sync.pc = "vector"
                                   \/ sync.pc = "tree"
    PROVE  sync.quiet => /\ Is(docs, <<sync.path, 0>>, sync.records[sync.path])
                         /\ Holds(docs, sync.path, sync.records[sync.path], SizeOf(sync))
                         /\ Beyond(sync, docs)
<1>1. sync.quiet => InPlace(sync, docs)
  BY AtHand DEF Underway, Placed
<1>2. Reaches(sync) = SizeOf(sync)
  BY DEF Reaches
<1> QED
  BY <1>1, <1>2 DEF InPlace

\* And what has to hold after a step.
LEMMA PastLies ==
    ASSUME Laid, Run, Stays(sync, sync'), Busy(sync), sync.path # NONE,
           sync'.pc \in {"surplus", "whole", "vector", "retire", "tree"},
           Felling(sync') => \A k \in DOMAIN sync'.dels :
               sync'.dels[k] # NONE => sync'.dels[k][1] \notin DOMAIN sync.records,
           sync.quiet => /\ Is(docs', <<sync.path, 0>>, sync.records[sync.path])
                         /\ Holds(docs', sync.path, sync.records[sync.path], SizeOf(sync))
                         /\ Clearing(sync') => Surplus(sync', docs')
                         /\ sync'.pc \in {"whole", "retire"} \/ Felling(sync') =>
                              Clear(docs', sync.path, SizeOf(sync))
    PROVE  Lies
<1>1. Reaches(sync') = SizeOf(sync') /\ SizeOf(sync') = SizeOf(sync) /\ Ready(sync', docs')
  BY DEF Reaches, Ready, SizeOf, Stays, Carries
<1>2. sync.quiet => Beyond(sync', docs')
  BY <1>1 DEF Beyond, Stays, Carries, Chunking
<1>3. sync.quiet => InPlace(sync', docs')
  BY <1>1, <1>2 DEF InPlace, Stays, Carries
<1> QED
  BY <1>1, <1>3, RecordLies

LEMMA ProbeLies == ASSUME Laid, ProbeSurplus PROVE Lies
<1>1. /\ sync.path # NONE /\ Run /\ sync.pc = "probe" /\ docs' = docs
  BY DEF Laid, Inv, SyncOK, ProbeSurplus, Working, Run, Record, stores
<1>2. SyncOK(sync) /\ sync \in Locals /\ Stays(sync, sync') /\ Busy(sync) /\ sync.path \in Paths
      /\ Size = SizeOf(sync) /\ SizeOf(sync) \in 0..MaxChunks /\ sync.old \in 0..MaxChunks
  BY <1>1, AtHand, SameStays, SyncTypes
<1>3. sync'.pc = "surplus" /\ sync'.dels = SurplusBeforeEnd(sync.path, SizeOf(sync))
  BY <1>2 DEF ProbeSurplus, Locals
<1>4. ~Felling(sync') /\ SizeOf(sync') = SizeOf(sync)
  BY <1>2, <1>3, NotFelling DEF SizeOf, Stays, Carries
<1>5. /\ \A k \in DOMAIN sync'.dels : sync'.dels[k][2] # 0 /\ sync'.dels[k][2] \notin 1..SizeOf(sync)
      /\ \A i \in (SizeOf(sync) + 1)..MaxChunks : docs[<<sync.path, i>>] # NONE =>
            Listed(sync', <<sync.path, i>>) \/ Gap(docs, sync.path, SizeOf(sync), i)
  BY <1>2, <1>3, SurplusCovers
<1>6. Surplus(sync', docs')
  BY <1>1, <1>2, <1>3, <1>4, <1>5 DEF Surplus, Serves, Stays, Carries
<1> QED
  BY <1>1, <1>2, <1>3, <1>4, <1>6, PastChunks, PastLies

\* The list moves on from a row that is not served.
LEMMA SurplusRest ==
    ASSUME NEW s, NEW e, NEW ds, s.dels \in Seq(Ids \cup {NONE}), s.dels # <<>>, e.dels = Tail(s.dels),
           e.path = s.path, e.records = s.records, e.pc = "surplus", Surplus(s, ds), ~Serves(ds, s.dels[1])
    PROVE  Surplus(e, ds)
<1>1. SizeOf(e) = SizeOf(s)
  BY DEF SizeOf
<1>2. \A d : Listed(s, d) /\ d # s.dels[1] => Listed(e, d)
  BY TailLists
<1>3. \A k \in DOMAIN e.dels : k + 1 \in DOMAIN s.dels /\ e.dels[k] = s.dels[k + 1]
  BY RestOf
<1> QED
  BY <1>1, <1>2, <1>3 DEF Surplus

\* One row beyond the size goes.
LEMMA RowBeyond ==
    ASSUME RowsOK, NEW p \in Paths, NEW n \in 0..MaxChunks, NEW d \in Ids, d[2] # 0, d[2] \notin 1..n,
           docs' = [docs EXCEPT ![d] = NONE], NEW t
    PROVE  /\ Is(docs, <<p, 0>>, t) => Is(docs', <<p, 0>>, t)
           /\ Holds(docs, p, t, n) => Holds(docs', p, t, n)
           /\ \A i \in (n + 1)..MaxChunks : Gap(docs, p, n, i) => Gap(docs', p, n, i)
           /\ \A e \in Ids : Serves(docs', e) => Serves(docs, e)
           /\ ~Serves(docs', d)
<1>1. docs'[d] = NONE /\ \A e \in Ids \ {d} : docs'[e] = docs[e]
  BY DEF RowsOK
<1>2. \A i \in 0..n : <<p, i>> \in Ids /\ <<p, i>> # d
  <2> SUFFICES ASSUME NEW i \in 0..n PROVE <<p, i>> \in Ids /\ <<p, i>>[2] # d[2]
    OBVIOUS
  <2>1. i \in 0..MaxChunks /\ (i = 0 \/ i \in 1..n)
    BY SpansOK
  <2> QED
    BY <2>1, IdOf
<1>3. \A i \in 1..n : i \in 0..n
  BY Within
<1>4. 0 \in 0..n
  BY Within
<1>5. Holds(docs, p, t, n) => Holds(docs', p, t, n)
  BY <1>1, <1>2, <1>3 DEF Holds, Is, Buried
<1>6. Is(docs, <<p, 0>>, t) => Is(docs', <<p, 0>>, t)
  BY <1>1, <1>2, <1>4 DEF Is
<1>7. ASSUME NEW i \in (n + 1)..MaxChunks, Gap(docs, p, n, i) PROVE Gap(docs', p, n, i)
  <2>1. PICK j \in (n + 1)..(i - 1) : docs[<<p, j>>] = NONE
    BY <1>7 DEF Gap
  <2>2. <<p, j>> \in Ids
    BY IdOf, SpansOK
  <2>3. docs'[<<p, j>>] = NONE
    BY <1>1, <2>1, <2>2
  <2> QED
    BY <2>3 DEF Gap
<1> QED
  BY <1>1, <1>5, <1>6, <1>7 DEF Serves

LEMMA SurplusLies == ASSUME Laid, DeleteSurplus PROVE Lies
<1>1. /\ sync.path # NONE /\ Run /\ sync.pc = "surplus" /\ Clearing(sync)
  BY DEF Laid, Inv, SyncOK, DeleteSurplus, Working, Run, Record, Clearing
<1>2. SyncOK(sync) /\ RowsOK /\ sync \in Locals /\ Stays(sync, sync') /\ Busy(sync) /\ sync.path \in Paths
      /\ SizeOf(sync) \in 0..MaxChunks /\ sync.dels \in Seq(Ids \cup {NONE}) /\ Own(sync)
  BY <1>1, AtHand, SameStays, SyncTypes DEF SyncOK
<1>3. sync'.pc \in {"surplus", "whole", "vector"} /\ ~Felling(sync')
  BY <1>2, SurplusLocal
<1>4. sync.quiet => /\ Is(docs, <<sync.path, 0>>, sync.records[sync.path])
                    /\ Holds(docs, sync.path, sync.records[sync.path], SizeOf(sync))
                    /\ Surplus(sync, docs)
  BY <1>1, PastChunks DEF Beyond
<1>5. sync'.path = sync.path /\ sync'.records = sync.records /\ SizeOf(sync') = SizeOf(sync)
  BY <1>2 DEF Stays, Carries, SizeOf
<1>6. CASE sync.dels = <<>>
  <2>1. sync'.pc = "whole" /\ docs' = docs
    BY <1>2, <1>6 DEF DeleteSurplus, Locals
  <2>2. \A d : ~Listed(sync, d)
    <3>1. DOMAIN sync.dels = {}
      BY <1>6
    <3> QED
      BY <3>1 DEF Listed
  <2>3. sync.quiet => Clear(docs, sync.path, SizeOf(sync))
    BY <1>4, <2>2 DEF Surplus, Clear
  <2>4. ~Clearing(sync')
    BY <2>1, NotFelling
  <2> QED
    BY <1>1, <1>2, <1>3, <1>4, <2>1, <2>3, <2>4, PastLies
<1>7. CASE sync.dels # <<>> /\ KeptAsTombstone(Head(sync.dels))
  <2>1. sync'.pc = "surplus" /\ sync'.dels = Tail(sync.dels) /\ docs' = docs
    BY <1>1, <1>2, <1>7 DEF DeleteSurplus, Locals
  <2>2. ~Serves(docs, sync.dels[1])
    BY <1>2, <1>7, TailOf, TombIs DEF KeptAsTombstone, Serves, Buried
  <2>3. sync.quiet => Surplus(sync', docs')
    BY <1>2, <1>4, <1>5, <1>7, <2>1, <2>2, SurplusRest
  <2> QED
    BY <1>1, <1>2, <1>3, <1>4, <2>1, <2>3, PastLies
<1>8. CASE sync.dels # <<>> /\ ~KeptAsTombstone(Head(sync.dels))
  <2>1. Head(sync.dels) = sync.dels[1] /\ 1 \in DOMAIN sync.dels
    BY <1>2, <1>8, TailOf
  <2>2. sync'.pc = "vector" /\ sync'.dels = sync.dels /\ docs' = [docs EXCEPT ![sync.dels[1]] = NONE]
    BY <1>2, <1>8, <2>1 DEF DeleteSurplus, Locals
  <2>3. sync.dels[1] \in Ids /\ sync.dels[1][1] = sync.path
    BY <1>2, <2>1 DEF Own
  <2>4. ASSUME sync.quiet
        PROVE  /\ Is(docs', <<sync.path, 0>>, sync.records[sync.path])
               /\ Holds(docs', sync.path, sync.records[sync.path], SizeOf(sync))
               /\ Surplus(sync', docs')
    <3>1. sync.dels[1][2] # 0 /\ sync.dels[1][2] \notin 1..SizeOf(sync)
      BY <1>4, <2>1, <2>4 DEF Surplus
    <3>2. /\ Is(docs', <<sync.path, 0>>, sync.records[sync.path])
          /\ Holds(docs', sync.path, sync.records[sync.path], SizeOf(sync))
          /\ \A i \in (SizeOf(sync) + 1)..MaxChunks :
                Gap(docs, sync.path, SizeOf(sync), i) => Gap(docs', sync.path, SizeOf(sync), i)
          /\ \A e \in Ids : Serves(docs', e) => Serves(docs, e)
          /\ ~Serves(docs', sync.dels[1])
      BY <1>2, <1>4, <2>2, <2>3, <2>4, <3>1, RowBeyond
    <3>3. ASSUME NEW i \in (SizeOf(sync) + 1)..MaxChunks, Serves(docs', <<sync.path, i>>)
          PROVE  Listed(sync', <<sync.path, i>>) \/ Gap(docs', sync.path, SizeOf(sync), i)
      <4>1. <<sync.path, i>> \in Ids
        BY <1>2, Within, IdOf
      <4>2. Listed(sync, <<sync.path, i>>) \/ Gap(docs, sync.path, SizeOf(sync), i)
        BY <1>4, <2>4, <3>2, <3>3, <4>1 DEF Surplus
      <4> QED
        BY <2>2, <3>2, <4>2 DEF Listed
    <3>4. \A k \in DOMAIN sync'.dels : sync'.dels[k][2] # 0 /\ sync'.dels[k][2] \notin 1..SizeOf(sync)
      BY <1>4, <2>2, <2>4 DEF Surplus
    <3>5. Surplus(sync', docs')
      BY <1>5, <2>2, <3>2, <3>3, <3>4 DEF Surplus
    <3> QED
      BY <3>2, <3>5
  <2> QED
    BY <1>1, <1>2, <1>3, <2>2, <2>4, PastLies
<1> QED
  BY <1>6, <1>7, <1>8

LEMMA ClearLies == ASSUME Laid, DeleteVector, ~Felling(sync) PROVE Lies
<1>1. /\ sync.path # NONE /\ Run /\ sync.pc = "vector" /\ docs' = docs /\ Clearing(sync)
  BY PathOf DEF Laid, Inv, SyncOK, DeleteVector, Run, Record, Felling, Clearing
<1>2. SyncOK(sync) /\ sync \in Locals /\ Stays(sync, sync') /\ Busy(sync)
      /\ sync.dels \in Seq(Ids \cup {NONE}) /\ sync.dels # <<>>
  BY <1>1, AtHand, SameStays, SyncTypes DEF SyncOK
<1>3. sync'.pc = "surplus" /\ sync'.dels = Tail(sync.dels)
  BY <1>2, VectorLocal
<1>4. sync.quiet => /\ Is(docs, <<sync.path, 0>>, sync.records[sync.path])
                    /\ Holds(docs, sync.path, sync.records[sync.path], SizeOf(sync))
                    /\ Surplus(sync, docs)
  BY <1>1, PastChunks DEF Beyond
<1>5. sync.quiet => Surplus(sync', docs')
  BY <1>1, <1>2, <1>3, <1>4, SurplusRest DEF Surplus, Stays, Carries
<1> QED
  BY <1>1, <1>2, <1>3, <1>4, <1>5, NotFelling, PastLies

-----------------------------------------------------------------------------
\* A step that leaves no record under way.
LEMMA FreeLies ==
    ASSUME Laid, Start \/ Run \/ Raise, sync'.path = NONE, sync'.records = sync.records,
           sync'.pc \notin {"stored", "put", "putting"}, sync'.quiet = sync.quiet,
           sync'.todo \subseteq sync.todo \ {sync.path}, Busy(sync), Elsewhere(sync'),
           sync.quiet => \A p \in Past(sync') \ Past(sync) :
               Buried(docs', <<p, 0>>) \/ Lands(docs', p, sync.records[p])
    PROVE  Lies
<1>1. SyncOK(sync) /\ \A p \in DOMAIN sync.records \ {sync.path} : Untouched(docs, docs', p)
  BY RunTouches DEF Laid, Inv
<1>2. Ready(sync', docs') /\ ~Placed(sync')
  BY DEF Ready, Placed
<1>3. ASSUME sync.quiet PROVE Ahead(sync', docs') /\ Done(sync', docs')
  <2>1. Ahead(sync, docs) /\ Done(sync, docs)
    BY <1>3 DEF Laid, Quiet, Underway
  <2>2. sync'.todo \ {sync'.path} \subseteq sync.todo \ {sync.path}
    OBVIOUS
  <2>3. Ahead(sync', docs')
    BY <1>1, <2>1, <2>2, AheadStays
  <2>4. ASSUME NEW p \in Past(sync'), p \in Past(sync)
        PROVE  Buried(docs', <<p, 0>>) \/ Lands(docs', p, sync'.records[p])
    <3>1. p \in DOMAIN sync.records \ {sync.path} /\ sync.records[p] \in Texts
      BY <1>1, <2>4, SyncTypes DEF Past
    <3>2. Buried(docs, <<p, 0>>) \/ Lands(docs, p, sync.records[p])
      BY <2>1, <2>4 DEF Done
    <3>3. Buried(docs', <<p, 0>>) \/ Lands(docs', p, sync.records[p])
      BY <1>1, <3>1, <3>2, UntouchedStays DEF Buried
    <3> QED
      BY <3>3
  <2>5. Done(sync', docs')
    BY <1>3, <2>4 DEF Done
  <2> QED
    BY <2>3, <2>5
<1> QED
  BY <1>2, <1>3 DEF Lies, Quiet, Underway

\* A record ends, and has landed.
LEMMA EndsLies ==
    ASSUME Laid, Run, sync.path # NONE, docs' = docs, sync' = EndOfRecord(sync),
           sync.quiet => /\ Is(docs, <<sync.path, 0>>, sync.records[sync.path])
                         /\ Holds(docs, sync.path, sync.records[sync.path], SizeOf(sync))
                         /\ Clear(docs, sync.path, SizeOf(sync))
    PROVE  Lies
<1>1. SyncOK(sync) /\ sync \in Locals /\ Busy(sync)
  BY AtHand DEF Busy
<1>2. /\ sync'.pc = "plan" /\ sync'.path = NONE /\ sync'.records = sync.records
      /\ sync'.quiet = sync.quiet /\ sync'.todo = sync.todo \ {sync.path}
      /\ sync'.failed = sync.failed /\ sync'.cands = sync.cands
  BY <1>1 DEF EndOfRecord, Locals
<1>3. ~Felling(sync') /\ Elsewhere(sync')
  BY <1>2, NotFelling DEF Laid, Elsewhere
<1>4. Past(sync') \ Past(sync) \subseteq {sync.path}
  BY <1>2 DEF Past
<1>5. sync.quiet => Lands(docs, sync.path, sync.records[sync.path])
  BY DEF Lands, SizeOf
<1> QED
  BY <1>1, <1>2, <1>3, <1>4, <1>5, FreeLies

LEMMA WholeLies == ASSUME Laid, WholeVector PROVE Lies
<1>1. /\ sync.path # NONE /\ Run /\ sync.pc = "whole" /\ docs' = docs
  BY DEF Laid, Inv, SyncOK, WholeVector, Working, Run, Record
<1>2. SyncOK(sync) /\ sync \in Locals
  BY <1>1, AtHand
<1>3. sync.quiet => /\ Is(docs, <<sync.path, 0>>, sync.records[sync.path])
                    /\ Holds(docs, sync.path, sync.records[sync.path], SizeOf(sync))
                    /\ Clear(docs, sync.path, SizeOf(sync))
  BY <1>1, PastChunks DEF Beyond
<1>4. CASE sync.from = NONE
  <2>1. sync' = EndOfRecord(sync)
    BY <1>4 DEF WholeVector
  <2> QED
    BY <1>1, <1>3, <2>1, EndsLies
<1>5. CASE sync.from # NONE
  <2>1. sync'.pc = "retire" /\ Stays(sync, sync') /\ Busy(sync)
    BY <1>2, <1>5, SameStays DEF WholeVector, Locals
  <2>2. ~Felling(sync') /\ ~Clearing(sync')
    BY <2>1, NotFelling
  <2> QED
    BY <1>1, <1>3, <2>1, <2>2, PastLies
<1> QED
  BY <1>4, <1>5

LEMMA RetireLies == ASSUME Laid, Retire PROVE Lies
<1>1. /\ sync.path # NONE /\ Run /\ sync.pc = "retire" /\ docs' = docs
  BY DEF Laid, Inv, SyncOK, Retire, Working, Run, Record, stores
<1>2. SyncOK(sync) /\ RowsOK /\ Stays(sync, sync') /\ Busy(sync) /\ sync.from \notin DOMAIN sync.records
  BY <1>1, AtHand, SameStays DEF SyncOK
<1>3. sync'.pc = "tree" /\ sync.from \in Paths /\ sync'.dels = Tree(sync.from, Count(sync.from))
  BY <1>2, RetireLocal
<1>4. \A k \in DOMAIN sync'.dels : sync'.dels[k] # NONE => sync'.dels[k][1] = sync.from
  BY <1>2, <1>3, CountOK, TreeOK, WholeOK
<1>5. sync.quiet => /\ Is(docs, <<sync.path, 0>>, sync.records[sync.path])
                    /\ Holds(docs, sync.path, sync.records[sync.path], SizeOf(sync))
                    /\ Clear(docs, sync.path, SizeOf(sync))
  BY <1>1, PastChunks DEF Beyond
<1>6. ~Clearing(sync')
  BY <1>3 DEF Clearing
<1> QED
  BY <1>1, <1>2, <1>3, <1>4, <1>5, <1>6, PastLies

\* The felling of a tree goes on.
LEMMA FellLies ==
    ASSUME Laid, Run, Felling(sync), Felling(sync'), Stays(sync, sync'), Busy(sync),
           \A k \in DOMAIN sync'.dels :
               sync'.dels[k] # NONE => sync'.dels[k][1] \notin DOMAIN sync.records,
           \A i \in 0..MaxChunks : docs'[<<sync.path, i>>] = docs[<<sync.path, i>>]
    PROVE  Lies
<1>1. sync.pc \in {"tree", "vector"} /\ sync'.pc \in {"tree", "vector"} /\ ~Clearing(sync')
  BY DEF Felling, Clearing
<1>2. SyncOK(sync)
  BY DEF Laid, Inv
<1>3. CASE sync.path = NONE
  <2>1. /\ sync'.path = NONE /\ sync'.records = sync.records /\ sync'.todo = sync.todo
        /\ sync'.failed = sync.failed /\ sync'.cands = sync.cands /\ sync'.quiet = sync.quiet
    BY <1>3 DEF Stays, Carries
  <2>2. sync.todo = {} /\ DOMAIN sync.cands \cap DOMAIN sync.records = {}
    BY <1>1, <1>3 DEF Laid, Elsewhere
  <2>3. Elsewhere(sync')
    BY <2>1, <2>2 DEF Elsewhere
  <2>4. Past(sync') = Past(sync) /\ sync'.todo \subseteq sync.todo \ {sync.path}
    BY <1>3, <2>1, <2>2 DEF Past
  <2> QED
    BY <1>1, <2>1, <2>3, <2>4, FreeLies
<1>4. CASE sync.path # NONE
  <2>1. sync.quiet => /\ Is(docs, <<sync.path, 0>>, sync.records[sync.path])
                      /\ Holds(docs, sync.path, sync.records[sync.path], SizeOf(sync))
                      /\ Clear(docs, sync.path, SizeOf(sync))
    BY <1>1, <1>4, PastChunks DEF Beyond
  <2>2. Untouched(docs, docs', sync.path) /\ SizeOf(sync) \in 0..MaxChunks
    BY <1>4, AtHand DEF Untouched
  <2>3. sync.quiet => /\ Is(docs', <<sync.path, 0>>, sync.records[sync.path])
                      /\ Holds(docs', sync.path, sync.records[sync.path], SizeOf(sync))
                      /\ Clear(docs', sync.path, SizeOf(sync))
    BY <2>1, <2>2, UntouchedStays DEF Is
  <2> QED
    BY <1>1, <1>4, <2>3, PastLies
<1> QED
  BY <1>3, <1>4

LEMMA VectorLies == ASSUME Laid, DeleteVector, Felling(sync) PROVE Lies
<1>1. SyncOK(sync) /\ Run /\ sync.pc = "vector" /\ docs' = docs /\ sync.dels # <<>>
      /\ sync.dels \in Seq(Ids \cup {NONE})
  BY SyncTypes DEF Laid, Inv, SyncOK, DeleteVector, Run, Record
<1>2. Stays(sync, sync') /\ Busy(sync) /\ sync'.dels = Tail(sync.dels)
  BY <1>1, SameStays, VectorLocal
<1>3. sync'.pc = "tree"
  BY <1>1, TailOf DEF DeleteVector, Felling, SyncOK, Locals
<1>4. \A k \in DOMAIN sync'.dels : k + 1 \in DOMAIN sync.dels /\ sync'.dels[k] = sync.dels[k + 1]
  BY <1>1, <1>2, RestOf
<1>5. \A k \in DOMAIN sync'.dels :
         sync'.dels[k] # NONE => sync'.dels[k][1] \notin DOMAIN sync.records
  BY <1>4 DEF Laid, Elsewhere
<1>6. Felling(sync')
  BY <1>3 DEF Felling
<1> QED
  BY <1>1, <1>2, <1>5, <1>6, FellLies

LEMMA TreeLies == ASSUME Laid, DeleteTree PROVE Lies
<1>1. SyncOK(sync) /\ RowsOK /\ sync \in Locals /\ Run /\ sync.pc = "tree" /\ Felling(sync) /\ Busy(sync)
      /\ sync.dels \in Seq(Ids \cup {NONE}) /\ Foreign(sync)
      /\ \A k \in DOMAIN sync.dels : sync.dels[k] # NONE => sync.dels[k][1] \notin DOMAIN sync.records
  BY SyncTypes DEF Laid, Inv, SyncOK, DeleteTree, Run, Record, Felling, Busy, Elsewhere
<1>2. CASE sync.dels = <<>> /\ sync.path # NONE
  <2>1. sync' = EndOfRecord(sync) /\ docs' = docs
    BY <1>2 DEF DeleteTree
  <2>2. sync.quiet => /\ Is(docs, <<sync.path, 0>>, sync.records[sync.path])
                      /\ Holds(docs, sync.path, sync.records[sync.path], SizeOf(sync))
                      /\ Clear(docs, sync.path, SizeOf(sync))
    BY <1>1, <1>2, PastChunks DEF Beyond
  <2> QED
    BY <1>1, <1>2, <2>1, <2>2, EndsLies
<1>3. CASE sync.dels = <<>> /\ sync.path = NONE
  <2>1. /\ sync'.pc = "prune" /\ sync'.path = NONE /\ sync'.records = sync.records
        /\ sync'.todo = sync.todo /\ sync'.failed = sync.failed /\ sync'.cands = sync.cands
        /\ sync'.quiet = sync.quiet
    BY <1>1, <1>3 DEF DeleteTree, Locals
  <2>2. sync.todo = {} /\ DOMAIN sync.cands \cap DOMAIN sync.records = {}
    BY <1>1, <1>3 DEF Laid, Elsewhere
  <2>3. Elsewhere(sync')
    BY <2>1, <2>2, NotFelling DEF Elsewhere
  <2>4. Past(sync') = Past(sync) /\ sync'.todo \subseteq sync.todo \ {sync.path}
    BY <1>3, <2>1, <2>2 DEF Past
  <2> QED
    BY <1>1, <2>1, <2>3, <2>4, FreeLies
<1>4. CASE sync.dels # <<>>
  <2>1. /\ Head(sync.dels) = sync.dels[1] /\ 1 \in DOMAIN sync.dels
        /\ Stays(sync, sync')
    BY <1>1, <1>4, TailOf, SameStays
  <2>2. CASE Head(sync.dels) = NONE
    <3>1. sync'.pc = "tree" /\ sync'.dels = Tail(sync.dels) /\ docs' = docs
      BY <1>1, <1>4, <2>2 DEF DeleteTree, Locals
    <3>2. \A k \in DOMAIN sync'.dels : k + 1 \in DOMAIN sync.dels /\ sync'.dels[k] = sync.dels[k + 1]
      BY <1>1, <1>4, <3>1, RestOf
    <3>3. Felling(sync')
      BY <3>1 DEF Felling
    <3> QED
      BY <1>1, <2>1, <3>1, <3>2, <3>3, FellLies
  <2>3. CASE Head(sync.dels) # NONE
    <3>1. sync'.pc = "vector" /\ sync'.dels = sync.dels /\ docs' = [docs EXCEPT ![sync.dels[1]] = NONE]
      BY <1>1, <1>4, <2>1, <2>3 DEF DeleteTree, Locals
    <3>2. sync.dels[1] \in Ids /\ sync.dels[1][1] # sync.path
      BY <1>1, <2>1, <2>3 DEF Foreign
    <3>3. Felling(sync')
      BY <2>1, <3>1, <3>2 DEF Felling, Stays, Carries
    <3>4. \A i \in 0..MaxChunks : <<sync.path, i>> # sync.dels[1]
      BY <3>2
    <3>5. \A i \in 0..MaxChunks : docs'[<<sync.path, i>>] = docs[<<sync.path, i>>]
      BY <1>1, <3>1, <3>4 DEF RowsOK
    <3> QED
      BY <1>1, <2>1, <3>1, <3>3, <3>5, FellLies
  <2> QED
    BY <2>2, <2>3
<1> QED
  BY <1>2, <1>3, <1>4

LEMMA PruneLies == ASSUME Laid, ListCandidates \/ \E p \in Paths : Prune(p) PROVE Lies
<1>1. SyncOK(sync) /\ RowsOK /\ sync \in Locals /\ Run /\ docs' = docs /\ sync.path = NONE /\ Busy(sync)
      /\ sync.pc \in {"plan", "prune"}
  BY DEF Laid, Inv, SyncOK, SyncStates, Working, ListCandidates, Prune, Run, stores, Busy
<1>2. /\ sync'.path = NONE /\ sync'.records = sync.records /\ sync'.todo = sync.todo
      /\ sync'.failed = sync.failed /\ sync'.quiet = sync.quiet
  <2>1. CASE ListCandidates
    BY <1>1, <2>1 DEF ListCandidates, Locals
  <2>2. ASSUME NEW p \in Paths, Prune(p)
        PROVE  /\ sync'.path = NONE /\ sync'.records = sync.records /\ sync'.todo = sync.todo
               /\ sync'.failed = sync.failed /\ sync'.quiet = sync.quiet
    BY <1>1, <2>2 DEF Prune, Locals
  <2> QED
    BY <2>1, <2>2
<1>3. sync.todo = {}
  <2>1. sync.pc = "prune" => sync.todo = {}
    BY DEF Laid, Elsewhere
  <2> QED
    BY <2>1 DEF ListCandidates, Prune
<1>4. Past(sync') = Past(sync) /\ sync'.todo \subseteq sync.todo \ {sync.path}
  BY <1>1, <1>2, <1>3 DEF Past
<1>5. CASE ListCandidates
  <2> DEFINE gone == {p \in Paths \ (DOMAIN sync.records \cup sync.moved) : docs[Whole(p)] # NONE}
  <2>1. sync'.pc = "prune" /\ sync'.cands = [p \in gone |-> docs[Whole(p)]]
    BY <1>1, <1>5 DEF ListCandidates, Locals
  <2>2. DOMAIN sync'.cands = gone
    BY <2>1
  <2>3. gone \cap DOMAIN sync.records = {}
    OBVIOUS
  <2>4. Elsewhere(sync')
    BY <1>2, <1>3, <2>1, <2>2, <2>3, NotFelling DEF Elsewhere
  <2> QED
    BY <1>1, <1>2, <1>4, <2>1, <2>4, FreeLies
<1>6. ASSUME NEW p \in Paths, Prune(p) PROVE Lies
  <2>1. p \in DOMAIN sync.cands /\ sync'.cands = Without(sync.cands, p)
        /\ DOMAIN sync.cands \cap DOMAIN sync.records = {}
    BY <1>1, <1>6 DEF Prune, Locals, Laid, Elsewhere
  <2>2. DOMAIN sync'.cands = DOMAIN sync.cands \ {p}
    BY <2>1 DEF Without
  <2>3. \/ sync'.pc = "prune"
        \/ /\ sync'.pc = "tree" /\ sync.cands[p].count \in 0..MaxChunks
           /\ sync'.dels = Tree(p, sync.cands[p].count)
    BY <1>1, <1>6, PruneLocal
  <2>4. CASE sync'.pc = "prune"
    <3>1. Elsewhere(sync')
      BY <1>2, <1>3, <2>1, <2>2, <2>4, NotFelling DEF Elsewhere
    <3> QED
      BY <1>1, <1>2, <1>4, <2>4, <3>1, FreeLies
  <2>5. CASE sync'.pc = "tree" /\ sync.cands[p].count \in 0..MaxChunks
             /\ sync'.dels = Tree(p, sync.cands[p].count)
    <3>1. \A k \in DOMAIN sync'.dels : sync'.dels[k] # NONE => sync'.dels[k][1] = p
      BY <2>5, TreeOK, WholeOK
    <3>2. p \notin DOMAIN sync.records
      BY <2>1
    <3>3. Elsewhere(sync')
      BY <1>2, <1>3, <2>1, <2>2, <3>1, <3>2 DEF Elsewhere
    <3> QED
      BY <1>1, <1>2, <1>4, <2>5, <3>3, FreeLies
  <2> QED
    BY <2>3, <2>4, <2>5
<1> QED
  BY <1>5, <1>6

LEMMA EndLies == ASSUME Laid, EndOfRun PROVE Lies
<1>1. SyncOK(sync) /\ sync \in Locals /\ Run /\ sync.path = NONE /\ Busy(sync)
      /\ sync.pc \in {"plan", "prune"}
  BY DEF Laid, Inv, SyncOK, SyncStates, Working, EndOfRun, Run, Busy
<1>2. /\ sync'.pc = "done" /\ sync'.path = NONE /\ sync'.records = sync.records
      /\ sync'.todo = sync.todo /\ sync'.failed = sync.failed /\ sync'.cands = sync.cands
      /\ sync'.quiet = sync.quiet
  BY <1>1 DEF EndOfRun, Locals
<1>3. sync.todo = {}
  BY DEF Laid, Elsewhere, EndOfRun
<1>4. Past(sync') = Past(sync) /\ sync'.todo \subseteq sync.todo \ {sync.path}
  BY <1>1, <1>2, <1>3 DEF Past
<1>5. Elsewhere(sync')
  BY <1>2, <1>3, NotFelling DEF Laid, Elsewhere
<1> QED
  BY <1>1, <1>2, <1>4, <1>5, FreeLies

\* A record that is skipped has landed.
LEMMA SkipLands ==
    ASSUME SyncOK(sync), RowsOK, NEW p \in Paths, NEW t \in Texts, SkipRecord(p, t)
    PROVE  Buried(docs, <<p, 0>>) \/ Lands(docs, p, t)
<1>1. CASE Tomb(Whole(p))
  BY <1>1 DEF Tomb, Whole, Buried
<1>2. CASE HasText(Whole(p), t) /\ RecordLanded(p, t)
  <2> DEFINE n == Len(Spans[t])
  <2>1. n \in 0..MaxChunks
    BY SpansOK
  <2>2. Is(docs, <<p, 0>>, t)
    BY <1>2 DEF HasText, Whole, Is
  <2>3. Holds(docs, p, t, n)
    BY <1>2 DEF RecordLanded, Holds, Buried, Is, Tomb, HasText
  <2>4. ASSUME n > 0 PROVE Clear(docs, p, n)
    <3> SUFFICES ASSUME NEW i \in (n + 1)..MaxChunks, Serves(docs, <<p, i>>) PROVE Gap(docs, p, n, i)
      BY DEF Clear
    <3>1. PICK f : f = FirstAbsent(p, n + 1)
      OBVIOUS
    <3>2. n + 1 \in 0..(MaxChunks + 1) /\ n + 1 \in (n + 1)..(MaxChunks + 1)
      BY <2>1, SpansOK
    <3>3. f \in (n + 1)..(MaxChunks + 1)
      BY <3>1, <3>2, ProbeIs
    <3>4. \A k \in (n + 1)..(f - 1) : Tomb(<<p, k>>)
      BY <1>2, <2>4, <3>1 DEF RecordLanded
    <3>5. ~(i \in (n + 1)..(f - 1))
      BY <3>4 DEF Tomb, Serves
    <3>6. i >= f
      BY <2>1, <3>3, <3>5, SpansOK
    <3> QED
      BY <2>1, <3>1, <3>2, <3>6, GapAfter DEF Serves
  <2> QED
    BY <2>2, <2>3, <2>4 DEF Lands
<1> QED
  BY <1>1, <1>2 DEF SkipRecord

LEMMA PlanLies == ASSUME Laid, NEW p \in Paths, Plan(p) PROVE Lies
<1> DEFINE t == sync.records[p]
<1>1. /\ SyncOK(sync) /\ RowsOK /\ sync \in Locals /\ sync.pc = "plan" /\ docs' = docs /\ Run
      /\ sync.path = NONE /\ p \in sync.todo /\ p \in DOMAIN sync.records /\ t \in Texts /\ Busy(sync)
      /\ p # NONE
  BY SyncTypes, CorpusAssumption DEF Laid, Inv, Plan, stores, SyncOK, SyncStates, Working, Run, Busy
<1>2. NONE \notin sync.todo /\ DOMAIN sync.cands \cap DOMAIN sync.records = {}
      /\ (sync.quiet => Ahead(sync, docs) /\ Done(sync, docs))
  BY <1>1, SyncTypes, CorpusAssumption DEF Laid, Elsewhere, Quiet, Underway
<1>3. CASE SkipRecord(p, t)
  <2>1. /\ sync'.pc = "plan" /\ sync'.path = NONE /\ sync'.records = sync.records
        /\ sync'.todo = sync.todo \ {p} /\ sync'.failed = sync.failed /\ sync'.cands = sync.cands
        /\ sync'.quiet = sync.quiet
    BY <1>1, <1>3 DEF Plan, Locals
  <2>2. Elsewhere(sync')
    BY <1>2, <2>1, NotFelling DEF Elsewhere
  <2>3. Past(sync') \ Past(sync) \subseteq {p} /\ sync'.todo \subseteq sync.todo \ {sync.path}
    BY <1>1, <1>2, <2>1 DEF Past
  <2>4. Buried(docs, <<p, 0>>) \/ Lands(docs, p, sync.records[p])
    BY <1>1, <1>3, SkipLands
  <2> QED
    BY <1>1, <2>1, <2>2, <2>3, <2>4, FreeLies
<1>4. CASE ~SkipRecord(p, t)
  <2>1. PICK a \in Actions(p, t) :
           sync' = [sync EXCEPT
                  !.pc = IF a[1] = "update" THEN "stored" ELSE "put",
                  !.path = p, !.action = a[1], !.from = a[2],
                  !.moved = IF a[1] = "move" THEN @ \cup {a[2]} ELSE @]
    BY <1>4 DEF Plan
  <2>2. a[1] = "update" <=> docs[Whole(p)] # NONE
    BY <1>1, PlanChoice
  <2>3. /\ sync'.pc = (IF a[1] = "update" THEN "stored" ELSE "put") /\ sync'.records = sync.records
        /\ sync'.failed = sync.failed /\ sync'.path = p /\ sync'.action = a[1] /\ sync'.todo = sync.todo
        /\ sync'.cands = sync.cands /\ sync'.quiet = sync.quiet
    BY <1>1, <2>1 DEF Locals
  <2>4. sync'.pc \in {"stored", "put"}
    BY <2>3
  <2>5. ~Felling(sync') /\ ~Placed(sync')
    BY <2>4, NotFelling DEF Placed
  <2>6. Elsewhere(sync')
    BY <1>1, <1>2, <2>3, <2>4, <2>5 DEF Elsewhere
  <2>7. ASSUME sync.quiet PROVE Ahead(sync', docs') /\ Ready(sync', docs') /\ Done(sync', docs')
    <3>1. Ahead(sync', docs')
      BY <1>1, <1>2, <2>3, <2>7 DEF Ahead
    <3>2. docs[Whole(p)] = NONE => Bare(docs, p)
      BY <1>1, <1>2, <2>7 DEF Ahead, Whole
    <3>3. Ready(sync', docs')
      <4>1. a[1] # "update" => Bare(docs, p)
        BY <2>2, <3>2
      <4>2. sync'.action # "update" => Bare(docs', sync'.path)
        BY <1>1, <2>3, <4>1
      <4> QED
        BY <4>2 DEF Ready
    <3>4. Past(sync') \subseteq Past(sync)
      <4>1. NONE \notin DOMAIN sync.records
        BY <1>1, SyncTypes, CorpusAssumption
      <4> QED
        BY <1>1, <2>3, <4>1 DEF Past
    <3>5. Done(sync', docs')
      BY <1>1, <1>2, <2>3, <2>7, <3>4 DEF Done
    <3> QED
      BY <3>1, <3>3, <3>5
  <2> QED
    BY <2>3, <2>5, <2>6, <2>7 DEF Lies, Quiet, Underway
<1> QED
  BY <1>3, <1>4

-----------------------------------------------------------------------------
LEMMA StartLies == ASSUME Laid, Start PROVE Lies
<1>1. PICK scope \in Scopes, prune \in BOOLEAN, classify \in BOOLEAN :
         sync' = [Idle EXCEPT !.pc = "plan", !.todo = {p \in scope : file[p] # NONE},
                              !.records = [p \in {p \in scope : file[p] # NONE} |-> file[p]],
                              !.prune = prune, !.classify = classify,
                              !.quiet = redact.pc = "idle" /\ NoStrayChunk]
  BY DEF Start
<1> DEFINE found == {p \in scope : file[p] # NONE}
           records == [p \in found |-> file[p]]
           quiet == redact.pc = "idle" /\ NoStrayChunk
<1>2. DOMAIN records = found /\ found \subseteq Paths
  BY DEF Scopes
<1> HIDE DEF found, records, quiet
<1>3. /\ sync'.pc = "plan" /\ sync'.todo = found /\ sync'.records = records /\ sync'.path = NONE
      /\ sync'.cands = <<>> /\ (sync'.quiet <=> quiet)
  BY <1>1 DEF Idle, found, records, quiet
<1>4. ~Felling(sync') /\ ~Placed(sync') /\ Ready(sync', docs') /\ docs' = docs
  BY <1>3, NotFelling DEF Placed, Ready, Start, stores
<1>5. Elsewhere(sync')
  BY <1>3, <1>4 DEF Elsewhere
<1>6. Past(sync') = {}
  BY <1>2, <1>3 DEF Past
<1>7. ASSUME quiet PROVE Ahead(sync', docs')
  <2> SUFFICES ASSUME NEW p \in found, docs[<<p, 0>>] = NONE, NEW i \in 1..MaxChunks
               PROVE  ~Serves(docs, <<p, i>>)
    BY <1>3, <1>4 DEF Ahead, Bare
  <2> QED
    BY <1>2, <1>7 DEF quiet, NoStrayChunk, Live, Whole, Serves
<1> QED
  BY <1>3, <1>4, <1>5, <1>6, <1>7 DEF Lies, Quiet, Underway, Done

LEMMA RaiseLies == ASSUME Laid, Raise PROVE Lies
<1>1. SyncOK(sync) /\ sync \in Locals /\ docs' = docs /\ Busy(sync)
  BY DEF Laid, Inv, SyncOK, Raise, stores, Resting, Busy
<1>2. CASE sync' = Idle
  <2>1. /\ sync'.pc = "idle" /\ sync'.records = <<>> /\ sync'.todo = {} /\ sync'.cands = <<>>
    BY <1>2 DEF Idle
  <2>2. ~Felling(sync') /\ Elsewhere(sync')
    BY <2>1, NotFelling DEF Elsewhere
  <2>3. Past(sync') = {}
    BY <2>1 DEF Past
  <2> QED
    BY <2>1, <2>2, <2>3 DEF Lies, Quiet, Busy, Done
<1>3. CASE sync.path # NONE /\ sync' = [EndOfRecord(sync) EXCEPT !.failed = @ \cup {sync.path}]
  <2> DEFINE d == EndOfRecord(sync)
  <2>1. /\ d.pc = "plan" /\ d.records = sync.records /\ d.path = NONE /\ d.cands = sync.cands
        /\ d.todo = sync.todo \ {sync.path} /\ d.quiet = sync.quiet
        /\ d.failed = sync.failed /\ d \in Locals
    BY <1>1, EndsRecord DEF EndOfRecord, Locals, SyncOK
  <2> HIDE DEF d
  <2>2. /\ sync'.pc = "plan" /\ sync'.records = sync.records /\ sync'.path = NONE
        /\ sync'.todo = sync.todo \ {sync.path} /\ sync'.quiet = sync.quiet
        /\ sync'.failed = sync.failed \cup {sync.path} /\ sync'.cands = sync.cands
    BY <1>3, <2>1 DEF Locals, d
  <2>3. ~Felling(sync') /\ Elsewhere(sync')
    BY <2>2, NotFelling DEF Laid, Elsewhere
  <2>4. Past(sync') \subseteq Past(sync)
    BY <2>2 DEF Past
  <2> QED
    BY <1>1, <2>2, <2>3, <2>4, FreeLies
<1> QED
  BY <1>2, <1>3 DEF Raise

LEMMA SyncLies == ASSUME Laid, Start \/ Run \/ Raise PROVE Lies
<1>1. CASE Record
  <2>1. CASE Guard
    BY <2>1, PrePutLies, GuardLies DEF Guard
  <2>2. CASE DeleteVector
    BY <2>2, ClearLies, VectorLies
  <2>3. CASE Record /\ ~Guard /\ ~DeleteVector
    BY <2>3, PrePutLies, PutLies, ReadLies, WriteLies, EmbedLies, ProbeLies, SurplusLies, WholeLies,
       RetireLies, TreeLies DEF Record
  <2> QED
    BY <1>1, <2>1, <2>2, <2>3
<1>2. CASE Run /\ ~Record
  BY <1>2, PlanLies, PruneLies, EndLies DEF Run
<1> QED
  BY <1>1, <1>2, StartLies, RaiseLies

\* What a parent tells of its pieces.
LEMMA SizedStep == ASSUME Inv, Sized(docs), Next PROVE Sized(docs')
<1>1. SyncOK(sync) /\ RowsOK
  BY DEF Inv
<1>2. \A p \in Paths : <<p, 0>> \in Ids
  BY Within, IdOf
<1>3. CASE docs' = docs
  BY <1>3
<1>4. CASE Redaction \/ Others
  BY <1>2, <1>4, OthersFade DEF Fades, Sized
<1>5. CASE WriteChunk
  <2>1. Chunk[2] # 0 /\ \A e \in Ids \ {Chunk} : docs'[e] = docs[e]
    BY <1>1, <1>5, SyncPuts
  <2>2. \A p \in Paths : docs'[<<p, 0>>] = docs[<<p, 0>>]
    <3> SUFFICES ASSUME NEW p \in Paths PROVE <<p, 0>> # Chunk
      BY <1>2, <2>1
    <3> QED
      BY <2>1
  <2> QED
    BY <2>2 DEF Sized, Serves
<1>6. CASE PutParent
  <2> DEFINE row == [text |-> Text, count |-> Size, tag |-> ParentTag, tomb |-> FALSE]
  <2>1. Target \in Ids /\ Target = Whole(sync.path) /\ \A d \in Ids \ {Target} : docs'[d] = docs[d]
    BY <1>1, <1>6, SyncPuts
  <2>2. docs' = [docs EXCEPT ![Whole(sync.path)] = row]
    BY <1>6 DEF PutParent, PutDocument
  <2>3. row.text = Text /\ row.count = Len(Spans[Text])
    BY DEF Size
  <2>4. Text \in Texts
    BY <1>1, <1>6, TargetIs DEF PutParent
  <2> HIDE DEF row
  <2>5. docs'[Target] = row
    BY <1>1, <2>1, <2>2 DEF RowsOK
  <2> SUFFICES ASSUME NEW p \in Paths, Serves(docs', <<p, 0>>)
               PROVE  /\ docs'[<<p, 0>>].text \in Texts
                      /\ docs'[<<p, 0>>].count = Len(Spans[docs'[<<p, 0>>].text])
    BY DEF Sized
  <2>6. CASE <<p, 0>> = Target
    BY <2>3, <2>4, <2>5, <2>6
  <2>7. CASE <<p, 0>> # Target
    BY <1>2, <2>1, <2>7 DEF Sized, Serves
  <2> QED
    BY <2>6, <2>7
<1>7. CASE Deletes
  <2>1. \A e \in Ids : docs'[e] = docs[e] \/ docs'[e] = NONE
    BY <1>1, <1>7 DEF Deletes, RowsOK
  <2> QED
    BY <1>2, <2>1 DEF Sized, Serves
<1> QED
  BY <1>3, <1>4, <1>5, <1>6, <1>7, SyncRows DEF Next

LEMMA RunQuiet == ASSUME SyncOK(sync), Run PROVE sync'.quiet = sync.quiet /\ Busy(sync)
<1>1. sync \in Locals
  BY DEF SyncOK
<1>2. CASE Record
  <2>1. CASE WholeVector /\ sync.from = NONE
    BY <1>1, <2>1 DEF WholeVector, EndOfRecord, Locals, Busy
  <2>2. CASE DeleteTree /\ sync.dels = <<>>
    BY <1>1, <2>2 DEF DeleteTree, EndOfRecord, Locals, Busy
  <2>3. CASE Record /\ ~(WholeVector /\ sync.from = NONE) /\ ~(DeleteTree /\ sync.dels = <<>>)
    BY <2>3, SameStays DEF Record, Stays
  <2> QED
    BY <1>2, <2>1, <2>2, <2>3
<1>3. CASE ListCandidates \/ EndOfRun
  BY <1>1, <1>3 DEF ListCandidates, EndOfRun, Locals, Busy
<1>4. ASSUME NEW p \in Paths, Plan(p) PROVE sync'.quiet = sync.quiet /\ Busy(sync)
  BY <1>1, <1>4 DEF Plan, Locals, Busy
<1>5. ASSUME NEW p \in Paths, Prune(p) PROVE sync'.quiet = sync.quiet /\ Busy(sync)
  BY <1>1, <1>5 DEF Prune, Locals, Busy
<1> QED
  BY <1>2, <1>3, <1>4, <1>5 DEF Run

\* The others change no local that says what is to be felled.
LEMMA OthersElsewhere ==
    ASSUME SyncOK(sync), Elsewhere(sync), Redaction \/ Others
    PROVE  Elsewhere(sync')
<1>1. CASE sync' = sync
  BY <1>1
<1>2. ASSUME NEW blanked, Disturb(blanked) PROVE Elsewhere(sync')
  <2>1. sync \in Locals
    BY DEF SyncOK
  <2>2. CASE ~Resting
    <3> DEFINE late == sync.late \/ (sync.pc \in {"putting", "writing"} /\ Target \in blanked)
    <3>1. sync' = [sync EXCEPT !.quiet = FALSE, !.late = late]
      BY <1>2, <2>2 DEF Disturb
    <3> HIDE DEF late
    <3>2. /\ sync'.pc = sync.pc /\ sync'.cands = sync.cands /\ sync'.records = sync.records
          /\ sync'.dels = sync.dels /\ sync'.path = sync.path /\ sync'.todo = sync.todo
      BY <2>1, <3>1 DEF Locals
    <3> QED
      BY <3>2 DEF Elsewhere, Felling
  <2> QED
    BY <1>1, <1>2, <2>2 DEF Disturb
<1>3. sync' = sync \/ \E blanked : Disturb(blanked)
  BY DEF Redaction, Others, RedactVector, ReadDeclared, RedactChunk, RedactParent, RedactionFails,
     ChangeFile, Demote
<1> QED
  BY <1>1, <1>2, <1>3

LEMMA LandStep == Inv /\ LandInv /\ [Next]_vars => LandInv'
<1> SUFFICES ASSUME Inv, LandInv, [Next]_vars PROVE LandInv'
  OBVIOUS
<1>1. Sized(docs') /\ Elsewhere(sync') /\ Quiet(sync', docs')
      /\ (sync'.quiet /\ Busy(sync') => redact'.pc = "idle") => LandInv'
  BY DEF LandInv, Sized, Elsewhere, Quiet, Busy, Underway, Ahead, Ready, Placed, InPlace, Is, Holds,
     Reaches, Beyond, Surplus, Clear, Gap, Bare, Done, Past, Lands, Serves, Buried, Felling, Clearing,
     Listed, SizeOf
<1>2. Sized(docs) /\ Elsewhere(sync) /\ Quiet(sync, docs)
      /\ (sync.quiet /\ Busy(sync) => redact.pc = "idle")
  BY DEF LandInv
<1>3. CASE UNCHANGED vars
  <2>1. docs' = docs /\ sync' = sync /\ redact' = redact
    BY <1>3 DEF vars, stores
  <2> QED
    BY <1>1, <1>2, <2>1
<1>4. CASE Start \/ Run \/ Raise
  <2>1. SyncOK(sync') /\ redact' = redact
    BY <1>4, SyncKeeps, SyncTurns DEF Kept
  <2>2. Lies
    BY <1>2, <1>4, <2>1, SyncLies DEF Laid
  <2>3. Sized(docs')
    BY <1>2, <1>4, SizedStep DEF Next
  <2>4. ASSUME sync'.quiet, Busy(sync') PROVE redact.pc = "idle"
    <3>1. CASE Start
      <4>1. PICK scope \in Scopes, prune \in BOOLEAN, classify \in BOOLEAN :
               sync' = [Idle EXCEPT !.pc = "plan", !.todo = {p \in scope : file[p] # NONE},
                              !.records = [p \in {p \in scope : file[p] # NONE} |-> file[p]],
                              !.prune = prune, !.classify = classify,
                              !.quiet = redact.pc = "idle" /\ NoStrayChunk]
        BY <3>1 DEF Start
      <4>2. sync'.quiet <=> (redact.pc = "idle" /\ NoStrayChunk)
        BY <4>1 DEF Idle
      <4> QED
        BY <2>4, <4>2
    <3>2. CASE Raise
      <4>1. sync.pc \notin {"idle", "done"}
        BY <3>2 DEF Raise, Resting
      <4>2. CASE sync' = Idle
        BY <2>4, <4>2, IdleSync DEF Busy
      <4>3. CASE sync' = [EndOfRecord(sync) EXCEPT !.failed = @ \cup {sync.path}]
        <5>1. sync \in Locals
          BY DEF Inv, SyncOK
        <5>2. sync'.quiet = sync.quiet
          BY <4>3, <5>1 DEF EndOfRecord, Locals
        <5> QED
          BY <1>2, <2>4, <4>1, <5>2 DEF Busy
      <4> QED
        BY <3>2, <4>2, <4>3 DEF Raise
    <3>3. CASE Run
      <4>1. sync'.quiet = sync.quiet /\ Busy(sync)
        BY <3>3, RunQuiet DEF Inv
      <4> QED
        BY <1>2, <2>4, <4>1
    <3> QED
      BY <1>4, <3>1, <3>2, <3>3
  <2> QED
    BY <1>1, <2>1, <2>2, <2>3, <2>4 DEF Lies
<1>5. CASE Redaction \/ Others
  <2>1. Sized(docs') /\ Fades(docs, docs')
    BY <1>2, <1>5, SizedStep, OthersFade DEF Next
  <2>2. SyncOK(sync)
    BY DEF Inv
  <2>3. CASE sync'.quiet
    <3>1. sync' = sync /\ (Busy(sync) => docs' = docs /\ redact'.pc = "idle")
      BY <1>2, <1>5, <2>2, <2>3, OthersLeave
    <3>2. Done(sync, docs')
      <4> SUFFICES ASSUME NEW p \in Past(sync) PROVE Buried(docs', <<p, 0>>) \/ Lands(docs', p, sync.records[p])
        BY DEF Done
      <4>1. p \in Paths /\ sync.records[p] \in Texts
        BY <2>2, SyncTypes DEF Past
      <4>2. Buried(docs, <<p, 0>>) \/ Lands(docs, p, sync.records[p])
        BY <1>2, <2>3, <3>1 DEF Quiet, Done
      <4> QED
        BY <2>1, <4>1, <4>2, FadesStays
    <3>3. Quiet(sync, docs')
      BY <1>2, <3>1, <3>2 DEF Quiet
    <3> QED
      BY <1>1, <1>2, <2>1, <3>1, <3>3
  <2>4. CASE ~sync'.quiet
    <3>1. Elsewhere(sync')
      BY <1>2, <1>5, <2>2, OthersElsewhere
    <3> QED
      BY <1>1, <2>1, <2>4, <3>1 DEF Quiet
  <2> QED
    BY <2>3, <2>4
<1> QED
  BY <1>3, <1>4, <1>5 DEF Next

-----------------------------------------------------------------------------
LEMMA InitLand == Init => LandInv
<1> SUFFICES ASSUME Init PROVE LandInv
  OBVIOUS
<1>1. sync.pc = "idle" /\ sync.records = <<>> /\ sync.todo = {} /\ sync.cands = <<>>
  BY DEF Init, Idle
<1>2. Elsewhere(sync)
  BY <1>1, NotFelling DEF Elsewhere
<1>3. Sized(docs)
  BY Within, IdOf DEF Init, Sized, Serves
<1>4. ~Busy(sync) /\ Past(sync) = {}
  BY <1>1 DEF Busy, Past
<1> QED
  BY <1>2, <1>3, <1>4 DEF LandInv, Quiet, Done

\* The parent of a document that is there serves its text.
LEMMA TextServes ==
    ASSUME RowsOK, NEW p \in Paths, NEW t \in Texts, Is(docs, <<p, 0>>, t)
    PROVE  Serves(docs, <<p, 0>>)
<1>1. <<p, 0>> \in Ids
  BY Within, IdOf
<1>2. Tomb(<<p, 0>>) => t = BLANK
  BY <1>1 DEF RowsOK, Is
<1> QED
  BY <1>2, CorpusAssumption DEF Is, Serves, Tomb

LEMMA LandSaid == Inv /\ BlankInv /\ LandInv => RunLandsRecords
<1> SUFFICES ASSUME Inv, BlankInv, LandInv, sync.quiet, sync.pc = "done",
                    NEW p \in DOMAIN sync.records \ sync.failed
             PROVE  Tomb(Whole(p)) \/ Landed(p, sync.records[p])
  BY DEF RunLandsRecords
<1> DEFINE t == sync.records[p]
           n == Len(Spans[t])
<1>1. SyncOK(sync) /\ RowsOK /\ p \in Paths /\ t \in Texts /\ <<p, 0>> \in Ids /\ Whole(p) = <<p, 0>>
  BY SyncTypes, DeclaredOK DEF Inv
<1>2. n \in 0..MaxChunks
  BY <1>1, SpansOK
<1>3. sync.path = NONE
  BY <1>1 DEF SyncOK, SyncStates, Working
<1>4. sync.todo = {}
  BY DEF LandInv, Elsewhere
<1>5. p \in Past(sync)
  BY <1>1, <1>3, <1>4, CorpusAssumption DEF Past
<1>6. Buried(docs, <<p, 0>>) \/ Lands(docs, p, t)
  BY <1>5 DEF LandInv, Quiet, Done
<1>7. CASE Buried(docs, <<p, 0>>)
  BY <1>1, <1>7 DEF Buried, Tomb
<1>8. CASE Lands(docs, p, t)
  <2>1. Is(docs, <<p, 0>>, t) /\ Holds(docs, p, t, n) /\ (n > 0 => Clear(docs, p, n))
    BY <1>8 DEF Lands
  <2>2. HasText(Whole(p), t)
    BY <1>1, <2>1 DEF Is, HasText
  <2>3. \A i \in 1..n : Tomb(<<p, i>>) \/ HasText(<<p, i>>, Spans[t][i])
    BY <2>1 DEF Holds, Buried, Is, Tomb, HasText
  <2>4. ASSUME n > 0, NEW i \in (n + 1)..MaxChunks, Live(<<p, i>>) PROVE BeyondGap(p, n, i)
    <3>1. Serves(docs, <<p, i>>)
      BY <2>4 DEF Live, Serves
    <3>2. \E j \in (n + 1)..(i - 1) : docs[<<p, j>>] = NONE
      BY <2>1, <2>4, <3>1 DEF Clear, Gap
    <3>3. ASSUME NoFaults, Waits PROVE FALSE
      <4>1. Reached(sync, docs)
        BY <3>3 DEF BlankInv
      <4>2. Plain(docs)
        BY <4>1, PlainOf DEF Chunking
      <4>3. i \in 1..MaxChunks /\ i > n
        BY <1>2, Within
      <4>4. i <= Declared(docs, p)
        BY <1>1, <3>1, <4>2, <4>3 DEF Plain
      <4>5. docs[<<p, 0>>].count = n /\ docs[<<p, 0>>] # NONE
        BY <1>1, <2>1, TextServes DEF LandInv, Sized, Is
      <4>6. Declared(docs, p) = n
        BY <4>5 DEF Declared
      <4> QED
        BY <1>2, <4>3, <4>4, <4>6, SpansOK
    <3> QED
      BY <3>2, <3>3 DEF BeyondGap
  <2> QED
    BY <2>2, <2>3, <2>4 DEF Landed
<1> QED
  BY <1>6, <1>7, <1>8

\* A run that no other writer disturbed has, when it ends, put every record it
\* did not report as failed: the document, all its chunks, and nothing of a
\* longer text within reach beyond them, whatever an earlier run that died or
\* was refused had left half done.
THEOREM RecordsAlwaysLand == Spec => []RunLandsRecords
<1>1. Spec => []BlankInv
  BY InitBlank, BlankStep, Invariant, PTL DEF Spec
<1>2. Spec => []LandInv
  BY InitLand, LandStep, Invariant, PTL DEF Spec
<1> QED
  BY <1>1, <1>2, Invariant, LandSaid, PTL

-----------------------------------------------------------------------------
(* A second run writes nothing *)

\* Every file is in place or redacted; and a run at work only looks, or fells
\* what has no file.
Rests(ds, f) ==
    \A p \in Paths : f[p] # NONE => Buried(ds, <<p, 0>>) \/ Lands(ds, p, f[p])
Skims(s, f) ==
    Busy(s) =>
        /\ s.path = NONE /\ s.pc \in {"plan", "prune", "tree", "vector"}
        /\ ~s.prune => s.pc = "plan"
        /\ \A p \in DOMAIN s.records : s.records[p] = f[p]
        /\ Felling(s) => \A k \in DOMAIN s.dels : s.dels[k] # NONE => f[s.dels[k][1]] = NONE
SettledInv == settled => Rests(docs, file) /\ Skims(sync, file)

\* A record that is in place is skipped.
LEMMA LandSkips ==
    ASSUME RowsOK, NEW p \in Paths, NEW t \in Texts, Buried(docs, <<p, 0>>) \/ Lands(docs, p, t)
    PROVE  SkipRecord(p, t)
<1>1. CASE Buried(docs, <<p, 0>>)
  BY <1>1 DEF SkipRecord, Tomb, Whole, Buried
<1>2. CASE Lands(docs, p, t)
  <2> DEFINE n == Len(Spans[t])
  <2>1. n \in 0..MaxChunks
    BY SpansOK
  <2>2. Is(docs, <<p, 0>>, t) /\ Holds(docs, p, t, n) /\ (n > 0 => Clear(docs, p, n))
    BY <1>2 DEF Lands
  <2>3. HasText(Whole(p), t)
    BY <2>2 DEF HasText, Whole, Is
  <2>4. \A i \in 1..n : Tomb(<<p, i>>) \/ HasText(<<p, i>>, Spans[t][i])
    BY <2>2 DEF Holds, Buried, Is, Tomb, HasText
  <2>5. ASSUME n > 0, NEW i \in (n + 1)..(FirstAbsent(p, n + 1) - 1) PROVE Tomb(<<p, i>>)
    <3>1. PICK f : f = FirstAbsent(p, n + 1)
      OBVIOUS
    <3>2. n + 1 \in 0..(MaxChunks + 1)
      BY <2>1, SpansOK
    <3>3. f \in (n + 1)..(MaxChunks + 1) /\ \A k \in (n + 1)..(f - 1) : docs[<<p, k>>] # NONE
      BY <3>1, <3>2, ProbeIs
    <3>4. i \in (n + 1)..MaxChunks /\ i \in (n + 1)..(f - 1)
      BY <2>1, <2>5, <3>1, <3>3, SpansOK
    <3>5. ~Gap(docs, p, n, i)
      <4>1. \A j \in (n + 1)..(i - 1) : j \in (n + 1)..(f - 1)
        BY <2>1, <3>3, <3>4, SpansOK
      <4> QED
        BY <3>3, <4>1 DEF Gap
    <3> QED
      BY <2>2, <2>5, <3>3, <3>4, <3>5 DEF Clear, Serves, Tomb
  <2>6. RecordLanded(p, t)
    BY <2>4, <2>5 DEF RecordLanded
  <2> QED
    BY <2>3, <2>6 DEF SkipRecord
<1> QED
  BY <1>1, <1>2

\* A run that finds everything in place.
Skimming == /\ Inv /\ LandInv /\ settled /\ Rests(docs, file) /\ Skims(sync, file)
SkimsOn == Rests(docs', file) /\ Skims(sync', file)

LEMMA StartSkims == ASSUME Skimming, Start PROVE SkimsOn
<1>1. PICK scope \in Scopes, prune \in BOOLEAN, classify \in BOOLEAN :
         sync' = [Idle EXCEPT !.pc = "plan", !.todo = {p \in scope : file[p] # NONE},
                              !.records = [p \in {p \in scope : file[p] # NONE} |-> file[p]],
                              !.prune = prune, !.classify = classify,
                              !.quiet = redact.pc = "idle" /\ NoStrayChunk]
  BY DEF Start
<1> DEFINE found == {p \in scope : file[p] # NONE}
           records == [p \in found |-> file[p]]
           quiet == redact.pc = "idle" /\ NoStrayChunk
<1>2. DOMAIN records = found /\ \A p \in found : records[p] = file[p]
  OBVIOUS
<1> HIDE DEF found, records, quiet
<1>3. sync'.pc = "plan" /\ sync'.path = NONE /\ sync'.records = records
  BY <1>1 DEF Idle, found, records, quiet
<1>4. ~Felling(sync')
  BY <1>3, NotFelling
<1>5. docs' = docs
  BY DEF Start, stores
<1> QED
  BY <1>2, <1>3, <1>4, <1>5 DEF Skimming, SkimsOn, Skims

LEMMA PlanSkims == ASSUME Skimming, NEW p \in Paths, Plan(p) PROVE SkimsOn /\ UNCHANGED stores
<1> DEFINE t == sync.records[p]
<1>1. /\ SyncOK(sync) /\ RowsOK /\ sync \in Locals /\ sync.pc = "plan" /\ UNCHANGED stores
      /\ p \in sync.todo /\ p \in DOMAIN sync.records /\ t \in Texts /\ Busy(sync)
  BY SyncTypes DEF Skimming, Inv, Plan, SyncOK, Busy
<1>2. t = file[p] /\ t # NONE
  BY <1>1, CorpusAssumption DEF Skimming, Skims
<1>3. SkipRecord(p, t)
  BY <1>1, <1>2, LandSkips DEF Skimming, Rests
<1>4. sync' = [sync EXCEPT !.todo = @ \ {p}]
  BY <1>3 DEF Plan
<1>5. sync'.pc = "plan" /\ sync'.path = sync.path /\ sync'.records = sync.records
  BY <1>1, <1>4 DEF Locals
<1>6. ~Felling(sync')
  BY <1>5, NotFelling
<1>7. docs' = docs
  BY <1>1 DEF stores
<1> QED
  BY <1>1, <1>5, <1>6, <1>7 DEF Skimming, SkimsOn, Skims

LEMMA PruneSkims ==
    ASSUME Skimming, ListCandidates \/ \E p \in Paths : Prune(p)
    PROVE  SkimsOn
<1>1. /\ SyncOK(sync) /\ sync \in Locals /\ docs' = docs /\ sync.path = NONE /\ Busy(sync)
  BY DEF Skimming, Inv, SyncOK, SyncStates, Working, ListCandidates, Prune, stores, Busy
<1>2. CASE ListCandidates
  <2>1. sync'.pc = "prune" /\ sync'.path = NONE /\ sync'.records = sync.records /\ sync'.prune
    BY <1>1, <1>2 DEF ListCandidates, Locals
  <2>2. ~Felling(sync')
    BY <2>1, NotFelling
  <2> QED
    BY <1>1, <2>1, <2>2 DEF Skimming, SkimsOn, Skims
<1>3. ASSUME NEW p \in Paths, Prune(p) PROVE SkimsOn
  <2>1. sync.prune
    BY <1>1, <1>3 DEF Prune, Skimming, Skims
  <2>2. sync'.path = NONE /\ sync'.records = sync.records /\ sync'.prune = sync.prune
    BY <1>1, <1>3 DEF Prune, Locals
  <2>3. \/ sync'.pc = "prune"
        \/ /\ sync'.pc = "tree" /\ sync.cands[p].count \in 0..MaxChunks
           /\ sync'.dels = Tree(p, sync.cands[p].count)
    BY <1>1, <1>3, PruneLocal
  <2>4. CASE sync'.pc = "prune"
    <3>1. ~Felling(sync')
      BY <2>4, NotFelling
    <3> QED
      BY <1>1, <2>1, <2>2, <2>4, <3>1 DEF Skimming, SkimsOn, Skims
  <2>5. CASE sync'.pc = "tree" /\ sync.cands[p].count \in 0..MaxChunks
             /\ sync'.dels = Tree(p, sync.cands[p].count)
    <3>1. file[p] = NONE
      <4>1. CASE Vanished(p)
        BY <4>1 DEF Vanished
      <4>2. CASE ~Vanished(p)
        BY <1>1, <1>3, <2>5, <4>2 DEF Prune, Locals
      <4> QED
        BY <4>1, <4>2
    <3>2. \A k \in DOMAIN sync'.dels : sync'.dels[k] # NONE => sync'.dels[k][1] = p
      BY <2>5, TreeOK, WholeOK
    <3> QED
      BY <1>1, <2>1, <2>2, <2>5, <3>1, <3>2 DEF Skimming, SkimsOn, Skims
  <2> QED
    BY <2>3, <2>4, <2>5
<1> QED
  BY <1>2, <1>3

LEMMA FellSkims == ASSUME Skimming, DeleteVector \/ DeleteTree PROVE SkimsOn
<1>1. /\ SyncOK(sync) /\ RowsOK /\ sync \in Locals /\ sync.path = NONE /\ Busy(sync) /\ sync.prune
      /\ sync.pc \in {"tree", "vector"} /\ sync.dels \in Seq(Ids \cup {NONE})
      /\ sync.pc = "vector" => sync.dels # <<>> /\ sync.dels[1] \in Ids
  BY SyncTypes DEF Skimming, Inv, SyncOK, DeleteVector, DeleteTree, Busy, Skims
<1>2. Felling(sync)
  BY <1>1, PathOf DEF Felling
<1>3. \A k \in DOMAIN sync.dels : sync.dels[k] # NONE => file[sync.dels[k][1]] = NONE
  BY <1>1, <1>2 DEF Skimming, Skims
<1>4. sync'.path = NONE /\ sync'.records = sync.records /\ sync'.prune = sync.prune
  <2>1. CASE DeleteVector
    BY <1>1, <2>1 DEF DeleteVector, Locals
  <2>2. CASE DeleteTree
    BY <1>1, <2>2 DEF DeleteTree, Locals
  <2> QED
    BY <2>1, <2>2
<1>5. ASSUME sync'.pc \in {"tree", "vector"}, docs' = docs, sync.dels # <<>>, sync'.dels = Tail(sync.dels)
      PROVE  SkimsOn
  <2>1. \A k \in DOMAIN sync'.dels : k + 1 \in DOMAIN sync.dels /\ sync'.dels[k] = sync.dels[k + 1]
    BY <1>1, <1>5, RestOf
  <2>2. \A k \in DOMAIN sync'.dels : sync'.dels[k] # NONE => file[sync'.dels[k][1]] = NONE
    BY <1>3, <2>1
  <2> QED
    BY <1>1, <1>4, <1>5, <2>2 DEF Skimming, SkimsOn, Skims
<1>6. CASE DeleteVector
  <2>1. sync'.pc = "tree" /\ sync'.dels = Tail(sync.dels) /\ docs' = docs /\ sync.dels # <<>>
    <3>1. sync.pc = "vector" /\ Head(sync.dels) = sync.dels[1]
      BY <1>1, <1>6, TailOf DEF DeleteVector
    <3>2. sync.dels[1][1] # sync.path
      BY <1>1, <3>1, PathOf
    <3> QED
      BY <1>1, <1>6, <3>1, <3>2 DEF DeleteVector, Locals
  <2> QED
    BY <1>5, <2>1
<1>7. CASE DeleteTree /\ sync.dels = <<>>
  <2>1. sync'.pc = "prune" /\ docs' = docs
    BY <1>1, <1>7 DEF DeleteTree, Locals
  <2>2. ~Felling(sync')
    BY <2>1, NotFelling
  <2> QED
    BY <1>1, <1>4, <2>1, <2>2 DEF Skimming, SkimsOn, Skims
<1>8. CASE DeleteTree /\ sync.dels # <<>>
  <2>1. Head(sync.dels) = sync.dels[1] /\ 1 \in DOMAIN sync.dels /\ sync.dels[1] \in Ids \cup {NONE}
    BY <1>1, <1>8, TailOf
  <2>2. CASE Head(sync.dels) = NONE
    <3>1. sync'.pc = "tree" /\ sync'.dels = Tail(sync.dels) /\ docs' = docs
      BY <1>1, <1>8, <2>2 DEF DeleteTree, Locals
    <3> QED
      BY <1>5, <1>8, <3>1
  <2>3. CASE Head(sync.dels) # NONE
    <3>1. sync'.pc = "vector" /\ sync'.dels = sync.dels /\ docs' = [docs EXCEPT ![sync.dels[1]] = NONE]
      BY <1>1, <1>8, <2>1, <2>3 DEF DeleteTree, Locals
    <3>2. sync.dels[1] \in Ids /\ file[sync.dels[1][1]] = NONE
      BY <1>3, <2>1, <2>3
    <3>3. Rests(docs', file)
      <4> SUFFICES ASSUME NEW p \in Paths, file[p] # NONE
                   PROVE  Buried(docs', <<p, 0>>) \/ Lands(docs', p, file[p])
        BY DEF Rests
      <4>1. \A i \in 0..MaxChunks : <<p, i>> # sync.dels[1]
        BY <3>2
      <4>2. \A i \in 0..MaxChunks : docs'[<<p, i>>] = docs[<<p, i>>]
        BY <1>1, <3>1, <4>1, IdOf DEF RowsOK
      <4>3. Untouched(docs, docs', p)
        BY <4>2 DEF Untouched
      <4>4. Buried(docs, <<p, 0>>) \/ Lands(docs, p, file[p])
        BY DEF Skimming, Rests
      <4>5. PICK t \in Texts : t = file[p]
        BY DEF Skimming, Inv, RestOK
      <4>6. /\ docs'[<<p, 0>>] = docs[<<p, 0>>]
            /\ Lands(docs, p, t) => Lands(docs', p, t)
        BY <4>3, UntouchedStays
      <4> QED
        BY <4>4, <4>5, <4>6 DEF Buried
    <3>4. \A k \in DOMAIN sync'.dels : sync'.dels[k] # NONE => file[sync'.dels[k][1]] = NONE
      BY <1>3, <3>1
    <3>5. \A p \in DOMAIN sync'.records : sync'.records[p] = file[p]
      BY <1>1, <1>4 DEF Skimming, Skims
    <3> QED
      BY <1>1, <1>4, <3>1, <3>3, <3>4, <3>5 DEF SkimsOn, Skims
  <2> QED
    BY <2>2, <2>3
<1> QED
  BY <1>6, <1>7, <1>8

\* A quiet run that ends well has put all there is.
LEMMA EndSettles == ASSUME Inv, LandInv, EndOfRun, settled' PROVE SkimsOn
<1>1. SyncOK(sync) /\ sync \in Locals /\ sync.path = NONE /\ docs' = docs
  BY DEF Inv, SyncOK, SyncStates, Working, EndOfRun, stores
<1>2. sync.todo = {}
  BY DEF LandInv, Elsewhere, EndOfRun
<1>3. /\ sync.failed = {} /\ sync.quiet
      /\ \A p \in Paths : file[p] # NONE => p \in DOMAIN sync.records /\ sync.records[p] = file[p]
  BY DEF EndOfRun
<1>4. Rests(docs, file)
  <2> SUFFICES ASSUME NEW p \in Paths, file[p] # NONE
               PROVE  Buried(docs, <<p, 0>>) \/ Lands(docs, p, file[p])
    BY DEF Rests
  <2>1. p \in Past(sync)
    BY <1>1, <1>2, <1>3, CorpusAssumption DEF Past
  <2> QED
    BY <1>3, <2>1 DEF LandInv, Quiet, Done
<1>5. sync'.pc = "done"
  BY <1>1 DEF EndOfRun, Locals
<1> QED
  BY <1>1, <1>4, <1>5 DEF SkimsOn, Skims, Busy

LEMMA OthersSkim == ASSUME Skimming, Redaction \/ Others, file' = file PROVE SkimsOn
<1>1. SyncOK(sync) /\ sync \in Locals
  BY DEF Skimming, Inv, SyncOK
<1>2. Fades(docs, docs')
  BY OthersFade DEF Skimming
<1>3. Rests(docs', file)
  <2> SUFFICES ASSUME NEW p \in Paths, file[p] # NONE
               PROVE  Buried(docs', <<p, 0>>) \/ Lands(docs', p, file[p])
    BY DEF Rests
  <2>1. file[p] \in Texts
    BY DEF Skimming, Inv, RestOK
  <2>2. Buried(docs, <<p, 0>>) \/ Lands(docs, p, file[p])
    BY DEF Skimming, Rests
  <2> QED
    BY <1>2, <2>1, <2>2, FadesStays
<1>4. ASSUME NEW blanked, Disturb(blanked) PROVE Skims(sync', file)
  <2>1. CASE Resting
    BY <1>4, <2>1 DEF Disturb, Skimming
  <2>2. CASE ~Resting
    <3> DEFINE late == sync.late \/ (sync.pc \in {"putting", "writing"} /\ Target \in blanked)
    <3>1. sync' = [sync EXCEPT !.quiet = FALSE, !.late = late]
      BY <1>4, <2>2 DEF Disturb
    <3> HIDE DEF late
    <3>2. /\ sync'.pc = sync.pc /\ sync'.records = sync.records /\ sync'.prune = sync.prune
          /\ sync'.dels = sync.dels /\ sync'.path = sync.path
      BY <1>1, <3>1 DEF Locals
    <3> QED
      BY <3>2 DEF Skimming, Skims, Felling, Busy
  <2> QED
    BY <2>1, <2>2
<1>5. sync' = sync \/ \E blanked : Disturb(blanked)
  BY DEF Redaction, Others, RedactVector, ReadDeclared, RedactChunk, RedactParent, RedactionFails,
     ChangeFile, Demote
<1>6. Skims(sync', file)
  BY <1>4, <1>5 DEF Skimming
<1> QED
  BY <1>3, <1>6 DEF SkimsOn

LEMMA RecordSkims == ASSUME Skimming, Record PROVE DeleteVector \/ DeleteTree
<1>1. sync.pc \in {"plan", "prune", "tree", "vector"}
  <2>1. Busy(sync)
    BY DEF Record, Busy, ReadStored, Guard, PutParent, ReadChunk, WriteChunk, EmbedChunk, ProbeSurplus,
           DeleteSurplus, DeleteVector, WholeVector, Retire, DeleteTree
  <2> QED
    BY <2>1 DEF Skimming, Skims
<1> QED
  BY <1>1 DEF Record, ReadStored, Guard, PutParent, ReadChunk, WriteChunk, EmbedChunk, ProbeSurplus,
              DeleteSurplus, WholeVector, Retire

\* Whatever keeps the history keeps the directory.
LEMMA SettledTells ==
    ASSUME Next, settled'
    PROVE  file' = file /\ (EndOfRun \/ (~Raise /\ settled))
<1>1. ~Raise
  BY DEF Raise
<1>2. CASE Start \/ ListCandidates \/ \E p \in Paths : Plan(p) \/ Prune(p)
  BY <1>1, <1>2 DEF Start, ListCandidates, Plan, Prune
<1>3. CASE Record
  <2>1. file' = file /\ settled' = settled
    BY <1>3 DEF Record, ReadStored, Guard, PutParent, ReadChunk, WriteChunk, EmbedChunk, ProbeSurplus,
       DeleteSurplus, DeleteVector, WholeVector, Retire, DeleteTree
  <2> QED
    BY <1>1, <2>1
<1>4. CASE EndOfRun
  BY <1>4 DEF EndOfRun
<1>5. CASE Redaction \/ \E d \in Ids : Demote(d)
  <2>1. file' = file /\ settled' = settled
    BY <1>5 DEF Redaction, RedactVector, ReadDeclared, RedactChunk, RedactParent, RedactionFails, Demote
  <2> QED
    BY <1>1, <2>1
<1>6. ASSUME NEW p \in Paths, NEW t \in Texts \cup {NONE}, ChangeFile(p, t) PROVE FALSE
  BY <1>6 DEF ChangeFile
<1> QED
  BY <1>1, <1>2, <1>3, <1>4, <1>5, <1>6 DEF Next, Run, Others

LEMMA SettledStep == Inv /\ LandInv /\ SettledInv /\ [Next]_vars => SettledInv'
<1> SUFFICES ASSUME Inv, LandInv, SettledInv, [Next]_vars, settled' PROVE Rests(docs', file') /\ Skims(sync', file')
  BY DEF SettledInv, Rests, Skims, Lands, Is, Holds, Clear, Gap, Serves, Buried, Busy, Felling
<1>1. CASE UNCHANGED vars
  <2>1. docs' = docs /\ file' = file /\ sync' = sync /\ settled
    BY <1>1 DEF vars, stores
  <2> QED
    BY <2>1 DEF SettledInv
<1>2. CASE Next
  <2>1. file' = file /\ (EndOfRun \/ (~Raise /\ settled))
    BY <1>2, SettledTells
  <2>2. CASE EndOfRun
    BY <2>1, <2>2, EndSettles DEF SkimsOn
  <2>3. CASE ~EndOfRun
    <3>1. Skimming
      BY <2>1, <2>3 DEF Skimming, SettledInv
    <3>2. SkimsOn
      BY <1>2, <2>1, <2>3, <3>1, StartSkims, PlanSkims, PruneSkims, RecordSkims, FellSkims, OthersSkim
         DEF Next, Run
    <3> QED
      BY <2>1, <3>2 DEF SkimsOn
  <2> QED
    BY <2>2, <2>3
<1> QED
  BY <1>1, <1>2

\* What a quiet, settled run that does not prune does to the stores.
LEMMA QuietWritesNothing ==
    ASSUME Inv, LandInv, SettledInv, [Next]_vars, sync.quiet, sync'.quiet, settled, ~Resting, ~sync.prune
    PROVE  UNCHANGED stores
<1>1. Busy(sync) /\ Skimming /\ SyncOK(sync)
  BY DEF Resting, Busy, Skimming, SettledInv, Inv
<1>2. sync.pc = "plan"
  <2>1. Skims(sync, file)
    BY <1>1 DEF Skimming
  <2> QED
    BY <1>1, <2>1 DEF Skims
<1>3. CASE UNCHANGED vars
  BY <1>3 DEF vars, stores
<1>4. CASE Start \/ Raise \/ ListCandidates \/ EndOfRun
  BY <1>4 DEF Start, Raise, ListCandidates, EndOfRun
<1>5. CASE Record
  BY <1>1, <1>2, <1>5, RecordSkims DEF DeleteVector, DeleteTree
<1>6. ASSUME NEW p \in Paths, Plan(p) \/ Prune(p) PROVE UNCHANGED stores
  BY <1>6 DEF Plan, Prune
<1>7. CASE Redaction \/ Others
  <2>1. redact.pc = "idle" /\ sync' = sync
    BY <1>1, <1>7, OthersLeave DEF LandInv
  <2>2. \A blanked : ~Disturb(blanked)
    <3> SUFFICES ASSUME NEW blanked, Disturb(blanked) PROVE FALSE
      OBVIOUS
    <3> DEFINE late == sync.late \/ (sync.pc \in {"putting", "writing"} /\ Target \in blanked)
    <3>1. sync' = [sync EXCEPT !.quiet = FALSE, !.late = late] /\ sync \in Locals
      BY <1>1 DEF Disturb, SyncOK
    <3> HIDE DEF late
    <3>2. ~sync'.quiet
      BY <3>1 DEF Locals
    <3> QED
      BY <3>2
  <2> QED
    BY <1>7, <2>1, <2>2 DEF Redaction, Others, RedactVector, ReadDeclared, RedactChunk, RedactParent,
       RedactionFails, ChangeFile, Demote
<1> QED
  BY <1>3, <1>4, <1>5, <1>6, <1>7 DEF Next, Run

\* Once a quiet run of every file has ended well, and until a file changes, a
\* run that no other writer disturbs and that does not prune writes nothing to
\* either store, whatever was redacted or demoted in between.
THEOREM SecondRunsWriteNothing == Spec => SecondRunWritesNothing
<1>1. Inv /\ LandInv /\ SettledInv /\ [Next]_vars =>
         [sync.quiet /\ sync'.quiet /\ settled /\ ~Resting /\ ~sync.prune => UNCHANGED stores]_vars
  BY QuietWritesNothing
<1>2. Init => SettledInv
  BY DEF Init, SettledInv
<1>3. Spec => []LandInv
  BY InitLand, LandStep, Invariant, PTL DEF Spec
<1>4. Spec => []SettledInv
  BY <1>2, <1>3, SettledStep, Invariant, PTL DEF Spec
<1> QED
  BY <1>1, <1>3, <1>4, Invariant, PTL DEF Spec, SecondRunWritesNothing
=============================================================================
