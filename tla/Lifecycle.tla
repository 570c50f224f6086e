------------------------------ MODULE Lifecycle ------------------------------
(* Who may be served: the lifecycle stamp of an item in its three planes.   *)
(* Precedents are promoted, demoted and reinstated (mutate/handlers/        *)
(* precedent.py), retention archives and restores by criteria (retention.py *)
(* and retention_handlers.py), and a redaction purges an item and scrubs    *)
(* the precedents that copied its text (redaction.py).  Each handler writes *)
(* the graph, the documents, the vectors and the log one after another.     *)
(*                                                                          *)
(* A step is one call of a store, with the read it is computed from.  The   *)
(* compare-and-set loop of _rewrite_current_node is therefore one step: it  *)
(* writes over the version it read or reads again (see GraphStore).  Text   *)
(* is one bit, whether it is copied from the source.  Left out are edges,   *)
(* aliases, names, the unattended callers and dry runs; chunks are in       *)
(* CorpusSync.                                                              *)
EXTENDS Naturals, Sequences, FiniteSets

CONSTANTS
    Learned,   \* promoted precedents: in the namespace, with a document row
    Outside,   \* precedents outside it, which have a node only
    Source,    \* the entity whose document the precedents copied
    Mints,     \* entities an extraction minted, with a node only
    Noisy,     \* documents tagged noise, without a node
    Callers,   \* the commands that may run at once
    MaxActs, MaxFaults, \* bounds: commands; deaths and outages
    Modes      \* what may happen in a behaviour: subsets of Events

Precedents == Learned \cup Outside
Nodes == Precedents \cup Mints \cup {Source}
Items == Nodes \cup Noisy

\* The commands, and: two overlap; a process dies or a store raises; the
\* vector store is out; promotion embeds.
Events == {"approve", "demote", "reinstate", "prune", "restore", "redact", "confirm",
           "overlap", "death", "outage", "embed"}

ASSUME LifecycleAssumption ==
    /\ Learned \cap Outside = {} /\ Source \notin Precedents \cup Mints
    /\ Mints \cap Precedents = {} /\ Noisy \cap Nodes = {}
    /\ MaxActs \in Nat /\ MaxFaults \in Nat
    /\ Modes \subseteq SUBSET Events

VARIABLES
    env,     \* the events that may happen, fixed at the start
    node,    \* the versions of each node, oldest first; none is a purge
    doc,     \* the document row of each item
    vec,     \* the metadata snapshot on its vector row
    log,     \* the last lifecycle event of each precedent
    gone,    \* the items a REDACTION_APPLIED event names
    ruled,   \* history: precedents a demotion stands against
    down,    \* the vector store is out
    run,     \* the locals of each caller
    spent    \* how much of each bound is used up

stores == <<node, doc, vec, log, gone, ruled>>
vars == <<env, stores, down, run, spent>>

Stamps == {"unset", "current", "demoted", "archived"}
Version(life, copy, sure) == [life |-> life, copy |-> copy, sure |-> sure]
Row(life, copy) == [state |-> "row", life |-> life, copy |-> copy]
NoRow == [state |-> "none", life |-> "unset", copy |-> FALSE]
Tombstone == [state |-> "tomb", life |-> "archived", copy |-> FALSE]

Idle == [pc |-> "idle", op |-> "none", item |-> Source, life |-> "unset",
         copy |-> FALSE, strict |-> FALSE, todo |-> {}, rest |-> {}]

\* A precedent was never promoted, promoted before it wrote a document, or
\* promoted in full; the other items are there.
Init ==
    /\ env \in Modes
    /\ \E bare, full \in SUBSET Learned :
         /\ bare \cap full = {}
         /\ node = [i \in Items |->
              IF i \in Noisy \cup (Learned \ (bare \cup full)) THEN <<>>
              ELSE <<Version("unset", i \in Precedents \cup {Source}, FALSE)>>]
         /\ doc = [i \in Items |->
              IF i \in full \cup Noisy \cup {Source}
              THEN Row("unset", i \notin Noisy) ELSE NoRow]
         /\ vec = doc
         /\ log = [i \in Precedents |-> IF i \in bare \cup full THEN "promoted" ELSE "none"]
    /\ gone = {} /\ ruled = {} /\ down = FALSE
    /\ run = [c \in Callers |-> Idle]
    /\ spent = [acts |-> 0, faults |-> 0]

-----------------------------------------------------------------------------
(* Reads                                                                    *)

Live(i) == node[i] # <<>>
Top(i) == node[i][Len(node[i])]

\* _current_lifecycle_state: no stamp reads as current.
Reads(stamp) == IF stamp = "unset" THEN "current" ELSE stamp
State(i) == Reads(Top(i).life)

Fault == spent.faults < MaxFaults /\ spent' = [spent EXCEPT !.faults = @ + 1]
Goto(c, pc) == run' = [run EXCEPT ![c].pc = pc]
Done(c) == run' = [run EXCEPT ![c] = Idle]

Admit(c, op) ==
    /\ op \in env /\ spent.acts < MaxActs
    /\ run[c].pc = "idle"
    /\ "overlap" \in env \/ \A d \in Callers : run[d].pc = "idle"
    /\ spent' = [spent EXCEPT !.acts = @ + 1]

\* A command starts: its first reads have let it through.
Enter(c, op, self) ==
    /\ Admit(c, op)
    /\ run' = [run EXCEPT ![c] = [self EXCEPT !.op = op]]
    /\ UNCHANGED <<env, stores, down>>

-----------------------------------------------------------------------------
(* Writes                                                                   *)

\* _rewrite_current_node: a new version that changes the stamp, over the
\* current one; nothing when the node is gone.
Restamped(i, life) == [node EXCEPT ![i] = Append(@, [Top(i) EXCEPT !.life = life])]

\* sync_vector_metadata_outcome: it fails soft.
Mirrored(i, life) ==
    IF down \/ vec[i].state = "none" THEN vec ELSE [vec EXCEPT ![i].life = life]

\* put_document: a row that is not a tombstone, and its mirror.
PutRow(i, row) ==
    /\ doc' = [doc EXCEPT ![i] = row]
    /\ vec' = Mirrored(i, row.life)

-----------------------------------------------------------------------------
(* Approval: submit_learning_promotion, entity.create, precedent.promote    *)

\* resolve_source_excerpt copies from a row that is served.
Approve(c, p) ==
    /\ p \notin gone /\ doc[p].state # "tomb"
    /\ Live(p) => State(p) = "current"
    /\ Enter(c, "approve", [Idle EXCEPT !.pc = "create", !.item = p,
              !.copy = doc[Source].state = "row" /\ doc[Source].life # "archived"])

\* EntityCreateHandler replaces the whole bag, of a current precedent only.
Replaceable(p) == Live(p) => State(p) = "current"

Create(c) ==
    LET p == run[c].item IN
    /\ run[c].pc = "create"
    /\ IF Replaceable(p)
       THEN /\ node' = [node EXCEPT ![p] = Append(@, Version("unset", run[c].copy, FALSE))]
            /\ Goto(c, "load")
       ELSE UNCHANGED node /\ Done(c)
    /\ UNCHANGED <<env, doc, vec, log, gone, ruled, down, spent>>

\* PrecedentPromoteHandler reads the node; without one it only announces.
Load(c) ==
    LET p == run[c].item IN
    /\ run[c].pc = "load"
    /\ run' = [run EXCEPT ![c].pc = IF Live(p) THEN "put" ELSE "announce",
                          ![c].life = IF Live(p) THEN Top(p).life ELSE @,
                          ![c].copy = IF Live(p) THEN Top(p).copy ELSE @]
    /\ UNCHANGED <<env, stores, down, spent>>

\* The row is the node's text and stamp; a tombstone is refused.
Put(c) ==
    LET self == run[c] IN
    /\ self.pc = "put"
    /\ IF doc[self.item].state = "tomb" THEN UNCHANGED <<doc, vec>> /\ Done(c)
       ELSE PutRow(self.item, Row(self.life, self.copy)) /\ Goto(c, "embed")
    /\ UNCHANGED <<env, node, log, gone, ruled, down, spent>>

\* run_embed_on_ingest, after a promotion or after a scrub, fails soft.
Embed(c) ==
    LET self == run[c] IN
    /\ self.pc = "embed"
    /\ vec' = IF down \/ "embed" \notin env THEN vec
              ELSE [vec EXCEPT ![self.item] = Row(self.life, self.copy)]
    /\ Goto(c, IF self.op = "redact" THEN "scrub" ELSE "announce")
    /\ UNCHANGED <<env, node, doc, log, gone, ruled, down, spent>>

-----------------------------------------------------------------------------
(* precedent.demote: the document row first, then the node                  *)

\* A demoted target is a success that writes nothing, any other state but
\* current a refusal.
DemoteNodeFirst(c, p) ==
    /\ Live(p) /\ State(p) = "current"
    /\ Enter(c, "demote", [Idle EXCEPT !.pc = "mark", !.item = p, !.life = "demoted"])

Demote(c, p) ==
    /\ Live(p) /\ State(p) = "current"
    /\ Enter(c, "demote", [Idle EXCEPT !.pc = "stamp", !.item = p, !.life = "demoted"])

\* _stamp_precedent_document: a precedent without a row is given none, and a
\* tombstone is left alone.
Stamp(c) ==
    LET p == run[c].item IN
    /\ run[c].pc = "stamp"
    /\ IF doc[p].state = "row" THEN PutRow(p, [doc[p] EXCEPT !.life = "demoted"])
       ELSE UNCHANGED <<doc, vec>>
    /\ Goto(c, "mark")
    /\ UNCHANGED <<env, node, log, gone, ruled, down, spent>>

Mark(c) ==
    LET p == run[c].item IN
    /\ run[c].pc = "mark"
    /\ IF Live(p)
       THEN /\ node' = Restamped(p, "demoted")
            /\ ruled' = ruled \cup {p}
            /\ Goto(c, "sync")
       ELSE UNCHANGED <<node, ruled>> /\ Done(c)
    /\ UNCHANGED <<env, doc, vec, log, gone, down, spent>>

\* _sync_vector_lifecycle.
Sync(c) ==
    LET self == run[c] IN
    /\ self.pc = "sync"
    /\ vec' = Mirrored(self.item, self.life)
    /\ IF self.op = "restore" THEN Done(c) ELSE Goto(c, "announce")
    /\ UNCHANGED <<env, node, doc, log, gone, ruled, down, spent>>

\* PRECEDENT_PROMOTED, PRECEDENT_DEMOTED or PRECEDENT_REINSTATED.
Announced == [approve |-> "promoted", demote |-> "demoted", reinstate |-> "reinstated"]
Announce(c) ==
    /\ run[c].pc = "announce"
    /\ log' = [log EXCEPT ![run[c].item] = Announced[run[c].op]]
    /\ Done(c)
    /\ UNCHANGED <<env, node, doc, vec, gone, ruled, down, spent>>

-----------------------------------------------------------------------------
(* precedent.reinstate: the node first, then the document row               *)

\* A reinstatement that died between the two is repaired by a second one.
RowOnly(p) == State(p) = "current" /\ doc[p].state = "row" /\ doc[p].life = "demoted"

Reinstate(c, p) ==
    /\ Live(p) /\ (State(p) = "demoted" \/ RowOnly(p))
    /\ Enter(c, "reinstate", [Idle EXCEPT !.item = p, !.life = "current",
                                          !.strict = RowOnly(p),
                                          !.pc = IF RowOnly(p) THEN "restamp" ELSE "unmark"])

Unmark(c) ==
    LET p == run[c].item IN
    /\ run[c].pc = "unmark"
    /\ IF Live(p)
       THEN /\ node' = Restamped(p, "current")
            /\ ruled' = ruled \ {p}
            /\ Goto(c, "restamp")
       ELSE UNCHANGED <<node, ruled>> /\ Done(c)
    /\ UNCHANGED <<env, doc, vec, log, gone, down, spent>>

\* _restamp_document: after the node a store that raises leaves the row
\* withheld and the command goes on.  For the repair, which is strict, a store
\* that raises ends the command (Die), and so does a tombstone.
Restamp(c) ==
    LET p == run[c].item IN
    /\ run[c].pc = "restamp"
    /\ \/ /\ doc[p].state = "row"
          /\ PutRow(p, [doc[p] EXCEPT !.life = "current"])
          /\ Goto(c, "sync")
          /\ UNCHANGED spent
       \/ /\ doc[p].state # "row"
          /\ IF run[c].strict /\ doc[p].state = "tomb" THEN Done(c) ELSE Goto(c, "sync")
          /\ UNCHANGED <<doc, vec, spent>>
       \/ /\ "death" \in env /\ ~run[c].strict
          /\ Goto(c, "sync")
          /\ Fault
          /\ UNCHANGED <<doc, vec>>
    /\ UNCHANGED <<env, node, log, gone, ruled, down>>

-----------------------------------------------------------------------------
(* retention.prune and retention.restore                                    *)

\* _classify_document and _classify_entity: never a promoted precedent, a
\* confirmed entity, or an item stamped current.
EligibleRow(i) == /\ i \in Noisy /\ doc[i].state = "row"
                  /\ doc[i].life \notin {"archived", "current"}
EligibleNode(i) ==
    /\ i \notin Learned /\ Live(i) /\ ~Top(i).sure
    /\ \/ i \in Mints /\ Top(i).life \notin {"archived", "current"}
       \/ Top(i).life = "demoted"
Eligible(i) == EligibleRow(i) \/ EligibleNode(i)

ArchivedAlready(i) == i \notin Learned /\ doc[i].state # "none" /\ doc[i].life = "archived"

\* resolve_candidates: the criteria, the age and the cap select any part of
\* what is eligible.
Prune(c) ==
    \E picked \in SUBSET {i \in Items : Eligible(i)} :
        Enter(c, "prune", [Idle EXCEPT !.pc = "archive", !.todo = picked,
                                       !.rest = {i \in Items : ArchivedAlready(i)}])

\* _archive stamps whatever the item is by now.
Archive(c) ==
    /\ run[c].pc = "archive"
    /\ \E i \in run[c].todo :
         /\ IF i \in Noisy
            THEN PutRow(i, [doc[i] EXCEPT !.life = "archived"]) /\ UNCHANGED node
            ELSE /\ node' = IF Live(i) THEN Restamped(i, "archived") ELSE node
                 /\ UNCHANGED <<doc, vec>>
         /\ run' = [run EXCEPT ![c].todo = @ \ {i}]
    /\ UNCHANGED <<env, log, gone, ruled, down, spent>>

\* _resync_archived: rows archived earlier whose snapshot missed it.
Resync(c) ==
    /\ run[c].pc = "archive" /\ run[c].todo = {}
    /\ vec' = [i \in Items |-> IF i \in run[c].rest THEN Mirrored(i, "archived")[i] ELSE vec[i]]
    /\ Done(c)
    /\ UNCHANGED <<env, node, doc, log, gone, ruled, down, spent>>

\* _refuse_unrestorable_row.
RestorableBlank(i) == i \in Learned => Live(i)
Restorable(i) == doc[i].state = "row" /\ (i \in Learned => Live(i))

RestoreRow(c, i) ==
    /\ Admit(c, "restore")
    /\ doc[i].state # "none" /\ doc[i].life = "archived" /\ Restorable(i)
    /\ PutRow(i, Row("current", doc[i].copy))
    /\ UNCHANGED <<env, node, log, gone, ruled, down, run>>

\* _pre_archival_lifecycle: the stamp of the last version that is not
\* archived; without one the restore is refused.
AlwaysCurrent(i) == "current"
Unarchived(i) == {v \in 1..Len(node[i]) : node[i][v].life # "archived"}
PreArchival(i) == LET v == CHOOSE v \in Unarchived(i) : \A w \in Unarchived(i) : w <= v
                  IN IF node[i][v].life = "unset" THEN "current" ELSE node[i][v].life

RestoreNode(c, i) ==
    /\ Admit(c, "restore")
    /\ doc[i].state = "none" /\ Live(i) /\ Top(i).life = "archived"
    /\ i \in Precedents => Unarchived(i) # {}
    /\ LET life == IF i \in Precedents THEN PreArchival(i) ELSE "current" IN
       /\ node' = Restamped(i, life)
       /\ run' = [run EXCEPT ![c] = [Idle EXCEPT !.pc = "sync", !.op = "restore",
                                                 !.item = i, !.life = life]]
    /\ UNCHANGED <<env, doc, vec, log, gone, ruled, down>>

\* entity.update: a person confirms a minted entity; the stamp is kept.
Confirm(c, i) ==
    /\ Admit(c, "confirm")
    /\ Live(i) /\ ~Top(i).sure
    /\ node' = [node EXCEPT ![i] = Append(@, [Top(i) EXCEPT !.sure = TRUE])]
    /\ UNCHANGED <<env, doc, vec, log, gone, ruled, down, run>>

-----------------------------------------------------------------------------
(* redaction.apply: the target's vector and row, the precedents that copied *)
(* from it, the target's node, and then the event                           *)

Redact(c, i) ==
    /\ Live(i)
    /\ Enter(c, "redact", [Idle EXCEPT !.pc = "unvector", !.item = i])

\* Deleting a vector row raises when the store is out, and the command fails.
NoVector(c, i, pc) ==
    /\ vec' = IF down THEN vec ELSE [vec EXCEPT ![i] = NoRow]
    /\ IF down THEN Done(c) ELSE Goto(c, pc)

Unvector(c) ==
    /\ run[c].pc = "unvector"
    /\ NoVector(c, run[c].item, "blank")
    /\ UNCHANGED <<env, node, doc, log, gone, ruled, down, spent>>

\* _tombstone_document.
Blank(c) ==
    LET i == run[c].item IN
    /\ run[c].pc = "blank"
    /\ IF doc[i].state = "none" THEN UNCHANGED <<doc, vec>> /\ Goto(c, "scan")
       ELSE /\ NoVector(c, i, "scan")
            /\ doc' = IF down THEN doc ELSE [doc EXCEPT ![i] = Tombstone]
    /\ UNCHANGED <<env, node, log, gone, ruled, down, spent>>

\* _precedents_sourced_from reads every row before the first scrub.
Quoting(i) == IF i = Source THEN {p \in Precedents : Live(p)} ELSE {}
Scan(c) ==
    /\ run[c].pc = "scan"
    /\ run' = [run EXCEPT ![c].pc = "scrub",
                          ![c].todo = {[item |-> p, row |-> Top(p)] : p \in Quoting(run[c].item)},
                          ![c].rest = {run[c].item}]
    /\ UNCHANGED <<env, stores, down, spent>>

\* _scrub_precedent_excerpt, for a precedent some version of which holds a
\* copy: its row is rewritten in place.
HoldsCopyNow(p) == Live(p) /\ Top(p).copy
HoldsCopy(p) == \E v \in 1..Len(node[p]) : node[p][v].copy

Scrub(c) ==
    /\ run[c].pc = "scrub"
    /\ \E r \in run[c].todo :
         LET p == r.item
             left == run[c].todo \ {r}
         IN IF HoldsCopy(p) \/ (~Live(p) /\ r.row.copy)
            THEN /\ IF doc[p].state = "row" THEN PutRow(p, [doc[p] EXCEPT !.copy = FALSE])
                    ELSE UNCHANGED <<doc, vec>>
                 /\ run' = [run EXCEPT ![c].pc = "detach", ![c].todo = left,
                                       ![c].item = p, ![c].life = r.row.life]
            ELSE UNCHANGED <<doc, vec>> /\ run' = [run EXCEPT ![c].todo = left]
    /\ UNCHANGED <<env, node, log, gone, ruled, down, spent>>

Detach(c) ==
    /\ run[c].pc = "detach"
    /\ NoVector(c, run[c].item, "purge")
    /\ UNCHANGED <<env, node, doc, log, gone, ruled, down, spent>>

\* Every version goes; another purge may have been first.
Purge(c) ==
    LET p == run[c].item IN
    /\ run[c].pc = "purge"
    /\ node' = [node EXCEPT ![p] = <<>>]
    /\ Goto(c, IF Live(p) THEN "recreate" ELSE "scrub")
    /\ UNCHANGED <<env, doc, vec, log, gone, ruled, down, spent>>

\* upsert_node from the row the scan read, without the copy; a row that is
\* there is embedded again.
Unstamped(p, life) == Version("unset", FALSE, FALSE)
Scrubbed(p, life) == Version(life, FALSE, FALSE)

Recreate(c) ==
    LET p == run[c].item IN
    /\ run[c].pc = "recreate"
    /\ node' = [node EXCEPT ![p] = Append(@, Scrubbed(p, run[c].life))]
    /\ run' = [run EXCEPT ![c].pc = IF doc[p].state = "row" THEN "embed" ELSE "scrub",
                          ![c].life = doc[p].life, ![c].copy = FALSE]
    /\ UNCHANGED <<env, doc, vec, log, gone, ruled, down, spent>>

\* The target goes last; if another redaction took it, this one fails.
TargetOf(self) == CHOOSE i \in self.rest : TRUE
Drop(c) ==
    LET i == TargetOf(run[c]) IN
    /\ run[c].pc = "scrub" /\ run[c].todo = {}
    /\ node' = [node EXCEPT ![i] = <<>>]
    /\ IF Live(i) THEN Goto(c, "report") ELSE Done(c)
    /\ UNCHANGED <<env, doc, vec, log, gone, ruled, down, spent>>

Report(c) ==
    /\ run[c].pc = "report"
    /\ gone' = gone \cup {TargetOf(run[c])}
    /\ Done(c)
    /\ UNCHANGED <<env, node, doc, vec, log, ruled, down, spent>>

-----------------------------------------------------------------------------
\* The process dies between two writes, or a store raises there.
Die(c) ==
    /\ "death" \in env /\ run[c].pc # "idle"
    /\ Done(c) /\ Fault
    /\ UNCHANGED <<env, stores, down>>

\* The vector store goes out, and comes back.
Outage ==
    /\ "outage" \in env /\ ~down
    /\ down' = TRUE /\ Fault
    /\ UNCHANGED <<env, stores, run>>

Return == down /\ down' = FALSE /\ UNCHANGED <<env, stores, run, spent>>

Step(c) ==
    \/ Create(c) \/ Load(c) \/ Put(c) \/ Embed(c)
    \/ Stamp(c) \/ Mark(c) \/ Sync(c) \/ Announce(c) \/ Unmark(c) \/ Restamp(c)
    \/ Archive(c) \/ Resync(c)
    \/ Unvector(c) \/ Blank(c) \/ Scan(c) \/ Scrub(c) \/ Detach(c) \/ Purge(c)
    \/ Recreate(c) \/ Drop(c) \/ Report(c)

Command(c) ==
    \/ \E p \in Learned : Approve(c, p)
    \/ \E p \in Precedents : Demote(c, p) \/ Reinstate(c, p)
    \/ Prune(c)
    \/ \E i \in Items : RestoreRow(c, i) \/ RestoreNode(c, i)
    \/ \E i \in Mints : Confirm(c, i)
    \/ \E i \in Nodes : Redact(c, i)

Next == Outage \/ Return \/ \E c \in Callers : Step(c) \/ Command(c) \/ Die(c)

Spec == Init /\ [][Next]_vars

-----------------------------------------------------------------------------
(* Properties                                                               *)

RunState ==
    [pc : {"idle", "create", "load", "put", "embed", "announce", "stamp", "mark", "sync",
           "unmark", "restamp", "archive", "unvector", "blank", "scan", "scrub",
           "detach", "purge", "recreate", "report"},
     op : Events \cup {"none"}, item : Items, life : Stamps,
     copy : BOOLEAN, strict : BOOLEAN,
     todo : (SUBSET Items) \cup SUBSET [item : Precedents,
                row : [life : Stamps, copy : BOOLEAN, sure : BOOLEAN]],
     rest : SUBSET Items]

\* Every variable keeps its type.
TypeOK ==
    /\ env \in SUBSET Events
    /\ node \in [Items -> Seq([life : Stamps, copy : BOOLEAN, sure : BOOLEAN])]
    /\ doc \in [Items -> [state : {"none", "row", "tomb"}, life : Stamps, copy : BOOLEAN]]
    /\ vec \in [Items -> [state : {"none", "row"}, life : Stamps, copy : BOOLEAN]]
    /\ log \in [Precedents -> {"none", "promoted", "demoted", "reinstated"}]
    /\ gone \in SUBSET Items /\ ruled \in SUBSET Precedents /\ down \in BOOLEAN
    /\ run \in [Callers -> RunState]
    /\ spent \in [acts : 0..MaxActs, faults : 0..MaxFaults]

Turns == "overlap" \notin env
Calm == env \cap {"overlap", "death", "outage"} = {}
Quiet == \A c \in Callers : run[c].pc = "idle"

\* A demotion stands until a person reinstates: no approval, archival and
\* restore, or scrub brings a demoted precedent back as current.  Commands
\* may overlap where nothing is redacted; a redaction that overlaps, or dies
\* after its purge, loses the stamp with the node.
DemotionStands ==
    Calm \/ "redact" \notin env =>
        \A p \in ruled : Live(p) => State(p) # "current"

\* Keyword search never serves what the graph withholds, at any step of any
\* command, whoever dies: a precedent whose node is demoted has its document
\* row withheld too.
RowWithheldWithNode ==
    Turns => \A p \in Learned :
        Live(p) /\ State(p) = "demoted" /\ doc[p].state = "row" =>
            doc[p].life \in {"demoted", "archived"}

\* Between commands, if none overlapped and nothing failed, the node, the
\* document row and the vector snapshot of an item say the same, and so does
\* the event log: the last event of a precedent is a demotion exactly when one
\* stands against it.
PlanesAgree ==
    Calm /\ Quiet =>
        /\ \A i \in Items : doc[i].state = "row" =>
             /\ i \in Learned => Live(i) /\ State(i) = Reads(doc[i].life)
             /\ vec[i].state = "row" => Reads(vec[i].life) = Reads(doc[i].life)
        /\ \A p \in Precedents : Live(p) => (log[p] = "demoted" <=> p \in ruled)

\* A blank row a redaction left stays blank: no promotion, demotion, scrub,
\* prune or restore writes over it, whatever overlaps or dies.
TombstoneStands ==
    [][\A i \in Items : doc[i].state = "tomb" => doc'[i].state = "tomb"]_vars

\* Once the source's node is purged, no row, no vector and no version of any
\* precedent holds a copy of its text, although redactions died or failed on
\* the way and were run again.
NoTextAfterPurge ==
    Turns /\ ~Live(Source) =>
        /\ doc[Source].state # "row" /\ vec[Source].state = "none"
        /\ \A p \in Precedents :
             /\ \A v \in 1..Len(node[p]) : ~node[p][v].copy
             /\ doc[p].state = "row" => ~doc[p].copy
             /\ vec[p].state = "row" => ~vec[p].copy
=============================================================================
