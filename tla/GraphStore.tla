----------------------------- MODULE GraphStore -----------------------------
(***************************************************************************)
(* The SQLite graph store (stores/sqlite/graph.py) and the handlers that   *)
(* write it: slowly-changing rows of nodes, edges and aliases, each with   *)
(* valid_from and valid_to, where a row with valid_to NULL is current.     *)
(*                                                                         *)
(* A caller's operation is several steps because the code is: it reads the *)
(* clock, reads rows and only then takes the write lock.  A transaction    *)
(* holds SQLite's write lock from its first write to its commit, so the    *)
(* statements of one `with conn` block are one step.  Writers are threads  *)
(* or processes of equal standing; `proc` holds the local variables of the *)
(* operation each has under way.                                           *)
(*                                                                         *)
(* A property bag is abstracted to the entity's name, which is what alias  *)
(* binding reads; names stand for their normalised keys.  One edge type.   *)
(***************************************************************************)
EXTENDS Naturals, FiniteSets

CONSTANTS
    Procs,      \* writers
    NodeIds,    \* node ids
    Names,      \* normalised entity names; also the raw ids of name aliases
    Roles,      \* node roles
    Ops,        \* operations the clients of this instance issue
    Attempts,   \* _REWRITE_ATTEMPTS
    MaxClock,   \* bound on the clock, in microseconds, and on generated ids
    Distinct,   \* TRUE when no two writers read the clock in one microsecond
    NULL        \* SQL NULL and Python None

AllOps == {"rewrite", "replace", "upsert", "delete", "link", "dangle",
           "unlink", "alias", "bind", "compact"}

VARIABLES
    nodes,      \* rows of table nodes
    edges,      \* rows of table edges
    aliases,    \* rows of table entity_aliases
    clock,      \* the latest time any writer has read
    ulids,      \* edge and alias ids generated so far
    proc        \* the operation each writer has under way

tables == <<nodes, edges, aliases>>
vars == <<nodes, edges, aliases, clock, ulids, proc>>

Time == 1..MaxClock
Stamp == Time \cup {NULL}

NodeRow == [id : NodeIds, name : Names, role : Roles,
            created : Time, from : Time, to : Stamp]
EdgeRow == [id : Nat, src : NodeIds, dst : NodeIds,
            created : Time, from : Time, to : Stamp]
AliasRow == [id : Nat, entity : NodeIds, key : Names,
             created : Time, from : Time, to : Stamp]

\* The arguments of each operation.  A rewrite's NULL name is an update that
\* does not name the entity; a bind's stale is its stale_owner_name_key.
RewriteArgs == [id : NodeIds, name : Names \cup {NULL}]
ReplaceArgs == [id : NodeIds, name : Names, role : Roles, ifAbsent : BOOLEAN]
UpsertArgs == [id : NodeIds, name : Names, role : Roles]
LinkArgs == [src : NodeIds, dst : NodeIds]
AliasArgs == [id : NodeIds, key : Names]
BindArgs == [id : NodeIds, key : Names, stale : Names \cup {NULL}]

ASSUME GraphConstants ==
    /\ Ops \subseteq AllOps
    /\ Attempts \in Nat \ {0}
    /\ MaxClock \in Nat \ {0}
    /\ Distinct \in BOOLEAN
    /\ NULL \notin Nat \cup NodeIds \cup Names \cup Roles
    /\ NULL \notin NodeRow \cup AliasRow

\* A writer's locals: the row it has read, the time it has read, and the
\* attempts it has lost.
Local == [op : AllOps \cup {"none"},
          pc : {"idle", "require", "read", "target", "twins", "stamp", "commit"},
          arg : UNION {RewriteArgs, ReplaceArgs, UpsertArgs,
                       LinkArgs, AliasArgs, BindArgs, {NULL}},
          seen : NodeRow \cup AliasRow \cup {NULL},
          now : Stamp,
          tries : 0..(Attempts - 1)]

Start(op, pc, arg) == [op |-> op, pc |-> pc, arg |-> arg,
                       seen |-> NULL, now |-> NULL, tries |-> 0]

Idle == Start("none", "idle", NULL)

-----------------------------------------------------------------------------
(* Reads: _temporal_filter with and without as_of.                         *)

Current(rows) == {r \in rows : r.to = NULL}

ValidAt(rows, t) ==
    {r \in rows : r.from <= t /\ (r.to = NULL \/ r.to > t)}

NodeVersions(n) == {r \in nodes : r.id = n}

CurrentNode(n) == Current(NodeVersions(n))

CurrentAlias(k) == Current({r \in aliases : r.key = k})

CurrentEdge(s, d) == Current({r \in edges : r.src = s /\ r.dst = d})

\* get_node and resolve_alias: fetchone() of the matching rows, None if none.
Fetch(rows) == IF rows = {} THEN {NULL} ELSE rows

\* UPDATE ... SET valid_to = t over the given rows.
Closed(rows, t) == {[r EXCEPT !.to = t] : r \in rows}

Replacing(all, old, t, new) == ((all \ old) \cup Closed(old, t)) \cup {new}

-----------------------------------------------------------------------------
Init ==
    /\ nodes = {}
    /\ edges = {}
    /\ aliases = {}
    /\ clock = 1
    /\ ulids = 0
    /\ proc = [p \in Procs |-> Idle]

Goto(p, l) == proc' = [proc EXCEPT ![p] = l]

\* The operation returns, or raises: its locals are gone.
Finish(p) == Goto(p, Idle)

At(p, op, pc) == proc[p].op = op /\ proc[p].pc = pc

\* generate_ulid()
NewId == ulids < MaxClock /\ ulids' = ulids + 1

Begin(p, l) ==
    /\ l.op \in Ops
    /\ proc[p] = Idle
    /\ Goto(p, l)
    /\ UNCHANGED <<tables, clock, ulids>>

\* _rewrite_current_node
BeginRewrite(p) == \E a \in RewriteArgs : Begin(p, Start("rewrite", "read", a))

\* _write_node_replacing_read under entity.create
BeginReplace(p) == \E a \in ReplaceArgs : Begin(p, Start("replace", "read", a))

\* upsert_node, which reads the clock before anything else.
BeginUpsert(p) == \E a \in UpsertArgs : Begin(p, Start("upsert", "stamp", a))

\* LinkCreateHandler.handle; a client that may pass allow_dangling skips the
\* endpoint reads.
BeginLink(p) == \E a \in LinkArgs :
    \/ Begin(p, Start("link", "read", a))
    \/ "dangle" \in Ops /\ Begin(p, Start("link", "stamp", a))

\* AliasUpsertHandler.handle, with and without require_entity.
BeginAlias(p) == \E a \in AliasArgs, pc \in {"require", "stamp"} :
    Begin(p, Start("alias", pc, a))

\* The same handler with if_absent and an optional stale_owner_name_key.
BeginBind(p) == \E a \in BindArgs, pc \in {"require", "stamp"} :
    Begin(p, Start("bind", pc, a))

-----------------------------------------------------------------------------
(* Steps before the transaction.                                           *)

\* build declines: entity.update's and entity.create's own refusals.
Declines(p) == Finish(p)

ReadForRewrite(p) ==
    /\ At(p, "rewrite", "read")
    /\ \E row \in Fetch(CurrentNode(proc[p].arg.id)) :
         \/ Declines(p)
         \/ /\ row # NULL
            /\ Goto(p, [proc[p] EXCEPT !.seen = row, !.pc = "stamp"])
    /\ UNCHANGED <<tables, clock, ulids>>

LeftAlone(p, row) == proc[p].arg.ifAbsent /\ row # NULL

ReadForReplace(p) ==
    /\ At(p, "replace", "read")
    /\ \E row \in Fetch(CurrentNode(proc[p].arg.id)) :
         \/ Declines(p)
         \/ /\ ~LeftAlone(p, row)
            /\ Goto(p, [proc[p] EXCEPT !.seen = row, !.pc = "stamp"])
    /\ UNCHANGED <<tables, clock, ulids>>

\* check_node_role_immutable runs on this read, outside the transaction.
ReadForUpsert(p) ==
    /\ At(p, "upsert", "read")
    /\ \E row \in Fetch(CurrentNode(proc[p].arg.id)) :
         IF row # NULL /\ row.role # proc[p].arg.role
         THEN Finish(p)
         ELSE Goto(p, [proc[p] EXCEPT !.seen = row, !.pc = "commit"])
    /\ UNCHANGED <<tables, clock, ulids>>

\* _resolve_endpoints: two separate reads.
ResolveSource(p) ==
    /\ At(p, "link", "read")
    /\ IF CurrentNode(proc[p].arg.src) = {}
       THEN Finish(p)
       ELSE Goto(p, [proc[p] EXCEPT !.pc = "target"])
    /\ UNCHANGED <<tables, clock, ulids>>

ResolveTarget(p) ==
    /\ At(p, "link", "target")
    /\ IF CurrentNode(proc[p].arg.dst) = {}
       THEN Finish(p)
       ELSE Goto(p, [proc[p] EXCEPT !.pc = "stamp"])
    /\ UNCHANGED <<tables, clock, ulids>>

RequireEntity(p) ==
    /\ At(p, "alias", "require") \/ At(p, "bind", "require")
    /\ IF CurrentNode(proc[p].arg.id) = {}
       THEN Finish(p)
       ELSE Goto(p, [proc[p] EXCEPT !.pc = "stamp"])
    /\ UNCHANGED <<tables, clock, ulids>>

\* upsert_alias resolves the current binding after it has read the clock.
ReadForAlias(p) ==
    /\ At(p, "alias", "read")
    /\ \E row \in Fetch(CurrentAlias(proc[p].arg.key)) :
         Goto(p, [proc[p] EXCEPT !.seen = row, !.pc = "commit"])
    /\ UNCHANGED <<tables, clock, ulids>>

\* _bind_entity_name_alias leaves a name that another entity bears alone.
CheckTwins(p) ==
    /\ At(p, "bind", "twins")
    /\ IF \E r \in Current(nodes) :
            r.name = proc[p].arg.key /\ r.id # proc[p].arg.id
       THEN Finish(p)
       ELSE Goto(p, [proc[p] EXCEPT !.pc = "stamp"])
    /\ UNCHANGED <<tables, clock, ulids>>

\* utc_now(): later than every earlier reading, or equal to the latest when
\* two readings may share a microsecond.
ReadClock(p) ==
    /\ proc[p].pc = "stamp"
    /\ \E t \in Time :
         /\ t = clock + 1 \/ (~Distinct /\ t = clock)
         /\ clock' = t
         /\ Goto(p, [proc[p] EXCEPT
                       !.now = t,
                       !.pc = IF proc[p].op \in {"upsert", "alias"}
                              THEN "read" ELSE "commit"])
    /\ UNCHANGED <<tables, ulids>>

-----------------------------------------------------------------------------
(* Transactions.                                                           *)

\* After entity.create or an entity.update that names the entity, the same
\* command goes on to bind the name alias.
ThenBindName(p) ==
    LET a == proc[p].arg IN
    IF a.name = NULL THEN Finish(p)
    ELSE Goto(p, Start("bind", "twins",
                       [id |-> a.id, key |-> a.name, stale |-> a.name]))

ReadAgain(p) ==
    Goto(p, [Start(proc[p].op, "read", proc[p].arg)
               EXCEPT !.tries = proc[p].tries + 1])

\* The conditional write found another version: read again, or StoreError.
LoseAttempt(p) ==
    /\ IF proc[p].tries + 1 < Attempts
       THEN ReadAgain(p)
       ELSE Finish(p)
    /\ UNCHANGED nodes

\* What a rewrite does not name carries forward from the row it saw.
NewName(l) == IF l.arg.name = NULL THEN l.seen.name ELSE l.arg.name
NewRole(l) == IF l.op = "rewrite" THEN l.seen.role ELSE l.arg.role

\* valid_from takes created_at, as though it were carried forward too.
NodeWriteBackdated(l, created) ==
    [id |-> l.arg.id, name |-> NewName(l), role |-> NewRole(l),
     created |-> created, from |-> created, to |-> NULL]

\* The row a writer inserts.
NodeWrite(l, created) ==
    [id |-> l.arg.id, name |-> NewName(l), role |-> NewRole(l),
     created |-> created, from |-> l.now, to |-> NULL]

\* The write is conditional on the node existing, not on its version.
AnyVersionMatches(l) == CurrentNode(l.arg.id)

\* WHERE node_id = ? AND valid_to IS NULL AND valid_from = ?
TokenMatches(l) == {r \in CurrentNode(l.arg.id) : r.from = l.seen.from}

RoleUnchecked(old, new) == TRUE

\* check_node_role_immutable, against the version the write would replace.
RoleKept(old, new) == new.role = old.role

\* update_node_if_current
UpdateIfCurrent(p) ==
    /\ At(p, "rewrite", "commit") \/ At(p, "replace", "commit")
    /\ proc[p].seen # NULL
    /\ \/ /\ TokenMatches(proc[p]) = {}
          /\ LoseAttempt(p)
       \/ \E old \in TokenMatches(proc[p]) :
            LET new == NodeWrite(proc[p], old.created) IN
            IF RoleKept(old, new)
            THEN /\ nodes' = Replacing(nodes, {old}, proc[p].now, new)
                 /\ ThenBindName(p)
            ELSE Finish(p) /\ UNCHANGED nodes
    /\ UNCHANGED <<edges, aliases, clock, ulids>>

\* create_node_if_absent
CreateIfAbsent(p) ==
    /\ At(p, "replace", "commit")
    /\ proc[p].seen = NULL
    /\ IF CurrentNode(proc[p].arg.id) # {}
       THEN LoseAttempt(p)
       ELSE /\ nodes' = nodes \cup {NodeWrite(proc[p], proc[p].now)}
            /\ ThenBindName(p)
    /\ UNCHANGED <<edges, aliases, clock, ulids>>

\* upsert_node's transaction.  With no row seen the INSERT meets the unique
\* index when another writer has created the node meanwhile, and raises.
UpsertNode(p) ==
    /\ At(p, "upsert", "commit")
    /\ LET l == proc[p]
           cur == CurrentNode(l.arg.id) IN
       nodes' = IF l.seen = NULL
                THEN IF cur = {} THEN nodes \cup {NodeWrite(l, l.now)} ELSE nodes
                ELSE Replacing(nodes, cur, l.now, NodeWrite(l, l.seen.created))
    /\ Finish(p)
    /\ UNCHANGED <<edges, aliases, clock, ulids>>

\* delete_node: every version of the node, of its edges and of its aliases.
DeleteNode(n) ==
    /\ "delete" \in Ops
    /\ nodes' = {r \in nodes : r.id # n}
    /\ edges' = {r \in edges : r.src # n /\ r.dst # n}
    /\ aliases' = {r \in aliases : r.entity # n}
    /\ UNCHANGED <<clock, ulids, proc>>

\* created_at starts over with every upsert.
EdgeWriteReset(l, i, created) ==
    [id |-> i, src |-> l.arg.src, dst |-> l.arg.dst,
     created |-> l.now, from |-> l.now, to |-> NULL]

EdgeWrite(l, i, created) ==
    [id |-> i, src |-> l.arg.src, dst |-> l.arg.dst,
     created |-> created, from |-> l.now, to |-> NULL]

\* upsert_edge: the current row is read under the write lock.
UpsertEdge(p) ==
    /\ At(p, "link", "commit")
    /\ LET l == proc[p]
           old == CurrentEdge(l.arg.src, l.arg.dst) IN
       \/ /\ old = {}
          /\ NewId
          /\ edges' = edges \cup {EdgeWrite(l, ulids', l.now)}
       \/ \E r \in old :
            /\ edges' = Replacing(edges, {e \in Current(edges) : e.id = r.id},
                                  l.now, EdgeWrite(l, r.id, r.created))
            /\ UNCHANGED ulids
    /\ Finish(p)
    /\ UNCHANGED <<nodes, aliases, clock>>

\* delete_edge
DeleteEdge(e) ==
    /\ "unlink" \in Ops
    /\ edges' = {r \in edges : r.id # e}
    /\ UNCHANGED <<nodes, aliases, clock, ulids, proc>>

AliasWrite(l, i, created) ==
    [id |-> i, entity |-> l.arg.id, key |-> l.arg.key,
     created |-> created, from |-> l.now, to |-> NULL]

\* upsert_alias's transaction.  It closes by the alias id it resolved before
\* the lock; idx_aliases_current rejects a second current row for the key.
UpsertAlias(p) ==
    /\ At(p, "alias", "commit")
    /\ LET l == proc[p]
           old == IF l.seen = NULL THEN {}
                  ELSE {r \in Current(aliases) : r.id = l.seen.id} IN
       IF CurrentAlias(l.arg.key) \ old # {}
       THEN UNCHANGED <<aliases, ulids>>
       ELSE /\ IF l.seen = NULL THEN NewId ELSE UNCHANGED ulids
            /\ aliases' =
                 Replacing(aliases, old, l.now,
                           IF l.seen = NULL
                           THEN AliasWrite(l, ulids', l.now)
                           ELSE AliasWrite(l, l.seen.id, l.seen.created))
    /\ Finish(p)
    /\ UNCHANGED <<nodes, edges, clock>>

\* The owner's current node no longer bears the name the alias was bound for.
StaleOwner(entity, key) == \A r \in CurrentNode(entity) : r.name # key

\* bind_alias_if_absent: BOUND, REBOUND, or ALREADY_BOUND and CONFLICT, which
\* write nothing.
BindAlias(p) ==
    /\ At(p, "bind", "commit")
    /\ LET l == proc[p]
           cur == CurrentAlias(l.arg.key) IN
       \/ /\ cur = {}
          /\ NewId
          /\ aliases' = aliases \cup {AliasWrite(l, ulids', l.now)}
       \/ \E r \in cur :
            /\ IF /\ r.entity # l.arg.id
                  /\ l.arg.stale # NULL
                  /\ StaleOwner(r.entity, l.arg.stale)
               THEN aliases' = Replacing(aliases, {r}, l.now,
                                         AliasWrite(l, r.id, r.created))
               ELSE UNCHANGED aliases
            /\ UNCHANGED ulids
    /\ Finish(p)
    /\ UNCHANGED <<nodes, edges, clock>>

\* compact_versions(before): closed rows of the three tables, in one step.
\* The cutoff is compared with the column the row began at.
ExpiredByStart(rows, before) == {r \in rows : r.to # NULL /\ r.from < before}

Expired(rows, before) == {r \in rows : r.to # NULL /\ r.to < before}

CompactVersions(before) ==
    /\ "compact" \in Ops
    /\ nodes' = nodes \ Expired(nodes, before)
    /\ edges' = edges \ Expired(edges, before)
    /\ aliases' = aliases \ Expired(aliases, before)
    /\ UNCHANGED <<clock, ulids, proc>>

-----------------------------------------------------------------------------
ProcStep(p) ==
    \/ BeginRewrite(p) \/ BeginReplace(p) \/ BeginUpsert(p)
    \/ BeginLink(p) \/ BeginAlias(p) \/ BeginBind(p)
    \/ ReadForRewrite(p) \/ ReadForReplace(p) \/ ReadForUpsert(p)
    \/ ResolveSource(p) \/ ResolveTarget(p)
    \/ RequireEntity(p) \/ ReadForAlias(p) \/ CheckTwins(p)
    \/ ReadClock(p)
    \/ UpdateIfCurrent(p) \/ CreateIfAbsent(p) \/ UpsertNode(p)
    \/ UpsertEdge(p) \/ UpsertAlias(p) \/ BindAlias(p)

Next ==
    \/ \E p \in Procs : ProcStep(p)
    \/ \E n \in NodeIds : DeleteNode(n)
    \/ \E r \in edges : DeleteEdge(r.id)
    \/ \E t \in Time : CompactVersions(t)

Spec == Init /\ [][Next]_vars

-----------------------------------------------------------------------------
(* Properties.                                                             *)

TypeOK ==
    /\ nodes \subseteq NodeRow
    /\ edges \subseteq EdgeRow
    /\ aliases \subseteq AliasRow
    /\ clock \in Time
    /\ ulids \in Nat
    /\ proc \in [Procs -> Local]

\* Every version of a node has the node_role and the created_at of the
\* others: a purge takes all versions, so a re-created node starts over and
\* no writer carries a purged node's fields into it.
VersionsAgree ==
    \A r, s \in nodes : r.id = s.id => r.role = s.role /\ r.created = s.created

\* An edge triple and an alias key each have at most one current row.  No
\* index guards the triple: upsert_edge keeps it single by reading the current
\* row only once it holds the write lock.  Every version of one edge id joins
\* the same two nodes and every version of one alias id has the same key, with
\* one created_at: an alias writer that resolved its row before a purge does
\* not graft its id elsewhere.
LinksAgree ==
    /\ \A r, s \in Current(edges) :
         r.id = s.id \/ (r.src = s.src /\ r.dst = s.dst) => r = s
    /\ \A r, s \in Current(aliases) : r.key = s.key => r = s
    /\ \A r, s \in edges : r.id = s.id =>
         r.src = s.src /\ r.dst = s.dst /\ r.created = s.created
    /\ \A r, s \in aliases : r.id = s.id =>
         r.key = s.key /\ r.created = s.created

\* From a node's oldest retained version to now, an as_of read finds exactly
\* one version at every instant: no gap where the node seems not to exist,
\* no overlap where get_node returns either of two.
TimelineExact ==
    \A r \in nodes : \A t \in Time :
        r.from <= t => Cardinality(ValidAt(NodeVersions(r.id), t)) = 1

WritesNode(p) ==
    /\ At(p, "rewrite", "commit") \/ At(p, "replace", "commit")
    /\ proc'[p] # proc[p]
    /\ nodes' # nodes

\* A conditional writer changes a node only over the very version its checks
\* ran on, content included: never over a write that came in between, never
\* over a node purged and created again, and it creates only what it saw
\* absent.
WriteReplacesRead ==
    [][\A p \in Procs : WritesNode(p) =>
         CurrentNode(proc[p].arg.id) = {proc[p].seen} \ {NULL}]_vars

\* Compaction to a cutoff changes no as_of read at or after the cutoff.
CompactionKeepsReads ==
    [][\A before \in Time : CompactVersions(before) =>
         \A t \in before..MaxClock :
           /\ ValidAt(nodes, t) = ValidAt(nodes', t)
           /\ ValidAt(edges, t) = ValidAt(edges', t)
           /\ ValidAt(aliases, t) = ValidAt(aliases', t)]_vars

=============================================================================
