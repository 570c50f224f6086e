-------------------------- MODULE GraphStoreProofs --------------------------
(***************************************************************************)
(* Proofs about GraphStore, for every set of writers, nodes, names and     *)
(* roles, every number of attempts and every bound on the clock.           *)
(***************************************************************************)
EXTENDS GraphRefinement, FiniteSetTheorems, WellFoundedInduction, TLAPS

\* What a writer's locals hold at each point of its operation.
WellFormed(l) ==
    /\ l \in Local
    /\ l.op = "rewrite" =>
         /\ l.arg \in RewriteArgs
         /\ l.pc \in {"stamp", "commit"} => l.seen # NULL
    /\ l.op = "replace" => l.arg \in ReplaceArgs
    /\ l.op = "upsert" => l.arg \in UpsertArgs
    /\ l.op = "link" => l.arg \in LinkArgs
    /\ l.op = "alias" => l.arg \in AliasArgs /\ l.seen \in AliasRow \cup {NULL}
    /\ l.op = "bind" => l.arg \in BindArgs
    /\ l.op \in {"rewrite", "replace", "upsert"} /\ l.seen # NULL =>
         l.seen \in NodeRow /\ l.seen.id = l.arg.id
    /\ l.pc = "commit" => l.now \in Time
    /\ l.op \in {"upsert", "alias"} /\ l.pc = "read" => l.now \in Time

TypeInv ==
    /\ nodes \subseteq NodeRow
    /\ edges \subseteq EdgeRow
    /\ aliases \subseteq AliasRow
    /\ clock \in Time
    /\ ulids \in Nat
    /\ proc \in [Procs -> Local]
    /\ \A p \in Procs : WellFormed(proc[p])

\* A step that moves one writer on, with well-formed locals, keeps every
\* writer well formed.
LEMMA GotoKeepsLocals ==
    ASSUME NEW p \in Procs, NEW l, WellFormed(l), Goto(p, l), TypeInv
    PROVE  /\ proc' \in [Procs -> Local]
           /\ proc' = [proc EXCEPT ![p] = l]
           /\ proc'[p] = l
           /\ \A q \in Procs : WellFormed(proc'[q])
BY DEF Goto, WellFormed, TypeInv

LEMMA StartWellFormed ==
    /\ WellFormed(Idle)
    /\ \A a \in RewriteArgs : WellFormed(Start("rewrite", "read", a))
    /\ \A a \in ReplaceArgs : WellFormed(Start("replace", "read", a))
    /\ \A a \in UpsertArgs : WellFormed(Start("upsert", "stamp", a))
    /\ \A a \in LinkArgs : /\ WellFormed(Start("link", "read", a))
                           /\ WellFormed(Start("link", "stamp", a))
    /\ \A a \in AliasArgs, pc \in {"require", "stamp"} :
         WellFormed(Start("alias", pc, a))
    /\ \A a \in BindArgs, pc \in {"require", "stamp", "twins"} :
         WellFormed(Start("bind", pc, a))
<1> USE GraphConstants DEF WellFormed, Start, Local, AllOps, Stamp
<1>1. WellFormed(Idle)
  BY DEF Idle
<1>2. \A a \in RewriteArgs : WellFormed(Start("rewrite", "read", a))
  OBVIOUS
<1>3. \A a \in ReplaceArgs : WellFormed(Start("replace", "read", a))
  OBVIOUS
<1>4. \A a \in UpsertArgs : WellFormed(Start("upsert", "stamp", a))
  OBVIOUS
<1>5. \A a \in LinkArgs : /\ WellFormed(Start("link", "read", a))
                          /\ WellFormed(Start("link", "stamp", a))
  OBVIOUS
<1>6. \A a \in AliasArgs, pc \in {"require", "stamp"} :
        WellFormed(Start("alias", pc, a))
  OBVIOUS
<1>7. \A a \in BindArgs, pc \in {"require", "stamp", "twins"} :
        WellFormed(Start("bind", pc, a))
  OBVIOUS
<1> QED
  <2> HIDE DEF WellFormed, Start
  <2> QED BY <1>1, <1>2, <1>3, <1>4, <1>5, <1>6, <1>7

LEMMA ReplacingRows ==
    /\ \A all, old \in SUBSET NodeRow, t \in Time, new \in NodeRow :
         Replacing(all, old, t, new) \subseteq NodeRow
    /\ \A all, old \in SUBSET EdgeRow, t \in Time, new \in EdgeRow :
         Replacing(all, old, t, new) \subseteq EdgeRow
    /\ \A all, old \in SUBSET AliasRow, t \in Time, new \in AliasRow :
         Replacing(all, old, t, new) \subseteq AliasRow
BY DEF Replacing, Closed, NodeRow, EdgeRow, AliasRow, Stamp

\* What fetchone() returns.
LEMMA FetchedNode ==
    ASSUME NEW n, NEW row \in Fetch(CurrentNode(n))
    PROVE  row = NULL \/ (row \in nodes /\ row.id = n /\ row.to = NULL)
BY DEF Fetch, CurrentNode, Current, NodeVersions

LEMMA FetchedAlias ==
    ASSUME NEW k, NEW row \in Fetch(CurrentAlias(k))
    PROVE  row = NULL \/ (row \in aliases /\ row.key = k /\ row.to = NULL)
BY DEF Fetch, CurrentAlias, Current

\* A row written from well-formed locals is a row.
LEMMA NodeWriteRow ==
    ASSUME NEW l, WellFormed(l), l.pc = "commit",
           l.op \in {"rewrite", "replace", "upsert"}, NEW c \in Time
    PROVE  /\ NodeWrite(l, c) \in NodeRow
           /\ NodeWrite(l, c).id = l.arg.id
           /\ NodeWrite(l, c).to = NULL
           /\ NodeWrite(l, c).from = l.now
           /\ NodeWrite(l, c).created = c
           /\ NodeWrite(l, c).role = NewRole(l)
           /\ NodeWrite(l, c).name = NewName(l)
<1>1. NewName(l) \in Names /\ NewRole(l) \in Roles /\ l.arg.id \in NodeIds
  BY GraphConstants DEF WellFormed, NewName, NewRole, NodeRow, RewriteArgs,
                        ReplaceArgs, UpsertArgs
<1> QED
  BY <1>1 DEF NodeWrite, NodeRow, Stamp, WellFormed

-----------------------------------------------------------------------------
(* Type correctness.                                                       *)

LEMMA TypeInit == Init => TypeInv
BY GraphConstants, StartWellFormed DEF Init, TypeInv, Time, WellFormed

\* The steps that change no row.
LEMMA TypeBegin ==
    ASSUME TypeInv, NEW p \in Procs,
           \/ BeginRewrite(p) \/ BeginReplace(p) \/ BeginUpsert(p)
           \/ BeginLink(p) \/ BeginAlias(p) \/ BeginBind(p)
    PROVE  TypeInv'
<1>1. PICK l : WellFormed(l) /\ Begin(p, l)
  BY StartWellFormed DEF BeginRewrite, BeginReplace, BeginUpsert, BeginLink,
                         BeginAlias, BeginBind
<1> QED
  BY <1>1, GotoKeepsLocals DEF Begin, tables, TypeInv

LEMMA TypeRead ==
    ASSUME TypeInv, NEW p \in Procs,
           \/ ReadForRewrite(p) \/ ReadForReplace(p) \/ ReadForUpsert(p)
           \/ ResolveSource(p) \/ ResolveTarget(p) \/ RequireEntity(p)
           \/ ReadForAlias(p) \/ CheckTwins(p)
    PROVE  TypeInv'
<1> DEFINE l == proc[p]
<1>0. WellFormed(l) /\ nodes \subseteq NodeRow /\ aliases \subseteq AliasRow
  BY DEF TypeInv
<1>1. ASSUME NEW k, WellFormed(k), Goto(p, k), UNCHANGED <<tables, clock, ulids>>
      PROVE  TypeInv'
  BY <1>1, GotoKeepsLocals DEF TypeInv, tables
<1>2. WellFormed(Idle)
  BY StartWellFormed
<1>3. ASSUME NEW row \in Fetch(CurrentNode(l.arg.id)),
             NEW pc \in {"stamp", "commit"},
             \/ l.op = "rewrite" /\ row # NULL /\ pc = "stamp"
             \/ l.op = "replace" /\ pc = "stamp"
             \/ l.op = "upsert" /\ l.pc = "read"
      PROVE  WellFormed([l EXCEPT !.seen = row, !.pc = pc])
  BY <1>0, <1>3, FetchedNode, GraphConstants DEF WellFormed, Local
<1>4. ASSUME NEW pc \in {"stamp", "target"}, l.op \in {"link", "alias", "bind"}
      PROVE  WellFormed([l EXCEPT !.pc = pc])
  BY <1>0, <1>4 DEF WellFormed, Local
<1>5. CASE ReadForRewrite(p)
  BY <1>1, <1>2, <1>3, <1>5 DEF ReadForRewrite, Declines, Finish, At
<1>6. CASE ReadForReplace(p)
  BY <1>1, <1>2, <1>3, <1>6 DEF ReadForReplace, Declines, Finish, At
<1>7. CASE ReadForUpsert(p)
  BY <1>1, <1>2, <1>3, <1>7 DEF ReadForUpsert, Finish, At
<1>8. CASE ResolveSource(p) \/ ResolveTarget(p) \/ RequireEntity(p) \/ CheckTwins(p)
  BY <1>1, <1>2, <1>4, <1>8 DEF ResolveSource, ResolveTarget, RequireEntity,
                                CheckTwins, Finish, At
<1>9. CASE ReadForAlias(p)
  <2>1. PICK row \in Fetch(CurrentAlias(l.arg.key)) :
               Goto(p, [l EXCEPT !.seen = row, !.pc = "commit"])
    BY <1>9 DEF ReadForAlias
  <2>2. WellFormed([l EXCEPT !.seen = row, !.pc = "commit"])
    BY <1>0, <1>9, <2>1, FetchedAlias, GraphConstants
       DEF WellFormed, Local, ReadForAlias, At
  <2> QED
    BY <1>1, <1>9, <2>1, <2>2 DEF ReadForAlias
<1> QED
  BY <1>5, <1>6, <1>7, <1>8, <1>9

LEMMA TypeReadClock ==
    ASSUME TypeInv, NEW p \in Procs, ReadClock(p)
    PROVE  TypeInv'
<1> DEFINE l == proc[p]
<1>1. PICK t \in Time :
        /\ clock' = t
        /\ Goto(p, [l EXCEPT !.now = t,
                             !.pc = IF l.op \in {"upsert", "alias"}
                                    THEN "read" ELSE "commit"])
  BY DEF ReadClock
<1>2. WellFormed([l EXCEPT !.now = t,
                           !.pc = IF l.op \in {"upsert", "alias"}
                                  THEN "read" ELSE "commit"])
  BY GraphConstants DEF TypeInv, WellFormed, Local, ReadClock, Stamp
<1> QED
  BY <1>1, <1>2, GotoKeepsLocals DEF TypeInv, ReadClock, tables

-----------------------------------------------------------------------------
\* Where a conditional writer goes after its transaction.
LEMMA TypeLose ==
    ASSUME TypeInv, NEW p \in Procs, proc[p].op \in {"rewrite", "replace"},
           LoseAttempt(p)
    PROVE  \E k : WellFormed(k) /\ Goto(p, k)
<1> DEFINE l == proc[p]
           k == [Start(l.op, "read", l.arg) EXCEPT !.tries = l.tries + 1]
<1>1. CASE l.tries + 1 < Attempts
  <2>1. WellFormed(Start(l.op, "read", l.arg))
    BY StartWellFormed DEF TypeInv, WellFormed
  <2>2. l.tries + 1 \in 0..(Attempts - 1)
    BY <1>1, GraphConstants DEF TypeInv, WellFormed, Local
  <2>3. WellFormed(k)
    BY <2>1, <2>2 DEF WellFormed, Local, Start
  <2> QED
    BY <1>1, <2>3 DEF LoseAttempt, ReadAgain
<1>2. CASE ~(l.tries + 1 < Attempts)
  BY <1>2, StartWellFormed DEF LoseAttempt, Finish
<1> QED
  BY <1>1, <1>2

LEMMA TypeThenBind ==
    ASSUME TypeInv, NEW p \in Procs, proc[p].op \in {"rewrite", "replace"},
           ThenBindName(p)
    PROVE  \E k : WellFormed(k) /\ Goto(p, k)
<1> DEFINE a == proc[p].arg
<1>1. a \in RewriteArgs \cup ReplaceArgs
  BY DEF TypeInv, WellFormed
<1>2. CASE a.name = NULL
  BY <1>2, StartWellFormed DEF ThenBindName, Finish
<1>3. CASE a.name # NULL
  <2>1. [id |-> a.id, key |-> a.name, stale |-> a.name] \in BindArgs
    BY <1>1, <1>3 DEF RewriteArgs, ReplaceArgs, BindArgs
  <2> QED
    BY <1>3, <2>1, StartWellFormed DEF ThenBindName
<1> QED
  BY <1>2, <1>3

LEMMA TypeUpdate ==
    ASSUME TypeInv, NEW p \in Procs, UpdateIfCurrent(p)
    PROVE  TypeInv'
<1> DEFINE l == proc[p]
<1>0. /\ WellFormed(l) /\ l.pc = "commit" /\ l.op \in {"rewrite", "replace"}
      /\ UNCHANGED <<edges, aliases, clock, ulids>>
  BY DEF TypeInv, UpdateIfCurrent, At
<1>1. (\E k : WellFormed(k) /\ Goto(p, k)) /\ nodes' \subseteq NodeRow
  <2>1. CASE TokenMatches(l) = {} /\ LoseAttempt(p)
    <3>1. UNCHANGED nodes
      BY <2>1 DEF LoseAttempt
    <3> QED
      BY <1>0, <2>1, <3>1, TypeLose DEF TypeInv
  <2>2. ASSUME NEW old \in TokenMatches(l),
               RoleKept(old, NodeWrite(l, old.created)),
               nodes' = Replacing(nodes, {old}, l.now, NodeWrite(l, old.created)),
               ThenBindName(p)
        PROVE  (\E k : WellFormed(k) /\ Goto(p, k)) /\ nodes' \subseteq NodeRow
    <3>1. old \in nodes /\ nodes \subseteq NodeRow
      BY DEF TokenMatches, CurrentNode, Current, NodeVersions, TypeInv
    <3>2. old.created \in Time /\ l.now \in Time
      BY <1>0, <3>1 DEF NodeRow, WellFormed
    <3>3. NodeWrite(l, old.created) \in NodeRow
      BY <1>0, <3>2, NodeWriteRow
    <3>4. nodes' \subseteq NodeRow
      BY <2>2, <3>1, <3>2, <3>3, ReplacingRows
    <3> QED
      BY <1>0, <2>2, <3>4, TypeThenBind
  <2>3. CASE Finish(p) /\ UNCHANGED nodes
    BY <2>3, StartWellFormed DEF Finish, TypeInv
  <2> QED
    BY <2>1, <2>2, <2>3 DEF UpdateIfCurrent
<1> QED
  BY <1>0, <1>1, GotoKeepsLocals DEF TypeInv

LEMMA TypeCreate ==
    ASSUME TypeInv, NEW p \in Procs, CreateIfAbsent(p)
    PROVE  TypeInv'
<1> DEFINE l == proc[p]
<1>0. /\ WellFormed(l) /\ l.pc = "commit" /\ l.op = "replace"
      /\ l.now \in Time /\ nodes \subseteq NodeRow
      /\ UNCHANGED <<edges, aliases, clock, ulids>>
  BY DEF TypeInv, CreateIfAbsent, At, WellFormed
<1>1. NodeWrite(l, l.now) \in NodeRow
  BY <1>0, NodeWriteRow
<1>2. (\E k : WellFormed(k) /\ Goto(p, k)) /\ nodes' \subseteq NodeRow
  BY <1>0, <1>1, TypeLose, TypeThenBind DEF CreateIfAbsent, LoseAttempt
<1> QED
  BY <1>0, <1>2, GotoKeepsLocals DEF TypeInv

\* Transactions that return whatever they did.
LEMMA TypeFinish ==
    ASSUME TypeInv, NEW p \in Procs, Finish(p),
           nodes' \subseteq NodeRow, edges' \subseteq EdgeRow,
           aliases' \subseteq AliasRow, ulids' \in Nat, UNCHANGED clock
    PROVE  TypeInv'
BY StartWellFormed, GotoKeepsLocals DEF Finish, TypeInv

LEMMA TypeUpsertNode ==
    ASSUME TypeInv, NEW p \in Procs, UpsertNode(p)
    PROVE  TypeInv'
<1> DEFINE l == proc[p]
           cur == CurrentNode(l.arg.id)
<1>0. /\ WellFormed(l) /\ l.pc = "commit" /\ l.op = "upsert"
      /\ l.now \in Time /\ nodes \subseteq NodeRow
  BY DEF TypeInv, UpsertNode, At, WellFormed
<1>1. cur \subseteq nodes
  BY DEF CurrentNode, Current, NodeVersions
<1>2. CASE l.seen = NULL
  <2>1. NodeWrite(l, l.now) \in NodeRow
    BY <1>0, NodeWriteRow
  <2> QED
    BY <1>0, <1>2, <2>1, TypeFinish DEF UpsertNode, TypeInv
<1>3. CASE l.seen # NULL
  <2>1. l.seen.created \in Time
    BY <1>0, <1>3 DEF WellFormed, NodeRow
  <2>2. NodeWrite(l, l.seen.created) \in NodeRow
    BY <1>0, <2>1, NodeWriteRow
  <2>3. nodes' \subseteq NodeRow
    BY <1>0, <1>1, <1>3, <2>2, ReplacingRows DEF UpsertNode
  <2> QED
    BY <2>3, TypeFinish DEF UpsertNode, TypeInv
<1> QED
  BY <1>2, <1>3

LEMMA TypeUpsertEdge ==
    ASSUME TypeInv, NEW p \in Procs, UpsertEdge(p)
    PROVE  TypeInv'
<1> DEFINE l == proc[p]
<1>0. /\ l.arg \in LinkArgs /\ l.now \in Time
      /\ edges \subseteq EdgeRow /\ ulids \in Nat
      /\ Finish(p) /\ UNCHANGED <<nodes, aliases, clock>>
  BY DEF TypeInv, UpsertEdge, At, WellFormed
<1>1. \A i \in Nat, c \in Time : EdgeWrite(l, i, c) \in EdgeRow
  BY <1>0 DEF EdgeWrite, LinkArgs, EdgeRow, Stamp
<1>2. CASE NewId /\ edges' = edges \cup {EdgeWrite(l, ulids', l.now)}
  <2>1. ulids' \in Nat
    BY <1>0, <1>2 DEF NewId
  <2> QED
    BY <1>0, <1>1, <1>2, <2>1, TypeFinish DEF TypeInv
<1>3. ASSUME NEW r \in CurrentEdge(l.arg.src, l.arg.dst),
             edges' = Replacing(edges, {e \in Current(edges) : e.id = r.id},
                                l.now, EdgeWrite(l, r.id, r.created)),
             UNCHANGED ulids
      PROVE  TypeInv'
  <2>1. r \in EdgeRow /\ {e \in Current(edges) : e.id = r.id} \subseteq EdgeRow
    BY <1>0 DEF CurrentEdge, Current
  <2>2. EdgeWrite(l, r.id, r.created) \in EdgeRow
    BY <1>1, <2>1 DEF EdgeRow
  <2>3. edges' \subseteq EdgeRow
    BY <1>0, <1>3, <2>1, <2>2, ReplacingRows
  <2> QED
    BY <1>0, <1>3, <2>3, TypeFinish DEF TypeInv
<1> QED
  BY <1>2, <1>3 DEF UpsertEdge

LEMMA AliasWriteRow ==
    ASSUME NEW l, l.arg \in AliasArgs \cup BindArgs, l.now \in Time,
           NEW i \in Nat, NEW c \in Time
    PROVE  AliasWrite(l, i, c) \in AliasRow
BY DEF AliasWrite, AliasArgs, BindArgs, AliasRow, Stamp

LEMMA TypeUpsertAlias ==
    ASSUME TypeInv, NEW p \in Procs, UpsertAlias(p)
    PROVE  TypeInv'
<1> DEFINE l == proc[p]
           old == IF l.seen = NULL THEN {}
                  ELSE {r \in Current(aliases) : r.id = l.seen.id}
<1>0. /\ l.arg \in AliasArgs /\ l.now \in Time /\ l.seen \in AliasRow \cup {NULL}
      /\ aliases \subseteq AliasRow /\ ulids \in Nat
      /\ Finish(p) /\ UNCHANGED <<nodes, edges, clock>>
  BY DEF TypeInv, UpsertAlias, At, WellFormed
<1>1. old \subseteq AliasRow
  BY <1>0 DEF Current
<1>2. CASE UNCHANGED <<aliases, ulids>>
  BY <1>0, <1>2, TypeFinish DEF TypeInv
<1>3. CASE /\ NewId /\ l.seen = NULL
           /\ aliases' = Replacing(aliases, old, l.now, AliasWrite(l, ulids', l.now))
  <2>1. ulids' \in Nat
    BY <1>0, <1>3 DEF NewId
  <2>2. aliases' \subseteq AliasRow
    BY <1>0, <1>1, <1>3, <2>1, AliasWriteRow, ReplacingRows
  <2> QED
    BY <1>0, <2>1, <2>2, TypeFinish DEF TypeInv
<1>4. CASE /\ UNCHANGED ulids /\ l.seen # NULL
           /\ aliases' = Replacing(aliases, old, l.now,
                                   AliasWrite(l, l.seen.id, l.seen.created))
  <2>1. l.seen.id \in Nat /\ l.seen.created \in Time
    BY <1>0, <1>4 DEF AliasRow
  <2>2. aliases' \subseteq AliasRow
    BY <1>0, <1>1, <1>4, <2>1, AliasWriteRow, ReplacingRows
  <2> QED
    BY <1>0, <1>4, <2>2, TypeFinish DEF TypeInv
<1> QED
  BY <1>2, <1>3, <1>4 DEF UpsertAlias

LEMMA TypeBindAlias ==
    ASSUME TypeInv, NEW p \in Procs, BindAlias(p)
    PROVE  TypeInv'
<1> DEFINE l == proc[p]
<1>0. /\ l.arg \in BindArgs /\ l.now \in Time
      /\ aliases \subseteq AliasRow /\ ulids \in Nat
      /\ Finish(p) /\ UNCHANGED <<nodes, edges, clock>>
  BY DEF TypeInv, BindAlias, At, WellFormed
<1>1. CASE NewId /\ aliases' = aliases \cup {AliasWrite(l, ulids', l.now)}
  <2>1. ulids' \in Nat
    BY <1>0, <1>1 DEF NewId
  <2> QED
    BY <1>0, <1>1, <2>1, AliasWriteRow, TypeFinish DEF TypeInv
<1>2. ASSUME NEW r \in CurrentAlias(l.arg.key), UNCHANGED ulids,
             \/ UNCHANGED aliases
             \/ aliases' = Replacing(aliases, {r}, l.now,
                                     AliasWrite(l, r.id, r.created))
      PROVE  TypeInv'
  <2>1. r \in AliasRow
    BY <1>0 DEF CurrentAlias, Current
  <2>2. AliasWrite(l, r.id, r.created) \in AliasRow
    BY <1>0, <2>1, AliasWriteRow DEF AliasRow
  <2>3. aliases' \subseteq AliasRow
    BY <1>0, <1>2, <2>1, <2>2, ReplacingRows
  <2> QED
    BY <1>0, <1>2, <2>3, TypeFinish DEF TypeInv
<1> QED
  BY <1>1, <1>2 DEF BindAlias

LEMMA TypeStep == TypeInv /\ [Next]_vars => TypeInv'
<1> SUFFICES ASSUME TypeInv, [Next]_vars PROVE TypeInv'
  OBVIOUS
<1>1. ASSUME NEW p \in Procs, ProcStep(p) PROVE TypeInv'
  BY <1>1, TypeBegin, TypeRead, TypeReadClock, TypeUpdate, TypeCreate,
     TypeUpsertNode, TypeUpsertEdge, TypeUpsertAlias, TypeBindAlias DEF ProcStep
<1>2. ASSUME NEW n \in NodeIds, DeleteNode(n) PROVE TypeInv'
  BY <1>2 DEF DeleteNode, TypeInv
<1>3. ASSUME NEW e, DeleteEdge(e) PROVE TypeInv'
  BY <1>3 DEF DeleteEdge, TypeInv
<1>4. ASSUME NEW t \in Time, CompactVersions(t) PROVE TypeInv'
  BY <1>4 DEF CompactVersions, TypeInv
<1>5. CASE UNCHANGED vars
  BY <1>5 DEF vars, TypeInv
<1> QED
  BY <1>1, <1>2, <1>3, <1>4, <1>5 DEF Next

\* The three tables, the clock and every writer's locals keep their types,
\* and a writer about to commit holds the row and the time its write needs.
THEOREM TypeCorrect == Spec => []TypeOK
<1>1. TypeInv => TypeOK
  BY DEF TypeInv, TypeOK
<1> QED
  BY <1>1, TypeInit, TypeStep, PTL DEF Spec
-----------------------------------------------------------------------------
(* What a step does to the nodes table.                                    *)

OneCurrentNode ==
    \A r, s \in nodes : r.to = NULL /\ s.to = NULL /\ r.id = s.id => r = s

NodeOps == {"rewrite", "replace", "upsert"}

\* Writer p commits the row new over the current version of its node, if any.
Commits(p, new) ==
    LET l == proc[p] IN
    /\ l.op \in NodeOps
    /\ l.pc = "commit"
    /\ new \in NodeRow
    /\ new.id = l.arg.id /\ new.from = l.now /\ new.to = NULL
    /\ nodes' = Replacing(nodes, CurrentNode(l.arg.id), l.now, new)
    /\ UNCHANGED clock
    /\ \E k : k.seen = NULL /\ k.now = NULL /\ Goto(p, k)
    /\ l.op = "upsert" \/ \A r \in CurrentNode(l.arg.id) :
                             new.role = r.role /\ new.created = r.created

Purges(n) == nodes' = {r \in nodes : r.id # n} /\ UNCHANGED <<clock, proc>>

Compacts == /\ nodes' \subseteq nodes
            /\ \A r \in nodes : r.to = NULL => r \in nodes'
            /\ UNCHANGED <<clock, proc>>

LEMMA RestartBlank ==
    /\ Idle.seen = NULL /\ Idle.now = NULL
    /\ \A op, pc, a : Start(op, pc, a).seen = NULL /\ Start(op, pc, a).now = NULL
BY DEF Idle, Start

LEMMA ThenBindBlank ==
    ASSUME NEW p, ThenBindName(p)
    PROVE  \E k : k.seen = NULL /\ k.now = NULL /\ Goto(p, k)
BY RestartBlank DEF ThenBindName, Finish

LEMMA UpdateCommits ==
    ASSUME TypeInv, OneCurrentNode, NEW p \in Procs, UpdateIfCurrent(p),
           nodes' # nodes
    PROVE  \E new : Commits(p, new)
<1> DEFINE l == proc[p]
<1>0. /\ WellFormed(l) /\ l.pc = "commit" /\ l.op \in {"rewrite", "replace"}
      /\ nodes \subseteq NodeRow /\ UNCHANGED clock
  BY DEF TypeInv, UpdateIfCurrent, At
<1>1. PICK old \in TokenMatches(l) :
        /\ RoleKept(old, NodeWrite(l, old.created))
        /\ nodes' = Replacing(nodes, {old}, l.now, NodeWrite(l, old.created))
        /\ ThenBindName(p)
  BY DEF UpdateIfCurrent, LoseAttempt
<1>2. old \in nodes /\ old.id = l.arg.id /\ old.to = NULL /\ old.created \in Time
  BY <1>0 DEF TokenMatches, CurrentNode, Current, NodeVersions, NodeRow
<1>3. CurrentNode(l.arg.id) = {old}
  BY <1>2 DEF CurrentNode, Current, NodeVersions, OneCurrentNode
<1>4. Commits(p, NodeWrite(l, old.created))
  BY <1>0, <1>1, <1>2, <1>3, NodeWriteRow, ThenBindBlank
     DEF Commits, NodeOps, RoleKept
<1> QED
  BY <1>4

LEMMA CreateCommits ==
    ASSUME TypeInv, NEW p \in Procs, CreateIfAbsent(p), nodes' # nodes
    PROVE  \E new : Commits(p, new)
<1> DEFINE l == proc[p]
<1>0. /\ WellFormed(l) /\ l.pc = "commit" /\ l.op = "replace" /\ l.now \in Time
      /\ CurrentNode(l.arg.id) = {} /\ UNCHANGED clock
      /\ nodes' = nodes \cup {NodeWrite(l, l.now)} /\ ThenBindName(p)
  BY DEF TypeInv, CreateIfAbsent, At, WellFormed, LoseAttempt
<1>1. nodes' = Replacing(nodes, {}, l.now, NodeWrite(l, l.now))
  BY <1>0 DEF Replacing, Closed
<1> QED
  BY <1>0, <1>1, NodeWriteRow, ThenBindBlank DEF Commits, NodeOps

LEMMA UpsertCommits ==
    ASSUME TypeInv, NEW p \in Procs, UpsertNode(p), nodes' # nodes
    PROVE  \E new : Commits(p, new)
<1> DEFINE l == proc[p]
           cur == CurrentNode(l.arg.id)
<1>0. /\ WellFormed(l) /\ l.pc = "commit" /\ l.op = "upsert" /\ l.now \in Time
      /\ UNCHANGED clock /\ Finish(p)
  BY DEF TypeInv, UpsertNode, At, WellFormed
<1>1. CASE l.seen = NULL
  <2>1. nodes' = Replacing(nodes, cur, l.now, NodeWrite(l, l.now))
    BY <1>1 DEF UpsertNode, Replacing, Closed
  <2> QED
    BY <1>0, <2>1, NodeWriteRow, RestartBlank DEF Commits, NodeOps, Finish
<1>2. CASE l.seen # NULL
  <2>1. l.seen.created \in Time
    BY <1>0, <1>2 DEF WellFormed, NodeRow
  <2>2. nodes' = Replacing(nodes, cur, l.now, NodeWrite(l, l.seen.created))
    BY <1>2 DEF UpsertNode
  <2> QED
    BY <1>0, <2>1, <2>2, NodeWriteRow, RestartBlank DEF Commits, NodeOps, Finish
<1> QED
  BY <1>1, <1>2

LEMMA WriterStep ==
    ASSUME TypeInv, OneCurrentNode, NEW p \in Procs, ProcStep(p)
    PROVE  UNCHANGED nodes \/ \E new : Commits(p, new)
BY UpdateCommits, CreateCommits, UpsertCommits
   DEF ProcStep, Begin, BeginRewrite, BeginReplace, BeginUpsert, BeginLink,
       BeginAlias, BeginBind, ReadForRewrite, ReadForReplace, ReadForUpsert,
       ResolveSource, ResolveTarget, RequireEntity, ReadForAlias, CheckTwins,
       ReadClock, UpsertEdge, UpsertAlias, BindAlias, tables

LEMMA NodesStep ==
    ASSUME TypeInv, OneCurrentNode, [Next]_vars
    PROVE  \/ UNCHANGED nodes
           \/ \E p \in Procs : \E new : Commits(p, new)
           \/ \E n \in NodeIds : Purges(n)
           \/ Compacts
<1>2. ASSUME NEW n \in NodeIds, DeleteNode(n) PROVE Purges(n)
  BY <1>2 DEF DeleteNode, Purges
<1>3. ASSUME NEW t \in Time, CompactVersions(t) PROVE Compacts
  BY <1>3 DEF CompactVersions, Compacts, Expired
<1> QED
  BY WriterStep, <1>2, <1>3 DEF Next, vars, DeleteEdge

LEMMA OneCurrentNodeStep == TypeInv /\ OneCurrentNode /\ [Next]_vars => OneCurrentNode'
<1> SUFFICES ASSUME TypeInv, OneCurrentNode, [Next]_vars PROVE OneCurrentNode'
  OBVIOUS
<1>1. ASSUME NEW p \in Procs, NEW new, Commits(p, new) PROVE OneCurrentNode'
  <2>1. proc[p].now # NULL /\ nodes \subseteq NodeRow
    BY <1>1, GraphConstants DEF Commits, TypeInv, WellFormed, Time
  <2> QED
    BY <1>1, <2>1 DEF Commits, Replacing, Closed, CurrentNode, Current,
                      NodeVersions, OneCurrentNode, NodeRow
<1>2. ASSUME NEW n \in NodeIds, Purges(n) PROVE OneCurrentNode'
  BY <1>2 DEF Purges, OneCurrentNode
<1>3. CASE Compacts
  BY <1>3 DEF Compacts, OneCurrentNode
<1> QED
  BY <1>1, <1>2, <1>3, NodesStep DEF OneCurrentNode
-----------------------------------------------------------------------------
(* Versions of one node agree, when no client writes unconditionally.      *)

NoUpsert == \A p \in Procs : proc[p].op # "upsert"

\* A node with any version has a current one: a version is closed only by
\* the write that replaces it, and a purge leaves none behind.
HasCurrentNode == \A r \in nodes : CurrentNode(r.id) # {}

LEMMA NoUpsertStep ==
    "upsert" \notin Ops /\ TypeInv /\ NoUpsert /\ [Next]_vars => NoUpsert'
<1> SUFFICES ASSUME "upsert" \notin Ops, TypeInv, NoUpsert, [Next]_vars
             PROVE  NoUpsert'
  OBVIOUS
<1>0. proc \in [Procs -> Local]
  BY DEF TypeInv
<1>1. ASSUME NEW p \in Procs, NEW k, Goto(p, k), k.op # "upsert" PROVE NoUpsert'
  BY <1>0, <1>1 DEF Goto, NoUpsert
<1>2. Idle.op # "upsert" /\ \A op, pc, a : Start(op, pc, a).op = op
  BY DEF Idle, Start
<1>3. ASSUME NEW p \in Procs,
             \/ BeginRewrite(p) \/ BeginReplace(p) \/ BeginUpsert(p)
             \/ BeginLink(p) \/ BeginAlias(p) \/ BeginBind(p)
      PROVE  NoUpsert'
  BY <1>1, <1>2, <1>3 DEF Begin, BeginRewrite, BeginReplace, BeginUpsert,
                          BeginLink, BeginAlias, BeginBind
<1>4. ASSUME NEW p \in Procs,
             \/ ReadForRewrite(p) \/ ReadForReplace(p) \/ ReadForUpsert(p)
             \/ ResolveSource(p) \/ ResolveTarget(p) \/ RequireEntity(p)
             \/ ReadForAlias(p) \/ CheckTwins(p) \/ ReadClock(p)
      PROVE  NoUpsert'
  <2>1. proc[p].op # "upsert" /\ proc[p] \in Local
    BY <1>0 DEF NoUpsert
  <2>2. Finish(p) => NoUpsert'
    BY <1>1, <1>2 DEF Finish
  <2>3. \A f, g : Goto(p, [proc[p] EXCEPT !.seen = f, !.pc = g]) => NoUpsert'
    BY <1>1, <2>1 DEF Local
  <2>4. \A g : Goto(p, [proc[p] EXCEPT !.pc = g]) => NoUpsert'
    BY <1>1, <2>1 DEF Local
  <2>5. \A f, g : Goto(p, [proc[p] EXCEPT !.now = f, !.pc = g]) => NoUpsert'
    BY <1>1, <2>1 DEF Local
  <2> QED
    BY <1>4, <2>2, <2>3, <2>4, <2>5
       DEF ReadForRewrite, ReadForReplace, ReadForUpsert, ResolveSource,
           ResolveTarget, RequireEntity, ReadForAlias, CheckTwins, ReadClock,
           Declines
<1>5. ASSUME NEW p \in Procs, UpdateIfCurrent(p) \/ CreateIfAbsent(p)
      PROVE  NoUpsert'
  <2>1. Finish(p) \/ ReadAgain(p) \/ ThenBindName(p)
    BY <1>5 DEF UpdateIfCurrent, CreateIfAbsent, LoseAttempt
  <2>2. Finish(p) => NoUpsert'
    BY <1>1, <1>2 DEF Finish
  <2>3. [Start(proc[p].op, "read", proc[p].arg)
           EXCEPT !.tries = proc[p].tries + 1].op # "upsert"
    BY DEF Start, NoUpsert
  <2>4. ReadAgain(p) => NoUpsert'
    BY <1>1, <2>3 DEF ReadAgain
  <2>5. ThenBindName(p) => NoUpsert'
    BY <1>1, <1>2, <2>2 DEF ThenBindName
  <2> QED
    BY <2>1, <2>2, <2>4, <2>5
<1>6. ASSUME NEW p \in Procs,
             UpsertNode(p) \/ UpsertEdge(p) \/ UpsertAlias(p) \/ BindAlias(p)
      PROVE  NoUpsert'
  BY <1>1, <1>2, <1>6 DEF UpsertNode, UpsertEdge, UpsertAlias, BindAlias, Finish
<1>7. CASE UNCHANGED proc
  BY <1>7 DEF NoUpsert
<1> QED
  BY <1>3, <1>4, <1>5, <1>6, <1>7
     DEF Next, ProcStep, vars, DeleteNode, DeleteEdge, CompactVersions

NodeInv == TypeInv /\ OneCurrentNode /\ HasCurrentNode /\ NoUpsert /\ VersionsAgree

LEMMA NodeInit == Init => NodeInv
BY TypeInit DEF Init, NodeInv, OneCurrentNode, HasCurrentNode, NoUpsert, Idle,
                Start, VersionsAgree

LEMMA HasCurrentNodeStep ==
    TypeInv /\ OneCurrentNode /\ HasCurrentNode /\ [Next]_vars => HasCurrentNode'
<1> SUFFICES ASSUME TypeInv, OneCurrentNode, HasCurrentNode, [Next]_vars
             PROVE  HasCurrentNode'
  OBVIOUS
<1> USE DEF HasCurrentNode, CurrentNode, Current, NodeVersions
<1>1. ASSUME NEW p \in Procs, NEW new, Commits(p, new) PROVE HasCurrentNode'
  <2>1. new \in nodes' /\ new.to = NULL /\ nodes \subseteq NodeRow
    BY <1>1 DEF Commits, Replacing, TypeInv
  <2>2. ASSUME NEW r \in nodes', r.id = new.id PROVE CurrentNode(r.id)' # {}
    BY <2>1, <2>2
  <2>3. ASSUME NEW r \in nodes', r.id # new.id PROVE CurrentNode(r.id)' # {}
    <3>1. \A s \in nodes : s.id # new.id => s \in nodes'
      BY <1>1 DEF Commits, Replacing
    <3>2. r \in nodes
      BY <1>1, <2>1, <2>3 DEF Commits, Replacing, Closed, NodeRow
    <3> QED
      BY <2>3, <3>1, <3>2
  <2> QED
    BY <2>2, <2>3
<1>2. ASSUME NEW n \in NodeIds, Purges(n) PROVE HasCurrentNode'
  BY <1>2 DEF Purges
<1>3. CASE Compacts
  BY <1>3 DEF Compacts
<1> QED
  BY <1>1, <1>2, <1>3, NodesStep

LEMMA VersionsAgreeStep == NodeInv /\ [Next]_vars => VersionsAgree'
<1> SUFFICES ASSUME NodeInv, [Next]_vars PROVE VersionsAgree'
  OBVIOUS
<1>1. ASSUME NEW p \in Procs, NEW new, Commits(p, new) PROVE VersionsAgree'
  <2> DEFINE cur == CurrentNode(new.id)
  <2>1. /\ nodes \subseteq NodeRow
        /\ nodes' = Replacing(nodes, cur, proc[p].now, new)
        /\ \A r \in cur : new.role = r.role /\ new.created = r.created
    BY <1>1 DEF Commits, NodeInv, NoUpsert, TypeInv
  <2>2. \A r \in nodes : r.id = new.id => r.role = new.role /\ r.created = new.created
    BY <2>1 DEF NodeInv, HasCurrentNode, VersionsAgree, CurrentNode, Current,
                NodeVersions
  <2>3. \A r \in nodes' : \/ r = new
                          \/ \E s \in nodes : /\ r.id = s.id /\ r.role = s.role
                                              /\ r.created = s.created
    BY <2>1 DEF Replacing, Closed, CurrentNode, Current, NodeVersions, NodeRow
  <2> QED
    BY <2>2, <2>3 DEF NodeInv, VersionsAgree
<1>2. ASSUME NEW n \in NodeIds, Purges(n) PROVE VersionsAgree'
  BY <1>2 DEF Purges, NodeInv, VersionsAgree
<1>3. CASE Compacts
  BY <1>3 DEF Compacts, NodeInv, VersionsAgree
<1> QED
  BY <1>1, <1>2, <1>3, NodesStep DEF NodeInv, VersionsAgree

\* With every node written by the conditional writers, the versions of a
\* node never differ in node_role or created_at, whatever purges, compactions
\* and lost races come between.
THEOREM VersionsAlwaysAgree ==
    ASSUME "upsert" \notin Ops
    PROVE  Spec => []VersionsAgree
<1>1. NodeInv /\ [Next]_vars => NodeInv'
  BY TypeStep, OneCurrentNodeStep, HasCurrentNodeStep, NoUpsertStep,
     VersionsAgreeStep DEF NodeInv
<1>2. NodeInv => VersionsAgree
  BY DEF NodeInv
<1> QED
  BY <1>1, <1>2, NodeInit, PTL DEF Spec
-----------------------------------------------------------------------------
(* A version's valid_from is a token nothing else ever bears, when no two  *)
(* writers read the clock in one microsecond.                              *)

Stamped(p) == proc[p].now # NULL

Shown(p) == proc[p].op \in NodeOps /\ proc[p].seen # NULL

RowsInPast == \A r \in nodes : r.from <= clock

StampsFresh ==
    \A p \in Procs : Stamped(p) =>
      proc[p].now <= clock /\ \A r \in nodes : r.from # proc[p].now

StampsDistinct ==
    \A p, q \in Procs : Stamped(p) /\ proc[p].now = proc[q].now => p = q

TokensName ==
    \A p \in Procs : Shown(p) =>
      /\ proc[p].seen.from <= clock
      /\ \A q \in Procs : proc[q].now # proc[p].seen.from
      /\ \A r \in nodes : /\ r.to = NULL
                          /\ r.id = proc[p].seen.id
                          /\ r.from = proc[p].seen.from
                          => r = proc[p].seen

TokenInv == RowsInPast /\ StampsFresh /\ StampsDistinct /\ TokensName

\* How a step moves the writer that takes it.
Restarts(p) == /\ proc'[p].seen = NULL /\ proc'[p].now = NULL
               /\ UNCHANGED clock

Reads(p) == /\ proc'[p].op = proc[p].op /\ proc'[p].now = proc[p].now
            /\ \/ proc'[p].seen = proc[p].seen
               \/ proc'[p].seen \in Current(nodes) \cup {NULL}
               \/ proc[p].op \notin NodeOps
            /\ UNCHANGED <<clock, nodes>>

Stamps(p) == /\ proc'[p].op = proc[p].op /\ proc'[p].seen = proc[p].seen
             /\ clock' = clock + 1 /\ proc'[p].now = clock'
             /\ UNCHANGED nodes

\* The fields of updated locals.
LEMMA Updated ==
    ASSUME NEW l \in Local, NEW f, NEW g
    PROVE  /\ [l EXCEPT !.seen = f, !.pc = g].seen = f
           /\ [l EXCEPT !.seen = f, !.pc = g].op = l.op
           /\ [l EXCEPT !.seen = f, !.pc = g].now = l.now
           /\ [l EXCEPT !.now = f, !.pc = g].now = f
           /\ [l EXCEPT !.now = f, !.pc = g].op = l.op
           /\ [l EXCEPT !.now = f, !.pc = g].seen = l.seen
BY DEF Local

LEMMA LocalsStep ==
    ASSUME Distinct, TypeInv, OneCurrentNode, NEW p \in Procs, ProcStep(p)
    PROVE  /\ \A q \in Procs : q # p => proc'[q] = proc[q]
           /\ Restarts(p) \/ Reads(p) \/ Stamps(p)
<1>0. proc \in [Procs -> Local]
  BY DEF TypeInv
<1>1. ASSUME NEW k, Goto(p, k)
      PROVE  proc'[p] = k /\ \A q \in Procs : q # p => proc'[q] = proc[q]
  BY <1>0, <1>1 DEF Goto
<1> DEFINE Done == /\ \A q \in Procs : q # p => proc'[q] = proc[q]
                   /\ Restarts(p) \/ Reads(p) \/ Stamps(p)
<1>2. ASSUME NEW k, Goto(p, k), k.seen = NULL, k.now = NULL, UNCHANGED clock
      PROVE  Done
  BY <1>1, <1>2 DEF Restarts
<1>3. CASE \/ BeginRewrite(p) \/ BeginReplace(p) \/ BeginUpsert(p)
           \/ BeginLink(p) \/ BeginAlias(p) \/ BeginBind(p)
  <2>1. PICK op, pc, a : Begin(p, Start(op, pc, a))
    BY <1>3 DEF BeginRewrite, BeginReplace, BeginUpsert, BeginLink, BeginAlias,
                BeginBind
  <2> QED
    BY <1>2, <2>1, RestartBlank DEF Begin
<1>4. CASE \/ ReadForRewrite(p) \/ ReadForReplace(p) \/ ReadForUpsert(p)
           \/ ResolveSource(p) \/ ResolveTarget(p) \/ RequireEntity(p)
           \/ ReadForAlias(p) \/ CheckTwins(p)
  <2>0. UNCHANGED <<nodes, clock>>
    BY <1>4 DEF ReadForRewrite, ReadForReplace, ReadForUpsert, ResolveSource,
                ResolveTarget, RequireEntity, ReadForAlias, CheckTwins, tables
  <2>1. Finish(p) => Done
    BY <1>2, <2>0, RestartBlank DEF Finish
  <2>2. \A g : Goto(p, [proc[p] EXCEPT !.pc = g]) => Done
    BY <1>0, <1>1, <2>0 DEF Local, Reads
  <2>3. ASSUME NEW row, NEW g, Goto(p, [proc[p] EXCEPT !.seen = row, !.pc = g]),
               row \in Current(nodes) \cup {NULL} \/ proc[p].op \notin NodeOps
        PROVE  Done
    <3>1. /\ proc'[p].op = proc[p].op /\ proc'[p].now = proc[p].now
          /\ proc'[p].seen = row
      <4>1. proc'[p] = [proc[p] EXCEPT !.seen = row, !.pc = g]
        BY <1>1, <2>3
      <4>2. proc[p] \in Local
        BY <1>0
      <4> QED
        BY <4>1, <4>2, Updated
    <3> QED
      BY <1>1, <2>0, <2>3, <3>1 DEF Reads
  <2>4. \A n : Fetch(CurrentNode(n)) \subseteq Current(nodes) \cup {NULL}
    BY DEF Fetch, CurrentNode, Current, NodeVersions
  <2>5. CASE ReadForRewrite(p) \/ ReadForReplace(p) \/ ReadForUpsert(p)
    BY <2>1, <2>3, <2>4, <2>5
       DEF ReadForRewrite, ReadForReplace, ReadForUpsert, Declines
  <2>6. CASE ReadForAlias(p)
    BY <2>3, <2>6 DEF ReadForAlias, At, NodeOps
  <2> QED
    BY <1>4, <2>1, <2>2, <2>5, <2>6
       DEF ResolveSource, ResolveTarget, RequireEntity, CheckTwins
<1>5. CASE ReadClock(p)
  <2>1. PICK t \in Time, g \in {"read", "commit"} :
                             /\ t = clock + 1 /\ clock' = t
                             /\ Goto(p, [proc[p] EXCEPT !.now = t, !.pc = g])
                             /\ UNCHANGED nodes
    BY <1>5 DEF ReadClock, tables
  <2>2. /\ proc'[p].op = proc[p].op /\ proc'[p].seen = proc[p].seen
        /\ proc'[p].now = t
    <3>1. proc'[p] = [proc[p] EXCEPT !.now = t, !.pc = g]
      BY <1>1, <2>1
    <3>2. proc[p] \in Local
      BY <1>0
    <3> QED
      BY <3>1, <3>2, Updated
  <2> QED
    BY <1>1, <2>1, <2>2 DEF Stamps
<1>6. CASE UpdateIfCurrent(p) \/ CreateIfAbsent(p)
  <2>0. UNCHANGED clock /\ (Finish(p) \/ ReadAgain(p) \/ ThenBindName(p))
    BY <1>6 DEF UpdateIfCurrent, CreateIfAbsent, LoseAttempt
  <2>1. CASE ReadAgain(p)
    <3> DEFINE k == [Start(proc[p].op, "read", proc[p].arg)
                       EXCEPT !.tries = proc[p].tries + 1]
    <3>1. k.seen = NULL /\ k.now = NULL
      BY DEF Start
    <3> QED
      BY <1>2, <2>0, <2>1, <3>1 DEF ReadAgain
  <2> QED
    BY <1>2, <2>0, <2>1, RestartBlank, ThenBindBlank DEF Finish
<1>7. CASE UpsertNode(p) \/ UpsertEdge(p) \/ UpsertAlias(p) \/ BindAlias(p)
  BY <1>2, <1>7, RestartBlank
     DEF UpsertNode, UpsertEdge, UpsertAlias, BindAlias, Finish
<1> QED
  BY <1>3, <1>4, <1>5, <1>6, <1>7 DEF ProcStep

LEMMA TokenInit == Init => TokenInv
BY RestartBlank DEF Init, TokenInv, RowsInPast, StampsFresh, StampsDistinct, TokensName,
                     Stamped, Shown

\* The rows a writer's step leaves: each was there, or is a closed version
\* of one that was, or is new and bears the writer's time, which it gives up.
LEMMA RowsStep ==
    ASSUME TypeInv, OneCurrentNode, NEW p \in Procs, ProcStep(p)
    PROVE  \A r \in nodes' :
             \/ r \in nodes
             \/ r.to # NULL /\ \E s \in nodes : r.from = s.from
             \/ Stamped(p) /\ r.from = proc[p].now /\ Restarts(p)
<1>1. ASSUME NEW new, Commits(p, new), NEW r \in nodes'
      PROVE  \/ r \in nodes
             \/ r.to # NULL /\ \E s \in nodes : r.from = s.from
             \/ Stamped(p) /\ r.from = proc[p].now /\ Restarts(p)
  <2>1. proc[p].now # NULL /\ nodes \subseteq NodeRow
    BY <1>1, GraphConstants DEF Commits, TypeInv, WellFormed, Time
  <2>2. Restarts(p)
    BY <1>1 DEF Commits, Goto, Restarts, TypeInv
  <2> QED
    BY <1>1, <2>1, <2>2 DEF Commits, Replacing, Closed, CurrentNode, Current,
                            NodeVersions, NodeRow, Stamped
<1> QED
  BY <1>1, WriterStep

LEMMA TokenStep ==
    Distinct /\ TypeInv /\ OneCurrentNode /\ TokenInv /\ [Next]_vars => TokenInv'
<1> SUFFICES ASSUME Distinct, TypeInv, OneCurrentNode, TokenInv, [Next]_vars
             PROVE  TokenInv'
  OBVIOUS
<1>1. ASSUME nodes' \subseteq nodes, UNCHANGED <<clock, proc>> PROVE TokenInv'
  BY <1>1 DEF TokenInv, RowsInPast, StampsFresh, StampsDistinct, TokensName,
              Stamped, Shown
<1>2. ASSUME NEW p \in Procs, ProcStep(p) PROVE TokenInv'
  <2>0. /\ nodes \subseteq NodeRow /\ clock \in Nat
        /\ \A q \in Procs : proc[q].now \in Nat \cup {NULL}
        /\ \A q \in Procs : Shown(q) => proc[q].seen.from \in Nat
        /\ \A r \in nodes : r.from \in Nat
        /\ NULL \notin Nat
    BY GraphConstants DEF TypeInv, Time, WellFormed, Local, Stamp, NodeRow,
                          Shown, NodeOps
  <2>1. \A q \in Procs : q # p => proc'[q] = proc[q]
    BY <1>2, LocalsStep
  <2>2. CASE Restarts(p)
    <3>1. \A r \in nodes' :
            \/ r \in nodes
            \/ r.to # NULL /\ \E s \in nodes : r.from = s.from
            \/ Stamped(p) /\ r.from = proc[p].now
      BY <1>2, RowsStep
    <3>2. ~Stamped(p)' /\ ~Shown(p)' /\ UNCHANGED clock
      BY <2>2 DEF Restarts, Stamped, Shown
    <3>3. \A q \in Procs : q # p => /\ Stamped(q)' <=> Stamped(q)
                                    /\ Shown(q)' <=> Shown(q)
      BY <2>1 DEF Stamped, Shown
    <3>4. RowsInPast'
      BY <3>1, <3>2 DEF TokenInv, RowsInPast, StampsFresh
    <3>5. StampsFresh'
      <4>1. \A q \in Procs : Stamped(q)' =>
              proc'[q].now <= clock' /\ \A r \in nodes' : r.from # proc'[q].now
        BY <2>1, <3>1, <3>2, <3>3
           DEF TokenInv, RowsInPast, StampsFresh, StampsDistinct
      <4> QED
        BY <4>1 DEF StampsFresh
    <3>6. StampsDistinct'
      <4>1. \A q, o \in Procs : Stamped(q)' /\ proc'[q].now = proc'[o].now => q = o
        BY <2>1, <2>2, <3>2, <3>3 DEF TokenInv, StampsDistinct, Restarts, Stamped
      <4> QED
        BY <4>1 DEF StampsDistinct
    <3>7. ASSUME NEW q \in Procs, Shown(q)'
          PROVE  /\ proc'[q].seen.from <= clock'
                 /\ \A o \in Procs : proc'[o].now # proc'[q].seen.from
                 /\ \A r \in nodes' : /\ r.to = NULL
                                      /\ r.id = proc'[q].seen.id
                                      /\ r.from = proc'[q].seen.from
                                      => r = proc'[q].seen
      <4>1. q # p /\ Shown(q) /\ proc'[q] = proc[q]
        BY <2>1, <3>2, <3>3, <3>7
      <4>2. \A o \in Procs : proc'[o].now # proc'[q].seen.from
        BY <2>0, <2>1, <2>2, <4>1 DEF TokenInv, TokensName, Restarts
      <4>3. \A r \in nodes' : r.to = NULL /\ r.from = proc[q].seen.from => r \in nodes
        BY <3>1, <4>1 DEF TokenInv, TokensName
      <4> QED
        BY <3>2, <4>1, <4>2, <4>3 DEF TokenInv, TokensName
    <3>8. \A q \in Procs : proc'[q].op \in NodeOps /\ proc'[q].seen # NULL =>
            /\ proc'[q].seen.from <= clock'
            /\ \A o \in Procs : proc'[o].now # proc'[q].seen.from
            /\ \A r \in nodes' : /\ r.to = NULL
                                 /\ r.id = proc'[q].seen.id
                                 /\ r.from = proc'[q].seen.from
                                 => r = proc'[q].seen
      BY <3>7 DEF Shown
    <3>9. TokensName'
      BY <3>8, Zenon DEF TokensName, Shown
    <3> QED
      BY <3>4, <3>5, <3>6, <3>9 DEF TokenInv
  <2>3. CASE Reads(p)
    <3>1. \A q \in Procs : proc'[q].now = proc[q].now /\ proc'[q].op = proc[q].op
      BY <2>1, <2>3 DEF Reads
    <3>2. UNCHANGED <<clock, nodes>>
      BY <2>3 DEF Reads
    <3>3. ASSUME NEW q \in Procs, Shown(q)'
          PROVE  /\ proc'[q].seen.from <= clock
                 /\ \A o \in Procs : proc[o].now # proc'[q].seen.from
                 /\ \A r \in nodes : /\ r.to = NULL
                                     /\ r.id = proc'[q].seen.id
                                     /\ r.from = proc'[q].seen.from
                                     => r = proc'[q].seen
      <4>1. CASE proc'[q].seen = proc[q].seen
        BY <3>1, <3>3, <4>1 DEF TokenInv, TokensName, Shown
      <4>2. CASE proc'[q].seen # proc[q].seen
        <5>1. q = p /\ proc'[q].seen \in Current(nodes)
          BY <2>1, <2>3, <3>1, <3>3, <4>2 DEF Reads, Shown
        <5>2. proc'[q].seen \in nodes /\ proc'[q].seen.to = NULL
          BY <5>1 DEF Current
        <5>3. \A o \in Procs : proc[o].now # proc'[q].seen.from
          BY <2>0, <5>2 DEF TokenInv, StampsFresh, Stamped
        <5> QED
          BY <5>2, <5>3 DEF TokenInv, RowsInPast, OneCurrentNode
      <4> QED
        BY <4>1, <4>2
    <3>4. RowsInPast'
      BY <3>2 DEF TokenInv, RowsInPast
    <3>5. StampsFresh' /\ StampsDistinct'
      BY <3>1, <3>2 DEF TokenInv, StampsFresh, StampsDistinct, Stamped
    <3>6. \A q \in Procs : proc'[q].op \in NodeOps /\ proc'[q].seen # NULL =>
            /\ proc'[q].seen.from <= clock'
            /\ \A o \in Procs : proc'[o].now # proc'[q].seen.from
            /\ \A r \in nodes' : /\ r.to = NULL
                                 /\ r.id = proc'[q].seen.id
                                 /\ r.from = proc'[q].seen.from
                                 => r = proc'[q].seen
      BY <3>1, <3>2, <3>3 DEF Shown
    <3>7. TokensName'
      BY <3>6, Zenon DEF TokensName, Shown
    <3> QED
      BY <3>4, <3>5, <3>7 DEF TokenInv
  <2>4. CASE Stamps(p)
    <3>1. /\ clock' = clock + 1 /\ proc'[p].now = clock + 1 /\ UNCHANGED nodes
          /\ proc'[p].seen = proc[p].seen /\ proc'[p].op = proc[p].op
      BY <2>4 DEF Stamps
    <3>2. \A q \in Procs : Shown(q)' <=> Shown(q)
      BY <2>1, <3>1 DEF Shown
    <3>3. \A q \in Procs : proc'[q].seen = proc[q].seen
      BY <2>1, <3>1
    <3>4. \A q \in Procs : Stamped(q)' =>
            proc'[q].now <= clock' /\ \A r \in nodes' : r.from # proc'[q].now
      BY <2>0, <2>1, <3>1
         DEF TokenInv, RowsInPast, StampsFresh, StampsDistinct, Stamped
    <3>5. \A q, o \in Procs : Stamped(q)' /\ proc'[q].now = proc'[o].now => q = o
      BY <2>0, <2>1, <3>1
         DEF TokenInv, RowsInPast, StampsFresh, StampsDistinct, Stamped
    <3>6. \A q \in Procs : Shown(q) =>
            /\ proc[q].seen.from <= clock'
            /\ \A o \in Procs : proc'[o].now # proc[q].seen.from
      BY <2>0, <2>1, <3>1 DEF TokenInv, TokensName
    <3>7. \A r \in nodes' : r.from <= clock'
      BY <2>0, <3>1 DEF TokenInv, RowsInPast
    <3> QED
      BY <3>1, <3>2, <3>3, <3>4, <3>5, <3>6, <3>7
         DEF TokenInv, RowsInPast, StampsFresh, StampsDistinct, TokensName
  <2> QED
    BY <1>2, <2>2, <2>3, <2>4, LocalsStep
<1>3. CASE UNCHANGED vars
  BY <1>1, <1>3 DEF vars
<1>4. ASSUME NEW n \in NodeIds, DeleteNode(n) PROVE TokenInv'
  BY <1>1, <1>4 DEF DeleteNode
<1>5. ASSUME NEW e, DeleteEdge(e) PROVE TokenInv'
  BY <1>1, <1>5 DEF DeleteEdge
<1>6. ASSUME NEW t \in Time, CompactVersions(t) PROVE TokenInv'
  BY <1>1, <1>6 DEF CompactVersions
<1> QED
  BY <1>2, <1>3, <1>4, <1>5, <1>6 DEF Next

\* When no two writers read the clock in one microsecond, a conditional write
\* replaces exactly the version its checks were run on, whatever upserts,
\* purges and re-creations run beside it.
THEOREM WritesReplaceReads ==
    ASSUME Distinct
    PROVE  Spec => WriteReplacesRead
<1> DEFINE Inv == TypeInv /\ OneCurrentNode /\ TokenInv
<1>1. Init => Inv
  BY TypeInit, TokenInit DEF Init, OneCurrentNode
<1>2. Inv /\ [Next]_vars => Inv'
  BY TypeStep, OneCurrentNodeStep, TokenStep
<1>3. ASSUME Inv, [Next]_vars, NEW p \in Procs, WritesNode(p)
      PROVE  CurrentNode(proc[p].arg.id) = {proc[p].seen} \ {NULL}
  <2>1. UpdateIfCurrent(p) \/ CreateIfAbsent(p)
    <3>1. PICK q \in Procs : ProcStep(q)
      BY <1>3 DEF WritesNode, Next, vars, DeleteNode, DeleteEdge, CompactVersions
    <3>2. q = p
      BY <1>3, <3>1, LocalsStep DEF WritesNode
    <3> QED
      BY <1>3, <3>1, <3>2
         DEF WritesNode, At, ProcStep, Begin, BeginRewrite, BeginReplace,
             BeginUpsert, BeginLink, BeginAlias, BeginBind, ReadForRewrite,
             ReadForReplace, ReadForUpsert, ResolveSource, ResolveTarget,
             RequireEntity, ReadForAlias, CheckTwins, ReadClock, UpsertNode,
             UpsertEdge, UpsertAlias, BindAlias, tables
  <2>2. WellFormed(proc[p])
    BY <1>3 DEF TypeInv
  <2>3. CASE UpdateIfCurrent(p)
    <3>1. PICK old \in TokenMatches(proc[p]) : TRUE
      BY <1>3, <2>3 DEF UpdateIfCurrent, LoseAttempt, WritesNode
    <3>2. Shown(p)
      BY <2>3 DEF UpdateIfCurrent, At, Shown, NodeOps
    <3>3. /\ old \in nodes /\ old.to = NULL /\ old.from = proc[p].seen.from
          /\ old.id = proc[p].arg.id
      BY <3>1 DEF TokenMatches, CurrentNode, Current, NodeVersions
    <3>4. proc[p].seen.id = proc[p].arg.id
      BY <2>2, <3>2 DEF WellFormed, Shown, NodeOps
    <3>5. old = proc[p].seen
      BY <1>3, <3>2, <3>3, <3>4 DEF TokenInv, TokensName
    <3> QED
      BY <1>3, <3>2, <3>3, <3>5
         DEF CurrentNode, Current, NodeVersions, OneCurrentNode, Shown
  <2>4. CASE CreateIfAbsent(p)
    BY <1>3, <2>4 DEF CreateIfAbsent, LoseAttempt, WritesNode
  <2> QED
    BY <2>1, <2>3, <2>4
<1>4. Inv /\ [Next]_vars =>
        [\A p \in Procs : WritesNode(p) =>
           CurrentNode(proc[p].arg.id) = {proc[p].seen} \ {NULL}]_vars
  BY <1>3
<1> QED
  BY <1>1, <1>2, <1>4, PTL DEF Spec, WriteReplacesRead
-----------------------------------------------------------------------------
(* Reads of the past.                                                      *)

\* Compaction to a cutoff changes no as_of read at or after it: what it
\* removes had ended before.
THEOREM CompactionAlwaysKeepsReads == Spec => CompactionKeepsReads
<1>1. ASSUME NEW R, NEW before \in Time, NEW t \in before..MaxClock,
             \A r \in R : r.to \in Time \cup {NULL}
      PROVE  ValidAt(R, t) = ValidAt(R \ Expired(R, before), t)
  BY <1>1, GraphConstants DEF ValidAt, Expired, Time
<1>2. ASSUME TypeInv
      PROVE  \A r \in nodes \cup edges \cup aliases : r.to \in Time \cup {NULL}
  BY <1>2 DEF TypeInv, NodeRow, EdgeRow, AliasRow, Stamp
<1>3. ASSUME TypeInv, [Next]_vars, NEW before \in Time, CompactVersions(before),
             NEW t \in before..MaxClock
      PROVE  /\ ValidAt(nodes, t) = ValidAt(nodes', t)
             /\ ValidAt(edges, t) = ValidAt(edges', t)
             /\ ValidAt(aliases, t) = ValidAt(aliases', t)
  BY <1>1, <1>2, <1>3 DEF CompactVersions
<1>4. TypeInv /\ [Next]_vars =>
        [\A before \in Time : CompactVersions(before) =>
           \A t \in before..MaxClock :
             /\ ValidAt(nodes, t) = ValidAt(nodes', t)
             /\ ValidAt(edges, t) = ValidAt(edges', t)
             /\ ValidAt(aliases, t) = ValidAt(aliases', t)]_vars
  BY <1>3
<1> QED
  BY <1>4, TypeInit, TypeStep, PTL DEF Spec, CompactionKeepsReads

\* What a conditional writer holds: it reads the clock after the row, and it
\* goes on from a row it has seen only where it may change one.
Prepared(l) ==
    l.op \in {"rewrite", "replace"} =>
      /\ l.pc \in {"read", "stamp"} => l.now = NULL
      /\ l.seen # NULL /\ l.now # NULL => l.seen.from < l.now
      /\ l.op = "replace" /\ l.seen # NULL => ~l.arg.ifAbsent

AllPrepared == \A p \in Procs : Prepared(proc[p])

LEMMA StartPrepared ==
    /\ Prepared(Idle)
    /\ \A op, pc, a : Prepared(Start(op, pc, a))
BY DEF Prepared, Idle, Start

LEMMA PreparedStep ==
    Distinct /\ TypeInv /\ OneCurrentNode /\ TokenInv /\ AllPrepared /\ [Next]_vars
      => AllPrepared'
<1> SUFFICES ASSUME Distinct, TypeInv, OneCurrentNode, TokenInv, AllPrepared, [Next]_vars
             PROVE  AllPrepared'
  OBVIOUS
<1>0. /\ proc \in [Procs -> Local] /\ clock \in Nat
      /\ \A p \in Procs : proc[p] \in Local /\ Prepared(proc[p])
      /\ NULL \notin Nat
  BY GraphConstants DEF TypeInv, AllPrepared, Time
<1>1. ASSUME NEW p \in Procs, NEW k, Goto(p, k), Prepared(k) PROVE AllPrepared'
  BY <1>0, <1>1 DEF Goto, AllPrepared
<1>2. ASSUME NEW p \in Procs, Finish(p) PROVE AllPrepared'
  BY <1>1, <1>2, StartPrepared DEF Finish
<1>3. ASSUME NEW p \in Procs, NEW op, NEW pc, NEW a, Begin(p, Start(op, pc, a))
      PROVE  AllPrepared'
  BY <1>1, <1>3, StartPrepared DEF Begin
<1>4. ASSUME NEW p \in Procs,
             \/ ReadForRewrite(p) \/ ReadForReplace(p)
      PROVE  AllPrepared'
  <2>1. PICK row : \/ Finish(p)
                   \/ /\ At(p, "rewrite", "read") \/ At(p, "replace", "read")
                      /\ proc[p].op = "replace" => ~LeftAlone(p, row)
                      /\ Goto(p, [proc[p] EXCEPT !.seen = row, !.pc = "stamp"])
    BY <1>4 DEF ReadForRewrite, ReadForReplace, Declines, At
  <2>2. CASE /\ At(p, "rewrite", "read") \/ At(p, "replace", "read")
             /\ proc[p].op = "replace" => ~LeftAlone(p, row)
             /\ Goto(p, [proc[p] EXCEPT !.seen = row, !.pc = "stamp"])
    <3> DEFINE k == [proc[p] EXCEPT !.seen = row, !.pc = "stamp"]
    <3>1. /\ k.op = proc[p].op /\ k.now = proc[p].now /\ k.seen = row
          /\ k.arg = proc[p].arg
      BY <1>0 DEF Local
    <3>2. proc[p].now = NULL
      BY <1>0, <2>2 DEF At, Prepared
    <3>3. Prepared(k)
      BY <2>2, <3>1, <3>2 DEF Prepared, LeftAlone
    <3> QED
      BY <1>1, <2>2, <3>3
  <2> QED
    BY <1>2, <2>1, <2>2
<1>5. ASSUME NEW p \in Procs, proc[p].op \notin {"rewrite", "replace"},
             NEW k, Goto(p, k), k.op = proc[p].op
      PROVE  AllPrepared'
  BY <1>1, <1>5 DEF Prepared
<1>6. ASSUME NEW p \in Procs,
             \/ ReadForUpsert(p) \/ ResolveSource(p) \/ ResolveTarget(p)
             \/ RequireEntity(p) \/ ReadForAlias(p) \/ CheckTwins(p)
      PROVE  AllPrepared'
  <2>1. proc[p].op \notin {"rewrite", "replace"}
    BY <1>6 DEF ReadForUpsert, ResolveSource, ResolveTarget, RequireEntity,
                ReadForAlias, CheckTwins, At
  <2>2. \A f, g : [proc[p] EXCEPT !.seen = f, !.pc = g].op = proc[p].op
    BY <1>0 DEF Local
  <2>3. \A g : [proc[p] EXCEPT !.pc = g].op = proc[p].op
    BY <1>0 DEF Local
  <2>4. \/ Finish(p)
        \/ \E f, g : Goto(p, [proc[p] EXCEPT !.seen = f, !.pc = g])
        \/ \E g : Goto(p, [proc[p] EXCEPT !.pc = g])
    BY <1>6 DEF ReadForUpsert, ResolveSource, ResolveTarget, RequireEntity,
                ReadForAlias, CheckTwins
  <2> QED
    BY <1>2, <1>5, <2>1, <2>2, <2>3, <2>4
<1>7. ASSUME NEW p \in Procs, ReadClock(p) PROVE AllPrepared'
  <2>1. PICK t \in Time, g \in {"read", "commit"} :
          /\ t = clock + 1
          /\ Goto(p, [proc[p] EXCEPT !.now = t, !.pc = g])
          /\ proc[p].op \in {"rewrite", "replace"} => g = "commit"
    BY <1>7 DEF ReadClock
  <2> DEFINE k == [proc[p] EXCEPT !.now = t, !.pc = g]
  <2>2. /\ k.op = proc[p].op /\ k.now = t /\ k.seen = proc[p].seen
        /\ k.arg = proc[p].arg /\ k.pc = g
    BY <1>0 DEF Local
  <2>3. proc[p].op \in {"rewrite", "replace"} /\ proc[p].seen # NULL =>
          proc[p].seen.from \in Nat /\ proc[p].seen.from <= clock
    BY DEF TokenInv, TokensName, Shown, NodeOps, TypeInv, WellFormed, NodeRow, Time
  <2>4. Prepared(k)
    BY <1>0, <2>1, <2>2, <2>3 DEF Prepared
  <2> QED
    BY <1>1, <2>1, <2>4
<1>8. ASSUME NEW p \in Procs, UpdateIfCurrent(p) \/ CreateIfAbsent(p)
      PROVE  AllPrepared'
  <2>1. Finish(p) \/ ReadAgain(p) \/ ThenBindName(p)
    BY <1>8 DEF UpdateIfCurrent, CreateIfAbsent, LoseAttempt
  <2>2. Prepared([Start(proc[p].op, "read", proc[p].arg)
                    EXCEPT !.tries = proc[p].tries + 1])
    BY DEF Prepared, Start
  <2>3. ReadAgain(p) => AllPrepared'
    BY <1>1, <2>2 DEF ReadAgain
  <2>4. ThenBindName(p) => AllPrepared'
    BY <1>1, <1>2, StartPrepared DEF ThenBindName
  <2> QED
    BY <1>2, <2>1, <2>3, <2>4
<1>9. ASSUME NEW p \in Procs, ProcStep(p) PROVE AllPrepared'
  BY <1>2, <1>3, <1>4, <1>6, <1>7, <1>8, <1>9
     DEF ProcStep, BeginRewrite, BeginReplace, BeginUpsert, BeginLink, BeginAlias,
         BeginBind, UpsertNode, UpsertEdge, UpsertAlias, BindAlias
<1>10. CASE UNCHANGED proc
  BY <1>10 DEF AllPrepared
<1> QED
  BY <1>9, <1>10 DEF Next, vars, DeleteNode, DeleteEdge, CompactVersions
-----------------------------------------------------------------------------
(* The versions of a node follow each other without gap or overlap.        *)

\* A closed version ends after it began, where the next one begins.
Succeeded ==
    \A r \in nodes : r.to # NULL =>
      r.from < r.to /\ \E s \in nodes : s.id = r.id /\ s.from = r.to

Ends(r, s) == r.to # NULL /\ r.to <= s.from

Apart == \A r, s \in nodes : r.id = s.id /\ r # s => Ends(r, s) \/ Ends(s, r)

HistoryInv ==
    /\ TypeInv /\ OneCurrentNode /\ HasCurrentNode /\ NoUpsert
    /\ TokenInv /\ AllPrepared

\* The version a conditional write replaces is the one its writer saw.
LEMMA UpdatesSeen ==
    ASSUME HistoryInv, NEW p \in Procs, UpdateIfCurrent(p),
           NEW old \in TokenMatches(proc[p])
    PROVE  /\ old = proc[p].seen /\ old \in nodes /\ old.id = proc[p].arg.id
           /\ old.to = NULL /\ old.from < proc[p].now
           /\ CurrentNode(proc[p].arg.id) = {old}
<1>1. Shown(p) /\ WellFormed(proc[p]) /\ proc[p].pc = "commit"
      /\ proc[p].op \in {"rewrite", "replace"}
  BY DEF UpdateIfCurrent, At, Shown, NodeOps, HistoryInv, TypeInv
<1>2. /\ old \in nodes /\ old.to = NULL /\ old.from = proc[p].seen.from
      /\ old.id = proc[p].arg.id
  BY DEF TokenMatches, CurrentNode, Current, NodeVersions
<1>3. proc[p].seen.id = proc[p].arg.id /\ proc[p].now \in Time
  BY <1>1 DEF WellFormed, Shown, NodeOps
<1>4. old = proc[p].seen
  BY <1>1, <1>2, <1>3 DEF HistoryInv, TokenInv, TokensName
<1>5. proc[p].now # NULL
  BY <1>3, GraphConstants DEF Time
<1>6. old.from < proc[p].now
  BY <1>1, <1>4, <1>5 DEF HistoryInv, AllPrepared, Prepared, Shown
<1>7. CurrentNode(proc[p].arg.id) = {old}
  BY <1>2 DEF CurrentNode, Current, NodeVersions, HistoryInv, OneCurrentNode
<1> QED
  BY <1>2, <1>4, <1>6, <1>7

LEMMA CommitFollows ==
    ASSUME HistoryInv, NEW p \in Procs, ProcStep(p), nodes' # nodes
    PROVE  \A r \in CurrentNode(proc[p].arg.id) : r.from < proc[p].now
<1>1. UpdateIfCurrent(p) \/ CreateIfAbsent(p)
  BY DEF HistoryInv, NoUpsert, At, ProcStep, Begin, BeginRewrite, BeginReplace,
         BeginUpsert, BeginLink, BeginAlias, BeginBind, ReadForRewrite,
         ReadForReplace, ReadForUpsert, ResolveSource, ResolveTarget,
         RequireEntity, ReadForAlias, CheckTwins, ReadClock, UpsertNode,
         UpsertEdge, UpsertAlias, BindAlias, tables
<1>2. CASE UpdateIfCurrent(p)
  <2>1. PICK old \in TokenMatches(proc[p]) : TRUE
    BY <1>2 DEF UpdateIfCurrent, LoseAttempt
  <2> QED
    BY <1>2, <2>1, UpdatesSeen
<1>3. CASE CreateIfAbsent(p)
  BY <1>3 DEF CreateIfAbsent, LoseAttempt
<1> QED
  BY <1>1, <1>2, <1>3

LEMMA HistoryStep ==
    Distinct /\ "upsert" \notin Ops /\ HistoryInv /\ [Next]_vars => HistoryInv'
BY TypeStep, OneCurrentNodeStep, HasCurrentNodeStep, NoUpsertStep, TokenStep,
   PreparedStep DEF HistoryInv

LEMMA HistoryInit == Init => HistoryInv
BY TypeInit, NodeInit, TokenInit, StartPrepared
   DEF HistoryInv, NodeInv, AllPrepared, Init

LEMMA TimelineStep ==
    ASSUME Distinct, HistoryInv, Succeeded, Apart, [Next]_vars
    PROVE  Succeeded' /\ Apart'
<1>0. /\ nodes \subseteq NodeRow /\ NULL \notin Nat
      /\ \A r \in nodes : r.from \in Nat /\ r.to \in Nat \cup {NULL}
  BY GraphConstants DEF HistoryInv, TypeInv, NodeRow, Time, Stamp
<1>1. ASSUME NEW p \in Procs, ProcStep(p), nodes' # nodes
      PROVE  Succeeded' /\ Apart'
  <2> DEFINE n == proc[p].arg.id
             t == proc[p].now
             cur == CurrentNode(n)
  <2>1. PICK new : Commits(p, new)
    BY <1>1, WriterStep DEF HistoryInv
  <2>2. /\ new \in NodeRow /\ new.id = n /\ new.from = t /\ new.to = NULL
        /\ nodes' = (nodes \ cur) \cup Closed(cur, t) \cup {new}
        /\ t \in Nat
    BY <2>1 DEF Commits, Replacing, HistoryInv, TypeInv, WellFormed, Time
  <2>3. \A r \in cur : r \in nodes /\ r.id = n /\ r.to = NULL /\ r.from < t
    BY <1>1, CommitFollows DEF CurrentNode, Current, NodeVersions
  <2>4. \A r \in nodes : r.id = n => \E c \in cur : r = c \/ Ends(r, c)
    <3>1. SUFFICES ASSUME NEW r \in nodes, r.id = n
                   PROVE  \E c \in cur : r = c \/ Ends(r, c)
      OBVIOUS
    <3>2. PICK c \in cur : TRUE
      BY <3>1 DEF HistoryInv, HasCurrentNode
    <3> QED
      BY <2>3, <3>1, <3>2 DEF Apart, Ends
  \* What became of a row that was there.
  <2>5. \A r \in Closed(cur, t) : \E c \in cur :
          /\ r.id = n /\ r.from = c.from /\ r.to = t
    BY <1>0, <2>3 DEF Closed, NodeRow
  <2>6. \A c, d \in cur : c = d
    BY <2>3 DEF HistoryInv, OneCurrentNode
  <2>7. \A r, s \in Closed(cur, t) : r = s
    BY <2>6 DEF Closed
  <2>8. \A s \in nodes : \E u \in nodes' : u.id = s.id /\ u.from = s.from
    <3>1. ASSUME NEW s \in cur PROVE \E u \in nodes' : u.id = s.id /\ u.from = s.from
      <4> DEFINE u == [s EXCEPT !.to = t]
      <4>1. u \in nodes'
        BY <2>2 DEF Closed
      <4>2. u.id = s.id /\ u.from = s.from
        BY <1>0, <2>3 DEF NodeRow
      <4> QED
        BY <4>1, <4>2
    <3> QED
      BY <2>2, <3>1
  <2>9. Succeeded'
    <3>1. ASSUME NEW r \in nodes \ cur, r.to # NULL
          PROVE  r.from < r.to /\ \E s \in nodes' : s.id = r.id /\ s.from = r.to
      <4>1. r.from < r.to /\ \E s \in nodes : s.id = r.id /\ s.from = r.to
        BY <3>1 DEF Succeeded
      <4> QED
        BY <2>8, <4>1
    <3>2. ASSUME NEW r \in Closed(cur, t)
          PROVE  r.from < r.to /\ \E s \in nodes' : s.id = r.id /\ s.from = r.to
      BY <2>2, <2>3, <2>5
    <3> QED
      BY <2>2, <3>1, <3>2 DEF Succeeded
  <2>10. Apart'
    <3>1. ASSUME NEW r \in nodes \ cur, NEW s \in nodes \ cur, r.id = s.id, r # s
          PROVE  Ends(r, s) \/ Ends(s, r)
      BY <3>1 DEF Apart
    <3>2. ASSUME NEW r \in nodes \ cur, NEW s \in Closed(cur, t) \cup {new}, r.id = s.id
          PROVE  Ends(r, s)
      <4>1. r.id = n
        BY <2>2, <2>5, <3>2
      <4>2. PICK c \in cur : Ends(r, c)
        BY <2>4, <3>2, <4>1
      <4>3. s.from = c.from \/ s.from = t
        BY <2>2, <2>5, <2>6, <3>2
      <4> QED
        BY <1>0, <2>2, <2>3, <4>2, <4>3 DEF Ends
    <3>3. ASSUME NEW r \in Closed(cur, t) PROVE Ends(r, new)
      BY <1>0, <2>2, <2>5 DEF Ends
    <3> QED
      BY <2>2, <2>7, <3>1, <3>2, <3>3 DEF Apart
  <2> QED
    BY <2>9, <2>10
<1>2. ASSUME NEW n \in NodeIds, DeleteNode(n) PROVE Succeeded' /\ Apart'
  BY <1>2 DEF DeleteNode, Succeeded, Apart
<1>3. ASSUME NEW before \in Time, CompactVersions(before) PROVE Succeeded' /\ Apart'
  <2>1. nodes' = nodes \ Expired(nodes, before)
    BY <1>3 DEF CompactVersions
  <2>2. Apart'
    BY <2>1 DEF Apart
  <2>3. ASSUME NEW r \in nodes', r.to # NULL
        PROVE  r.from < r.to /\ \E s \in nodes' : s.id = r.id /\ s.from = r.to
    <3>1. r \in nodes /\ r.to >= before
      BY <1>0, <2>1, <2>3 DEF Expired, Time
    <3>2. PICK s \in nodes : s.id = r.id /\ s.from = r.to
      BY <2>3, <3>1 DEF Succeeded
    <3>3. s.to # NULL => s.to > before
      BY <1>0, <2>3, <3>1, <3>2 DEF Succeeded, Time
    <3>4. s \in nodes'
      BY <1>0, <2>1, <3>2, <3>3 DEF Expired, Time
    <3> QED
      BY <2>3, <3>1, <3>2, <3>4 DEF Succeeded
  <2> QED
    BY <2>2, <2>3 DEF Succeeded
<1>4. CASE UNCHANGED nodes
  BY <1>4 DEF Succeeded, Apart
<1> QED
  BY <1>1, <1>2, <1>3, <1>4 DEF Next, vars, DeleteEdge

LEMMA LeastOfNaturals ==
    ASSUME NEW S, S \subseteq Nat, S # {}
    PROVE  \E x \in S : \A y \in S : x <= y
<1> DEFINE R == {ss \in Nat \X Nat : ss[1] < ss[2]}
<1>1. IsWellFoundedOn(R, Nat)
  BY NatLessThanWellFounded DEF OpToRel
<1>2. PICK x \in S : \A y \in S : ~(<<y, x>> \in R)
  <2> HIDE DEF R
  <2> QED
    BY <1>1, WFMin
<1>3. \A y \in S : ~(y < x)
  BY <1>2
<1> QED
  BY <1>3

LEMMA HistoryIsExact ==
    ASSUME HistoryInv, Succeeded, Apart, NEW r \in nodes, NEW t \in Time, r.from <= t
    PROVE  Cardinality(ValidAt(NodeVersions(r.id), t)) = 1
<1> DEFINE V == {v \in NodeVersions(r.id) : v.from <= t}
           S == {t - v.from : v \in V}
<1>0. \A v \in nodes : v.from \in Nat /\ v.to \in Nat \cup {NULL}
  BY DEF HistoryInv, TypeInv, NodeRow, Time, Stamp
<1>1. S \subseteq Nat /\ S # {}
  BY <1>0 DEF NodeVersions, Time
<1>2. PICK x \in S : \A y \in S : x <= y
  BY <1>1, LeastOfNaturals
<1>3. PICK v \in V : \A w \in V : t - v.from <= t - w.from
  BY <1>2
<1>4. v \in nodes /\ v.id = r.id /\ v.from <= t
  BY DEF NodeVersions
<1>5. \A w \in nodes : w.id = r.id /\ w.from <= t => w.from <= v.from
  <2> SUFFICES ASSUME NEW w \in nodes, w.id = r.id, w.from <= t PROVE w.from <= v.from
    OBVIOUS
  <2>1. w \in V
    BY DEF NodeVersions
  <2>2. t - v.from <= t - w.from
    BY <1>3, <2>1
  <2> QED
    BY <1>0, <1>4, <2>2 DEF Time
<1>6. v.to = NULL \/ v.to > t
  <2> SUFFICES ASSUME v.to # NULL, v.to <= t PROVE FALSE
    BY <1>0, <1>4 DEF Time
  <2>1. v.from < v.to /\ \E s \in nodes : s.id = r.id /\ s.from = v.to
    BY <1>4 DEF Succeeded
  <2> QED
    BY <1>0, <1>4, <1>5, <2>1
<1>7. ValidAt(NodeVersions(r.id), t) = {v}
  <2>1. \A w \in ValidAt(NodeVersions(r.id), t) : w = v
    BY <1>0, <1>4, <1>6 DEF Apart, Ends, ValidAt, NodeVersions, Time
  <2>2. v \in ValidAt(NodeVersions(r.id), t)
    BY <1>4, <1>6 DEF ValidAt, NodeVersions
  <2> QED
    BY <2>1, <2>2
<1> QED
  BY <1>7, FS_Singleton

\* With every node written by the conditional writers and no two of them
\* reading the clock in one microsecond, an as_of read finds exactly one
\* version of a node at every instant since its oldest, whatever was purged,
\* compacted or lost a race.
THEOREM TimelineAlwaysExact ==
    ASSUME Distinct, "upsert" \notin Ops
    PROVE  Spec => []TimelineExact
<1> DEFINE Inv == HistoryInv /\ Succeeded /\ Apart
<1>1. Init => Inv
  BY HistoryInit DEF Init, Succeeded, Apart
<1>2. Inv /\ [Next]_vars => Inv'
  BY HistoryStep, TimelineStep
<1>3. Inv => TimelineExact
  BY HistoryIsExact DEF TimelineExact
<1> QED
  BY <1>1, <1>2, <1>3, PTL DEF Spec
-----------------------------------------------------------------------------
(* The conditional writers implement NodeRegister.                         *)

Values == [n \in NodeIds |-> AbstractNode(n)]
Commands == [p \in Procs |-> AbstractIntent(p)]

\* The command a writer with these locals has under way.
CommandOf(l) ==
    CASE l.op = "rewrite" ->
           [id |-> l.arg.id, name |-> l.arg.name, role |-> NULL, ifAbsent |-> FALSE]
      [] l.op = "replace" -> l.arg
      [] OTHER -> NULL

LEMMA CommandsMove ==
    ASSUME TypeInv, NEW p \in Procs, NEW k, Goto(p, k)
    PROVE  /\ Commands[p] = CommandOf(proc[p])
           /\ Commands' = [Commands EXCEPT ![p] = CommandOf(k)]
<1>1. \A q \in Procs : AbstractIntent(q) = CommandOf(proc[q])
  BY DEF AbstractIntent, CommandOf
<1>2. \A q \in Procs : AbstractIntent(q)' = CommandOf(proc'[q])
  BY DEF AbstractIntent, CommandOf
<1>3. proc'[p] = k /\ \A q \in Procs : q # p => proc'[q] = proc[q]
  BY DEF TypeInv, Goto
<1>4. Commands' = [q \in Procs |-> CommandOf(proc'[q])]
  BY <1>2 DEF Commands
<1>5. Commands = [q \in Procs |-> CommandOf(proc[q])]
  BY <1>1 DEF Commands
<1> QED
  BY <1>3, <1>4, <1>5

LEMMA CommandsType ==
    ASSUME NEW l, WellFormed(l)
    PROVE  /\ l.op = "rewrite" => CommandOf(l) \in Register!Command /\ CommandOf(l) # NULL
           /\ l.op = "replace" => CommandOf(l) \in Register!Command /\ CommandOf(l) # NULL
           /\ l.op \notin {"rewrite", "replace"} => CommandOf(l) = NULL
<1>1. \A a \in RewriteArgs :
        [id |-> a.id, name |-> a.name, role |-> NULL, ifAbsent |-> FALSE] \in Register!Command
  BY DEF RewriteArgs, Register!Command
<1>2. ReplaceArgs \subseteq Register!Command
  BY DEF ReplaceArgs, Register!Command
<1> QED
  BY <1>1, <1>2, NullIsApart DEF WellFormed, CommandOf

LEMMA ValuesStay ==
    ASSUME \A n \in NodeIds : CurrentNode(n)' = CurrentNode(n)
    PROVE  Values' = Values
BY DEF Values, AbstractNode

LEMMA ValueOf ==
    ASSUME NEW n, NEW r, CurrentNode(n) = {r}
    PROVE  AbstractNode(n) = [name |-> r.name, role |-> r.role]
BY DEF AbstractNode

LEMMA ValueReplaced ==
    ASSUME TypeInv, NEW n \in NodeIds, NEW t \in Time, NEW new \in NodeRow,
           new.id = n, new.to = NULL,
           nodes' = Replacing(nodes, CurrentNode(n), t, new)
    PROVE  Values' = [Values EXCEPT ![n] = [name |-> new.name, role |-> new.role]]
<1>1. \A m \in NodeIds : m # n => CurrentNode(m)' = CurrentNode(m)
  BY GraphConstants DEF Replacing, Closed, CurrentNode, Current, NodeVersions,
                        TypeInv, NodeRow, Time
<1>2. CurrentNode(n)' = {new}
  BY GraphConstants DEF Replacing, Closed, CurrentNode, Current, NodeVersions,
                        TypeInv, NodeRow, Time
<1>3. AbstractNode(n)' = [name |-> new.name, role |-> new.role]
  BY <1>2 DEF AbstractNode
<1>4. \A m \in NodeIds : m # n => AbstractNode(m)' = AbstractNode(m)
  BY <1>1 DEF AbstractNode
<1> QED
  BY <1>3, <1>4 DEF Values

RegisterStep(p) ==
    \/ Register!Take(p) \/ Register!Drop(p)
    \/ Register!Create(p) \/ Register!Change(p)
    \/ Values' = Values /\ Commands' = Commands

\* A command is taken up, goes on unchanged, or is dropped.
LEMMA StepsAside ==
    ASSUME HistoryInv, NEW p \in Procs, NEW k, WellFormed(k), Goto(p, k),
           UNCHANGED nodes,
           \/ proc[p] = Idle
           \/ k.op = proc[p].op /\ k.arg = proc[p].arg
           \/ k.op \notin {"rewrite", "replace"}
    PROVE  RegisterStep(p)
<1>1. Values' = Values
  BY ValuesStay DEF CurrentNode, Current, NodeVersions
<1>2. /\ Commands[p] = CommandOf(proc[p])
      /\ Commands' = [Commands EXCEPT ![p] = CommandOf(k)]
  BY CommandsMove DEF HistoryInv
<1>3. CommandOf(k) = Commands[p] => Commands' = Commands
  BY <1>2 DEF Commands
<1>4. CASE proc[p] = Idle
  <2>1. Commands[p] = NULL
    BY <1>2, <1>4 DEF CommandOf, Idle, Start
  <2>2. CommandOf(k) = NULL \/ CommandOf(k) \in Register!Command
    BY CommandsType
  <2>3. CASE CommandOf(k) = NULL
    BY <1>1, <1>3, <2>1, <2>3 DEF RegisterStep
  <2>4. CASE CommandOf(k) \in Register!Command
    BY <1>1, <1>2, <2>1, <2>4 DEF RegisterStep, Register!Take, Values, Commands
  <2> QED
    BY <2>2, <2>3, <2>4
<1>5. CASE k.op = proc[p].op /\ k.arg = proc[p].arg
  <2>1. CommandOf(k) = CommandOf(proc[p])
    BY <1>5 DEF CommandOf
  <2> QED
    BY <1>1, <1>2, <1>3, <2>1 DEF RegisterStep
<1>6. CASE k.op \notin {"rewrite", "replace"}
  <2>1. CommandOf(k) = NULL
    BY <1>6, CommandsType
  <2>2. CASE Commands[p] = NULL
    BY <1>1, <1>3, <2>1, <2>2 DEF RegisterStep
  <2>3. CASE Commands[p] # NULL
    BY <1>1, <1>2, <2>1, <2>3 DEF RegisterStep, Register!Drop, Values, Commands
  <2> QED
    BY <2>2, <2>3
<1> QED
  BY <1>4, <1>5, <1>6

\* Where a write lands, the command takes effect and is done.
LEMMA AfterWrite ==
    ASSUME HistoryInv, NEW p \in Procs, proc[p].op \in {"rewrite", "replace"},
           ThenBindName(p)
    PROVE  /\ Commands[p] = CommandOf(proc[p])
           /\ Commands' = [Commands EXCEPT ![p] = NULL]
<1>1. ASSUME NEW k, Goto(p, k), k.op \notin {"rewrite", "replace"}
      PROVE  /\ Commands[p] = CommandOf(proc[p])
             /\ Commands' = [Commands EXCEPT ![p] = NULL]
  BY <1>1, CommandsMove DEF HistoryInv, CommandOf
<1> QED
  BY <1>1 DEF ThenBindName, Finish, Idle, Start

LEMMA StepsUpdate ==
    ASSUME HistoryInv, NEW p \in Procs, UpdateIfCurrent(p)
    PROVE  RegisterStep(p)
<1> DEFINE l == proc[p]
           c == CommandOf(l)
<1>0. /\ WellFormed(l) /\ l.op \in {"rewrite", "replace"} /\ l.pc = "commit"
      /\ l.seen # NULL /\ l.now \in Time /\ TypeInv /\ Prepared(l)
  BY DEF UpdateIfCurrent, At, HistoryInv, TypeInv, WellFormed, AllPrepared
<1>1. CASE LoseAttempt(p) \/ (Finish(p) /\ UNCHANGED nodes)
  <2>1. WellFormed(Idle) /\ Idle.op \notin {"rewrite", "replace"}
    BY StartWellFormed DEF Idle, Start
  <2>2. Finish(p) /\ UNCHANGED nodes => RegisterStep(p)
    BY <2>1, StepsAside DEF Finish
  <2> DEFINE k == [Start(l.op, "read", l.arg) EXCEPT !.tries = l.tries + 1]
  <2>3. ASSUME ReadAgain(p), UNCHANGED nodes, l.tries + 1 < Attempts
        PROVE  RegisterStep(p)
    <3>1. l.tries + 1 \in 0..(Attempts - 1)
      BY <1>0, <2>3, GraphConstants DEF WellFormed, Local
    <3>2. WellFormed(Start(l.op, "read", l.arg))
      BY <1>0, StartWellFormed DEF WellFormed
    <3>3. WellFormed(k) /\ k.op = l.op /\ k.arg = l.arg
      BY <3>1, <3>2 DEF WellFormed, Local, Start
    <3> QED
      BY <2>3, <3>3, StepsAside DEF ReadAgain
  <2> QED
    BY <1>1, <2>2, <2>3 DEF LoseAttempt
<1>2. ASSUME NEW old \in TokenMatches(l), RoleKept(old, NodeWrite(l, old.created)),
             nodes' = Replacing(nodes, {old}, l.now, NodeWrite(l, old.created)),
             ThenBindName(p)
      PROVE  RegisterStep(p)
  <2> DEFINE new == NodeWrite(l, old.created)
             n == l.arg.id
  <2>1. /\ old = l.seen /\ old \in nodes /\ old.id = n /\ old.to = NULL
        /\ CurrentNode(n) = {old}
    BY UpdatesSeen
  <2>2. old \in NodeRow /\ old.created \in Time /\ n \in NodeIds
    BY <1>0, <2>1 DEF TypeInv, NodeRow
  <2>3. /\ new \in NodeRow /\ new.id = n /\ new.to = NULL
        /\ new.role = NewRole(l) /\ new.name = NewName(l)
    BY <1>0, <2>2, NodeWriteRow
  <2>4. Values' = [Values EXCEPT ![n] = [name |-> new.name, role |-> new.role]]
    BY <1>0, <1>2, <2>1, <2>2, <2>3, ValueReplaced
  <2>5. Values[n] = [name |-> old.name, role |-> old.role]
    BY <2>1, <2>2, ValueOf DEF Values
  <2>6. Commands[p] = c /\ Commands' = [Commands EXCEPT ![p] = NULL]
    BY <1>0, <1>2, AfterWrite
  <2>7. /\ c # NULL /\ c.id = n /\ ~c.ifAbsent
        /\ c.role \in {NULL, old.role}
        /\ new.name = IF c.name = NULL THEN old.name ELSE c.name
        /\ new.role = old.role
    <3>1. c # NULL
      BY <1>0, CommandsType
    <3>2. CASE l.op = "rewrite"
      BY <2>1, <2>3, <3>1, <3>2 DEF CommandOf, NewName, NewRole
    <3>3. CASE l.op = "replace"
      BY <1>0, <1>2, <2>1, <2>3, <3>1, <3>3
         DEF CommandOf, NewName, NewRole, RoleKept, Prepared
    <3> QED
      BY <1>0, <3>2, <3>3
  <2> DEFINE name == IF c.name = NULL THEN old.name ELSE c.name
  <2>8. Values' = [Values EXCEPT ![n].name = IF c.name = NULL THEN @ ELSE c.name]
    <3>1. Values' = [Values EXCEPT ![n] = [name |-> name, role |-> old.role]]
      BY <2>4, <2>7
    <3>2. [Values[n] EXCEPT !.name = name] = [name |-> name, role |-> old.role]
      BY <2>5
    <3>3. Values[n].name = old.name
      BY <2>5
    <3> QED
      BY <3>1, <3>2, <3>3
  <2>9. Values[n] # NULL /\ Values[n].role = old.role
    <3>1. old.name \in Names /\ old.role \in Roles
      BY <2>2 DEF NodeRow
    <3> QED
      BY <2>5, <3>1, NullIsApart
  <2>10. Register!Change(p)
    BY <2>6, <2>7, <2>8, <2>9 DEF Register!Change, Values, Commands
  <2> QED
    BY <2>10 DEF RegisterStep
<1> QED
  BY <1>1, <1>2 DEF UpdateIfCurrent

LEMMA StepsCreate ==
    ASSUME HistoryInv, NEW p \in Procs, CreateIfAbsent(p)
    PROVE  RegisterStep(p)
<1> DEFINE l == proc[p]
           c == CommandOf(l)
           n == l.arg.id
           new == NodeWrite(l, l.now)
<1>0. /\ WellFormed(l) /\ l.op = "replace" /\ l.pc = "commit" /\ l.seen = NULL
      /\ l.now \in Time /\ l.arg \in ReplaceArgs /\ TypeInv /\ n \in NodeIds
  BY DEF CreateIfAbsent, At, HistoryInv, TypeInv, WellFormed, ReplaceArgs
<1>1. CASE LoseAttempt(p)
  <2>1. WellFormed(Idle) /\ Idle.op \notin {"rewrite", "replace"}
    BY StartWellFormed DEF Idle, Start
  <2>2. Finish(p) /\ UNCHANGED nodes => RegisterStep(p)
    BY <2>1, StepsAside DEF Finish
  <2> DEFINE k == [Start(l.op, "read", l.arg) EXCEPT !.tries = l.tries + 1]
  <2>3. ASSUME ReadAgain(p), UNCHANGED nodes, l.tries + 1 < Attempts
        PROVE  RegisterStep(p)
    <3>1. l.tries + 1 \in 0..(Attempts - 1)
      BY <1>0, <2>3, GraphConstants DEF WellFormed, Local
    <3>2. WellFormed(Start(l.op, "read", l.arg))
      BY <1>0, StartWellFormed
    <3>3. WellFormed(k) /\ k.op = l.op /\ k.arg = l.arg
      BY <3>1, <3>2 DEF WellFormed, Local, Start
    <3> QED
      BY <2>3, <3>3, StepsAside DEF ReadAgain
  <2> QED
    BY <1>1, <2>2, <2>3 DEF LoseAttempt
<1>2. CASE /\ CurrentNode(n) = {} /\ nodes' = nodes \cup {new} /\ ThenBindName(p)
  <2>1. /\ new \in NodeRow /\ new.id = n /\ new.to = NULL
        /\ new.role = l.arg.role /\ new.name = l.arg.name
    BY <1>0, NodeWriteRow, GraphConstants DEF NewName, NewRole, ReplaceArgs
  <2>2. nodes' = Replacing(nodes, CurrentNode(n), l.now, new)
    BY <1>2 DEF Replacing, Closed
  <2>3. Values' = [Values EXCEPT ![n] = [name |-> l.arg.name, role |-> l.arg.role]]
    BY <1>0, <2>1, <2>2, ValueReplaced
  <2>4. Values[n] = NULL
    BY <1>0, <1>2 DEF Values, AbstractNode
  <2>5. Commands[p] = c /\ Commands' = [Commands EXCEPT ![p] = NULL]
    BY <1>0, <1>2, AfterWrite
  <2>6. c # NULL /\ c = l.arg /\ c.role # NULL
    BY <1>0, CommandsType, GraphConstants DEF CommandOf, ReplaceArgs
  <2> QED
    BY <2>3, <2>4, <2>5, <2>6 DEF RegisterStep, Register!Create, Values, Commands
<1> QED
  BY <1>0, <1>1, <1>2 DEF CreateIfAbsent

LEMMA StepsOfWriters ==
    ASSUME Distinct, HistoryInv, NEW p \in Procs, ProcStep(p)
    PROVE  RegisterStep(p)
<1>0. /\ TypeInv /\ WellFormed(proc[p]) /\ proc[p] \in Local
      /\ TypeInv'
  BY TypeStep DEF HistoryInv, TypeInv, WellFormed, Next
<1>1. ASSUME NEW k, Goto(p, k) PROVE WellFormed(k)
  <2>1. proc'[p] = k
    BY <1>0, <1>1 DEF TypeInv, Goto
  <2> QED
    BY <1>0, <2>1 DEF TypeInv, WellFormed
<1>2. ASSUME Finish(p), UNCHANGED nodes PROVE RegisterStep(p)
  BY <1>2, StartWellFormed, StepsAside DEF Finish, Idle, Start
<1>3. ASSUME NEW k, Goto(p, k), k.op = proc[p].op, k.arg = proc[p].arg, UNCHANGED nodes
      PROVE  RegisterStep(p)
  BY <1>1, <1>3, StepsAside
<1>4. CASE \/ BeginRewrite(p) \/ BeginReplace(p) \/ BeginUpsert(p)
           \/ BeginLink(p) \/ BeginAlias(p) \/ BeginBind(p)
  <2>1. PICK k : Begin(p, k)
    BY <1>4 DEF BeginRewrite, BeginReplace, BeginUpsert, BeginLink, BeginAlias, BeginBind
  <2> QED
    BY <1>1, <2>1, StepsAside DEF Begin, tables
<1>5. CASE \/ ReadForRewrite(p) \/ ReadForReplace(p) \/ ReadForUpsert(p)
           \/ ResolveSource(p) \/ ResolveTarget(p) \/ RequireEntity(p)
           \/ ReadForAlias(p) \/ CheckTwins(p) \/ ReadClock(p)
  <2>1. UNCHANGED nodes
    BY <1>5 DEF ReadForRewrite, ReadForReplace, ReadForUpsert, ResolveSource,
                ResolveTarget, RequireEntity, ReadForAlias, CheckTwins, ReadClock, tables
  <2>2. /\ \A f, g : [proc[p] EXCEPT !.seen = f, !.pc = g].op = proc[p].op
        /\ \A f, g : [proc[p] EXCEPT !.seen = f, !.pc = g].arg = proc[p].arg
        /\ \A g : [proc[p] EXCEPT !.pc = g].op = proc[p].op
        /\ \A g : [proc[p] EXCEPT !.pc = g].arg = proc[p].arg
        /\ \A f, g : [proc[p] EXCEPT !.now = f, !.pc = g].op = proc[p].op
        /\ \A f, g : [proc[p] EXCEPT !.now = f, !.pc = g].arg = proc[p].arg
    BY <1>0 DEF Local
  <2>3. \/ Finish(p)
        \/ \E f, g : Goto(p, [proc[p] EXCEPT !.seen = f, !.pc = g])
        \/ \E g : Goto(p, [proc[p] EXCEPT !.pc = g])
        \/ \E f, g : Goto(p, [proc[p] EXCEPT !.now = f, !.pc = g])
    BY <1>5 DEF ReadForRewrite, ReadForReplace, ReadForUpsert, ResolveSource,
                ResolveTarget, RequireEntity, ReadForAlias, CheckTwins, ReadClock, Declines
  <2> QED
    BY <1>2, <1>3, <2>1, <2>2, <2>3
<1>6. CASE UpsertEdge(p) \/ UpsertAlias(p) \/ BindAlias(p)
  BY <1>2, <1>6 DEF UpsertEdge, UpsertAlias, BindAlias
<1>7. ~UpsertNode(p)
  BY DEF HistoryInv, NoUpsert, UpsertNode, At
<1> QED
  BY <1>4, <1>5, <1>6, <1>7, StepsUpdate, StepsCreate DEF ProcStep

\* What else happens to the graph is a purge of a node, or nothing a register
\* shows.
LEMMA StepsOfOthers ==
    ASSUME HistoryInv,
           \/ \E n \in NodeIds : DeleteNode(n)
           \/ \E e : DeleteEdge(e)
           \/ \E t \in Time : CompactVersions(t)
           \/ UNCHANGED vars
    PROVE  \/ \E n \in NodeIds : Register!Purge(n)
           \/ Values' = Values /\ Commands' = Commands
<1>1. UNCHANGED proc /\ Commands' = Commands
  BY DEF DeleteNode, DeleteEdge, CompactVersions, vars, Commands, AbstractIntent
<1>2. ASSUME NEW n \in NodeIds, DeleteNode(n) PROVE Register!Purge(n)
  <2>1. \A m \in NodeIds : CurrentNode(m)' = IF m = n THEN {} ELSE CurrentNode(m)
    BY <1>2 DEF DeleteNode, CurrentNode, Current, NodeVersions
  <2>2. \A m \in NodeIds : AbstractNode(m)' = IF m = n THEN NULL ELSE AbstractNode(m)
    BY <2>1 DEF AbstractNode
  <2>3. Values' = [Values EXCEPT ![n] = NULL]
    BY <2>2 DEF Values
  <2> QED
    BY <1>1, <2>3 DEF Register!Purge, Values, Commands
<1>3. ASSUME NEW t \in Time, CompactVersions(t) PROVE Values' = Values
  BY <1>3, ValuesStay DEF CompactVersions, Expired, CurrentNode, Current, NodeVersions
<1>4. ASSUME UNCHANGED nodes PROVE Values' = Values
  BY <1>4, ValuesStay DEF CurrentNode, Current, NodeVersions
<1> QED
  BY <1>1, <1>2, <1>3, <1>4 DEF DeleteEdge, vars

\* entity.create, entity.update and the writers that share their store calls
\* behave as atomic read-modify-writes of registers: every step is a step of
\* NodeRegister or shows nothing, for any number of writers and of attempts.
THEOREM CommandsAreAtomic ==
    ASSUME Distinct, "upsert" \notin Ops
    PROVE  Spec => ImplementsRegister
<1>1. Init => Register!Init
  BY DEF Init, Register!Init, AbstractNode, AbstractIntent, CurrentNode, Current,
         NodeVersions, Idle, Start
<1>2. HistoryInv /\ [Next]_vars => [Register!Next]_<<Values, Commands>>
  BY StepsOfWriters, StepsOfOthers DEF Next, Register!Next, RegisterStep
<1>3. HistoryInv /\ [Next]_vars => HistoryInv'
  BY HistoryStep
<1> QED
  BY <1>1, <1>2, <1>3, HistoryInit, PTL
     DEF Spec, ImplementsRegister, Register!Spec, Values, Commands
-----------------------------------------------------------------------------
(* Edges and aliases.                                                      *)

IdsUsed == \A r \in edges \cup aliases : r.id <= ulids

Holds(l) == l.op = "alias" /\ l.seen # NULL

\* An alias writer's row keeps its id to itself, even once it is purged: ids
\* are not used again.
SeenAlias(l) ==
    Holds(l) =>
      /\ l.seen.key = l.arg.key
      /\ l.seen.id <= ulids
      /\ \A r \in aliases : r.id = l.seen.id =>
           r.key = l.seen.key /\ r.created = l.seen.created

SeenAgree ==
    \A p, q \in Procs :
      Holds(proc[p]) /\ Holds(proc[q]) /\ proc[p].seen.id = proc[q].seen.id =>
        proc[p].seen.key = proc[q].seen.key /\ proc[p].seen.created = proc[q].seen.created

LinkInv ==
    /\ TypeInv /\ LinksAgree /\ IdsUsed /\ SeenAgree
    /\ \A p \in Procs : SeenAlias(proc[p])

\* Where the row an alias writer holds comes from.
LEMMA AliasLocals ==
    ASSUME TypeInv, NEW p \in Procs, ProcStep(p)
    PROVE  /\ \A q \in Procs : q # p => proc'[q] = proc[q]
           /\ proc'[p].op = "alias" /\ proc'[p].seen # NULL =>
                \/ /\ proc[p].op = "alias" /\ proc'[p].seen = proc[p].seen
                   /\ proc'[p].arg = proc[p].arg
                \/ /\ proc'[p].seen \in CurrentAlias(proc'[p].arg.key)
                   /\ UNCHANGED <<edges, aliases, ulids>>
<1>0. proc \in [Procs -> Local] /\ proc[p] \in Local
  BY DEF TypeInv
<1>1. ASSUME NEW k, Goto(p, k)
      PROVE  proc'[p] = k /\ \A q \in Procs : q # p => proc'[q] = proc[q]
  BY <1>0, <1>1 DEF Goto
<1> DEFINE Kept == /\ \A q \in Procs : q # p => proc'[q] = proc[q]
                   /\ proc'[p].op = "alias" /\ proc'[p].seen # NULL =>
                        /\ proc[p].op = "alias" /\ proc'[p].seen = proc[p].seen
                        /\ proc'[p].arg = proc[p].arg
<1>2. ASSUME NEW k, Goto(p, k), k.seen = NULL PROVE Kept
  BY <1>1, <1>2
<1>3. Finish(p) => Kept
  BY <1>2, RestartBlank DEF Finish
<1>4. CASE \/ BeginRewrite(p) \/ BeginReplace(p) \/ BeginUpsert(p)
           \/ BeginLink(p) \/ BeginAlias(p) \/ BeginBind(p)
  <2>1. PICK op, pc, a : Begin(p, Start(op, pc, a))
    BY <1>4 DEF BeginRewrite, BeginReplace, BeginUpsert, BeginLink, BeginAlias,
                BeginBind
  <2> QED
    BY <1>2, <2>1, RestartBlank DEF Begin
<1>5. ASSUME NEW f, NEW g, Goto(p, [proc[p] EXCEPT !.seen = f, !.pc = g]),
             proc[p].op # "alias"
      PROVE  Kept
  <2>1. [proc[p] EXCEPT !.seen = f, !.pc = g].op = proc[p].op
    BY <1>0 DEF Local
  <2> QED
    BY <1>1, <1>5, <2>1
<1>6. ASSUME NEW g, Goto(p, [proc[p] EXCEPT !.pc = g]) PROVE Kept
  <2>1. /\ [proc[p] EXCEPT !.pc = g].op = proc[p].op
        /\ [proc[p] EXCEPT !.pc = g].seen = proc[p].seen
        /\ [proc[p] EXCEPT !.pc = g].arg = proc[p].arg
    BY <1>0 DEF Local
  <2> QED
    BY <1>1, <1>6, <2>1
<1>7. ASSUME NEW f, NEW g, Goto(p, [proc[p] EXCEPT !.now = f, !.pc = g]) PROVE Kept
  <2>1. /\ [proc[p] EXCEPT !.now = f, !.pc = g].op = proc[p].op
        /\ [proc[p] EXCEPT !.now = f, !.pc = g].seen = proc[p].seen
        /\ [proc[p] EXCEPT !.now = f, !.pc = g].arg = proc[p].arg
    BY <1>0 DEF Local
  <2> QED
    BY <1>1, <1>7, <2>1
<1>8. CASE \/ ReadForRewrite(p) \/ ReadForReplace(p) \/ ReadForUpsert(p)
           \/ ResolveSource(p) \/ ResolveTarget(p) \/ RequireEntity(p)
           \/ CheckTwins(p) \/ ReadClock(p)
  <2>1. \/ Finish(p)
        \/ proc[p].op # "alias" /\ \E f, g : Goto(p, [proc[p] EXCEPT !.seen = f, !.pc = g])
        \/ \E g : Goto(p, [proc[p] EXCEPT !.pc = g])
        \/ \E f, g : Goto(p, [proc[p] EXCEPT !.now = f, !.pc = g])
    BY <1>8 DEF ReadForRewrite, ReadForReplace, ReadForUpsert, ResolveSource,
                ResolveTarget, RequireEntity, CheckTwins, ReadClock, Declines, At
  <2> QED
    BY <1>3, <1>5, <1>6, <1>7, <2>1
<1>9. CASE ReadForAlias(p)
  <2>1. PICK row \in Fetch(CurrentAlias(proc[p].arg.key)) :
          Goto(p, [proc[p] EXCEPT !.seen = row, !.pc = "commit"])
    BY <1>9 DEF ReadForAlias
  <2>2. /\ [proc[p] EXCEPT !.seen = row, !.pc = "commit"].seen = row
        /\ [proc[p] EXCEPT !.seen = row, !.pc = "commit"].arg = proc[p].arg
    BY <1>0 DEF Local
  <2>3. row # NULL => row \in CurrentAlias(proc[p].arg.key)
    BY DEF Fetch
  <2>4. UNCHANGED <<edges, aliases, ulids>>
    BY <1>9 DEF ReadForAlias, tables
  <2> QED
    BY <1>1, <2>1, <2>2, <2>3, <2>4
<1>10. CASE UpdateIfCurrent(p) \/ CreateIfAbsent(p)
  <2>1. Finish(p) \/ ReadAgain(p) \/ ThenBindName(p)
    BY <1>10 DEF UpdateIfCurrent, CreateIfAbsent, LoseAttempt
  <2>2. [Start(proc[p].op, "read", proc[p].arg)
           EXCEPT !.tries = proc[p].tries + 1].seen = NULL
    BY DEF Start
  <2> QED
    BY <1>2, <1>3, <2>1, <2>2, ThenBindBlank DEF ReadAgain
<1>11. CASE UpsertNode(p) \/ UpsertEdge(p) \/ UpsertAlias(p) \/ BindAlias(p)
  BY <1>3, <1>11 DEF UpsertNode, UpsertEdge, UpsertAlias, BindAlias
<1> QED
  BY <1>4, <1>8, <1>9, <1>10, <1>11 DEF ProcStep

LEMMA EdgesStep ==
    ASSUME LinkInv, NEW p \in Procs, UpsertEdge(p)
    PROVE  LinkInv'
<1> DEFINE l == proc[p]
<1>0. /\ TypeInv' /\ edges \subseteq EdgeRow /\ ulids \in Nat /\ l.now \in Time
      /\ UNCHANGED aliases /\ NULL \notin Nat
      /\ \A q \in Procs : q # p => proc'[q] = proc[q]
      /\ proc'[p] = Idle
  BY TypeUpsertEdge, GraphConstants
     DEF LinkInv, TypeInv, UpsertEdge, At, WellFormed, Finish, Goto
<1>1. ASSUME NEW i \in Nat, NEW c, NEW old, old \subseteq Current(edges),
             ulids' \in {ulids, ulids + 1}, i <= ulids',
             edges' = Replacing(edges, old, l.now, EdgeWrite(l, i, c)),
             \A r \in Current(edges) : r.src = l.arg.src /\ r.dst = l.arg.dst => r \in old,
             \A r \in edges : r.id = i =>
               /\ r.src = l.arg.src /\ r.dst = l.arg.dst /\ r.created = c
               /\ r.to = NULL => r \in old
      PROVE  LinkInv'
  <2> DEFINE new == EdgeWrite(l, i, c)
  <2>1. /\ new.id = i /\ new.src = l.arg.src /\ new.dst = l.arg.dst
        /\ new.created = c /\ new.to = NULL
    BY DEF EdgeWrite
  <2>2. \A r \in Closed(old, l.now) : /\ r.to # NULL
                                      /\ \E s \in edges : /\ r.id = s.id /\ r.src = s.src
                                                          /\ r.dst = s.dst
                                                          /\ r.created = s.created
    BY <1>0, <1>1 DEF Closed, Current, EdgeRow, Time
  <2>3. edges' = (edges \ old) \cup Closed(old, l.now) \cup {new}
    BY <1>1 DEF Replacing
  <2>4. \A r \in edges' : r = new \/ \E s \in edges : /\ r.id = s.id /\ r.src = s.src
                                                      /\ r.dst = s.dst
                                                      /\ r.created = s.created
    BY <2>2, <2>3
  <2>5. \A r \in Current(edges') : r = new \/ (r \in Current(edges) /\ r \notin old)
    BY <2>2, <2>3 DEF Current
  <2>6. \A r, s \in edges' : r.id = s.id =>
          r.src = s.src /\ r.dst = s.dst /\ r.created = s.created
    BY <1>1, <2>1, <2>4 DEF LinkInv, LinksAgree
  <2>7. \A r, s \in Current(edges') :
          r.id = s.id \/ (r.src = s.src /\ r.dst = s.dst) => r = s
    <3>1. ASSUME NEW r \in Current(edges), r \notin old,
                 r.id = i \/ (r.src = l.arg.src /\ r.dst = l.arg.dst)
          PROVE  FALSE
      BY <1>1, <3>1 DEF Current
    <3>2. \A r, s \in Current(edges) :
            r.id = s.id \/ (r.src = s.src /\ r.dst = s.dst) => r = s
      BY DEF LinkInv, LinksAgree
    <3> QED
      BY <2>1, <2>5, <3>1, <3>2
  <2>8. LinksAgree'
    BY <1>0, <2>6, <2>7 DEF LinkInv, LinksAgree, Current
  <2>9. IdsUsed'
    <3>1. \A r \in edges \cup aliases : r.id \in Nat /\ r.id <= ulids
      BY DEF LinkInv, TypeInv, EdgeRow, AliasRow, IdsUsed
    <3> QED
      BY <1>0, <1>1, <2>1, <2>4, <3>1 DEF IdsUsed
  <2>10. \A q \in Procs : SeenAlias(proc[q])'
    <3>1. \A q \in Procs : proc[q].op = "alias" /\ proc[q].seen # NULL =>
            proc[q].seen.id \in Nat
      BY DEF LinkInv, TypeInv, WellFormed, AliasRow
    <3> QED
      BY <1>0, <1>1, <3>1, RestartBlank DEF LinkInv, SeenAlias, Holds
  <2>11. SeenAgree'
    BY <1>0, RestartBlank DEF LinkInv, SeenAgree, Holds
  <2> QED
    BY <1>0, <2>8, <2>9, <2>10, <2>11 DEF LinkInv
<1>2. CASE /\ CurrentEdge(l.arg.src, l.arg.dst) = {} /\ NewId
           /\ edges' = edges \cup {EdgeWrite(l, ulids', l.now)}
  <2>1. ulids' = ulids + 1
    BY <1>2 DEF NewId
  <2>2. \A r \in edges : r.id \in Nat /\ r.id # ulids + 1
    BY <1>0 DEF LinkInv, IdsUsed, EdgeRow
  <2>3. edges' = Replacing(edges, {}, l.now, EdgeWrite(l, ulids + 1, l.now))
    BY <1>2, <2>1 DEF Replacing, Closed
  <2>4. \A r \in Current(edges) : ~(r.src = l.arg.src /\ r.dst = l.arg.dst)
    BY <1>2 DEF CurrentEdge, Current
  <2> QED
    BY <1>0, <1>1, <2>1, <2>2, <2>3, <2>4
<1>3. ASSUME NEW r \in CurrentEdge(l.arg.src, l.arg.dst), UNCHANGED ulids,
             edges' = Replacing(edges, {e \in Current(edges) : e.id = r.id},
                                l.now, EdgeWrite(l, r.id, r.created))
      PROVE  LinkInv'
  <2>1. /\ r \in edges /\ r.to = NULL /\ r.src = l.arg.src /\ r.dst = l.arg.dst
        /\ r.id \in Nat /\ r.id <= ulids /\ r \in Current(edges)
    BY <1>0 DEF CurrentEdge, Current, EdgeRow, LinkInv, IdsUsed
  <2>2. \A e \in Current(edges) : e.src = l.arg.src /\ e.dst = l.arg.dst => e = r
    BY <2>1 DEF LinkInv, LinksAgree
  <2>3. \A e \in edges : e.id = r.id => /\ e.src = r.src /\ e.dst = r.dst
                                        /\ e.created = r.created
                                        /\ e.to = NULL => e \in Current(edges)
    BY <2>1 DEF LinkInv, LinksAgree, Current
  <2> QED
    BY <1>1, <1>3, <2>1, <2>2, <2>3
<1> QED
  BY <1>2, <1>3 DEF UpsertEdge

\* A row written over the current one of its key, under an id that is new or
\* was this key's before.
LEMMA AliasesStep ==
    ASSUME LinkInv, TypeInv', NEW p \in Procs, Finish(p), UNCHANGED edges,
           proc[p].now \in Time, NEW i \in Nat, NEW c, NEW old, old \subseteq Current(aliases),
           ulids' \in {ulids, ulids + 1}, i <= ulids',
           aliases' = Replacing(aliases, old, proc[p].now, AliasWrite(proc[p], i, c)),
           \A r \in Current(aliases) : r.key = proc[p].arg.key => r \in old,
           \A r \in aliases : r.id = i => r.key = proc[p].arg.key /\ r.created = c,
           \A q \in Procs : Holds(proc[q]) /\ proc[q].seen.id = i =>
             proc[q].seen.key = proc[p].arg.key /\ proc[q].seen.created = c
    PROVE  LinkInv'
<1> DEFINE l == proc[p]
           new == AliasWrite(l, i, c)
<1>0. /\ aliases \subseteq AliasRow /\ ulids \in Nat /\ NULL \notin Nat
      /\ \A q \in Procs : q # p => proc'[q] = proc[q]
      /\ proc'[p] = Idle
  BY GraphConstants DEF LinkInv, TypeInv, Finish, Goto
<1>1. /\ new.id = i /\ new.key = l.arg.key /\ new.created = c /\ new.to = NULL
  BY DEF AliasWrite
<1>2. \A r \in Closed(old, l.now) :
        /\ r.to # NULL
        /\ \E s \in aliases : r.id = s.id /\ r.key = s.key /\ r.created = s.created
  BY <1>0 DEF Closed, Current, AliasRow, Time
<1>3. aliases' = (aliases \ old) \cup Closed(old, l.now) \cup {new}
  BY DEF Replacing
<1>4. \A r \in aliases' :
        r = new \/ \E s \in aliases : r.id = s.id /\ r.key = s.key /\ r.created = s.created
  BY <1>2, <1>3
<1>5. \A r \in Current(aliases') : r = new \/ (r \in Current(aliases) /\ r \notin old)
  BY <1>2, <1>3 DEF Current
<1>6. \A r, s \in aliases' : r.id = s.id => r.key = s.key /\ r.created = s.created
  BY <1>1, <1>4 DEF LinkInv, LinksAgree
<1>7. \A r, s \in Current(aliases') : r.key = s.key => r = s
  BY <1>1, <1>5 DEF LinkInv, LinksAgree
<1>8. LinksAgree'
  BY <1>6, <1>7 DEF LinkInv, LinksAgree, Current
<1>9. IdsUsed'
  <2>1. \A r \in edges \cup aliases : r.id \in Nat /\ r.id <= ulids
    BY DEF LinkInv, TypeInv, EdgeRow, AliasRow, IdsUsed
  <2> QED
    BY <1>0, <1>1, <1>4, <2>1 DEF IdsUsed
<1>10. ~Holds(proc'[p])
  BY <1>0, RestartBlank DEF Holds
<1>11. ASSUME NEW q \in Procs PROVE SeenAlias(proc[q])'
  <2>1. Holds(proc[q]) => proc[q].seen.id \in Nat
    BY DEF LinkInv, TypeInv, WellFormed, AliasRow, Holds
  <2>2. SeenAlias(proc[q])
    BY DEF LinkInv
  <2> QED
    BY <1>0, <1>1, <1>4, <1>10, <2>1, <2>2 DEF SeenAlias, Holds
<1>12. SeenAgree'
  BY <1>0, <1>10 DEF LinkInv, SeenAgree, Holds
<1> QED
  BY <1>8, <1>9, <1>11, <1>12 DEF LinkInv

LEMMA FreshAlias ==
    ASSUME LinkInv, TypeInv', NEW p \in Procs, Finish(p), UNCHANGED edges,
           proc[p].now \in Time, NewId, CurrentAlias(proc[p].arg.key) = {},
           aliases' = aliases \cup {AliasWrite(proc[p], ulids', proc[p].now)}
    PROVE  LinkInv'
<1>1. ulids \in Nat /\ ulids' = ulids + 1
  BY DEF LinkInv, TypeInv, NewId
<1>2. \A r \in aliases : r.id \in Nat /\ r.id # ulids + 1
  BY <1>1 DEF LinkInv, IdsUsed, TypeInv, AliasRow
<1>3. \A q \in Procs : Holds(proc[q]) => proc[q].seen.id # ulids + 1
  BY <1>1 DEF LinkInv, TypeInv, WellFormed, AliasRow, Holds, SeenAlias
<1>4. aliases' = Replacing(aliases, {}, proc[p].now,
                           AliasWrite(proc[p], ulids + 1, proc[p].now))
  BY <1>1 DEF Replacing, Closed
<1>5. \A r \in Current(aliases) : r.key # proc[p].arg.key
  BY DEF CurrentAlias, Current
<1> QED
  BY <1>1, <1>2, <1>3, <1>4, <1>5, AliasesStep

LEMMA UpsertAliasLinks ==
    ASSUME LinkInv, NEW p \in Procs, UpsertAlias(p)
    PROVE  LinkInv'
<1> DEFINE l == proc[p]
           old == IF l.seen = NULL THEN {}
                  ELSE {r \in Current(aliases) : r.id = l.seen.id}
<1>0. /\ TypeInv' /\ ulids \in Nat /\ l.now \in Time /\ Finish(p)
      /\ UNCHANGED <<nodes, edges, clock>> /\ l.op = "alias"
      /\ l.seen \in AliasRow \cup {NULL}
  BY TypeUpsertAlias DEF LinkInv, TypeInv, UpsertAlias, At, WellFormed
<1>1. CASE UNCHANGED <<aliases, ulids>>
  <2>1. /\ \A q \in Procs : q # p => proc'[q] = proc[q]
        /\ ~Holds(proc'[p])
    BY <1>0, RestartBlank DEF LinkInv, TypeInv, Finish, Goto, Holds
  <2> QED
    BY <1>0, <1>1, <2>1 DEF LinkInv, LinksAgree, IdsUsed, SeenAgree, SeenAlias, Holds, Current
<1>2. CASE /\ CurrentAlias(l.arg.key) \ old = {} /\ l.seen = NULL /\ NewId
           /\ aliases' = Replacing(aliases, old, l.now, AliasWrite(l, ulids', l.now))
  <2>1. aliases' = aliases \cup {AliasWrite(l, ulids', l.now)}
    BY <1>2 DEF Replacing, Closed
  <2>2. CurrentAlias(l.arg.key) = {}
    BY <1>2
  <2> QED
    BY <1>0, <1>2, <2>1, <2>2, FreshAlias
<1>3. CASE /\ CurrentAlias(l.arg.key) \ old = {} /\ l.seen # NULL /\ UNCHANGED ulids
           /\ aliases' = Replacing(aliases, old, l.now,
                                   AliasWrite(l, l.seen.id, l.seen.created))
  <2>1. Holds(l) /\ SeenAlias(l) /\ l.seen.id \in Nat
    BY <1>0, <1>3 DEF Holds, LinkInv, AliasRow
  <2>2. \A r \in Current(aliases) : r.key = l.arg.key => r \in old
    BY <1>3 DEF CurrentAlias, Current
  <2>3. \A q \in Procs : Holds(proc[q]) /\ proc[q].seen.id = l.seen.id =>
          proc[q].seen.key = l.arg.key /\ proc[q].seen.created = l.seen.created
    BY <2>1 DEF LinkInv, SeenAgree, SeenAlias
  <2>4. old \subseteq Current(aliases)
    OBVIOUS
  <2>5. /\ l.seen.id <= ulids'
        /\ \A r \in aliases : r.id = l.seen.id => /\ r.key = l.arg.key
                                                  /\ r.created = l.seen.created
    BY <1>3, <2>1 DEF SeenAlias
  <2> HIDE DEF old
  <2> QED
    BY <1>0, <1>3, <2>1, <2>2, <2>3, <2>4, <2>5, AliasesStep
<1> QED
  BY <1>1, <1>2, <1>3 DEF UpsertAlias

LEMMA BindAliasLinks ==
    ASSUME LinkInv, NEW p \in Procs, BindAlias(p)
    PROVE  LinkInv'
<1> DEFINE l == proc[p]
<1>0. /\ TypeInv' /\ ulids \in Nat /\ l.now \in Time /\ Finish(p)
      /\ UNCHANGED <<nodes, edges, clock>>
  BY TypeBindAlias DEF LinkInv, TypeInv, BindAlias, At, WellFormed
<1>1. CASE UNCHANGED <<aliases, ulids>>
  <2>1. /\ \A q \in Procs : q # p => proc'[q] = proc[q]
        /\ ~Holds(proc'[p])
    BY <1>0, RestartBlank DEF LinkInv, TypeInv, Finish, Goto, Holds
  <2> QED
    BY <1>0, <1>1, <2>1 DEF LinkInv, LinksAgree, IdsUsed, SeenAgree, SeenAlias, Holds, Current
<1>2. CASE /\ CurrentAlias(l.arg.key) = {} /\ NewId
           /\ aliases' = aliases \cup {AliasWrite(l, ulids', l.now)}
  BY <1>0, <1>2, FreshAlias
<1>3. ASSUME NEW r \in CurrentAlias(l.arg.key), UNCHANGED ulids,
             aliases' = Replacing(aliases, {r}, l.now, AliasWrite(l, r.id, r.created))
      PROVE  LinkInv'
  <2>1. /\ r \in aliases /\ r.to = NULL /\ r.key = l.arg.key /\ r \in Current(aliases)
        /\ r.id \in Nat /\ r.id <= ulids
    BY DEF CurrentAlias, Current, LinkInv, TypeInv, AliasRow, IdsUsed
  <2>2. \A s \in Current(aliases) : s.key = l.arg.key => s \in {r}
    BY <2>1 DEF LinkInv, LinksAgree
  <2>3. \A s \in aliases : s.id = r.id => s.key = l.arg.key /\ s.created = r.created
    BY <2>1 DEF LinkInv, LinksAgree
  <2>4. \A q \in Procs : Holds(proc[q]) /\ proc[q].seen.id = r.id =>
          proc[q].seen.key = l.arg.key /\ proc[q].seen.created = r.created
    BY <2>1 DEF LinkInv, SeenAlias
  <2>5. {r} \subseteq Current(aliases) /\ r.id <= ulids' /\ ulids' \in {ulids, ulids + 1}
    BY <1>3, <2>1
  <2>6. /\ TypeInv' /\ Finish(p) /\ UNCHANGED edges /\ l.now \in Time /\ r.id \in Nat
        /\ aliases' = Replacing(aliases, {r}, l.now, AliasWrite(l, r.id, r.created))
    BY <1>0, <1>3, <2>1
  <2> QED
    BY <2>2, <2>3, <2>4, <2>5, <2>6, AliasesStep
<1> QED
  BY <1>1, <1>2, <1>3 DEF BindAlias

LEMMA LinkStep == LinkInv /\ [Next]_vars => LinkInv'
<1> SUFFICES ASSUME LinkInv, [Next]_vars PROVE LinkInv'
  OBVIOUS
<1>0. TypeInv /\ TypeInv'
  BY TypeStep DEF LinkInv
<1>1. ASSUME NEW p \in Procs, ProcStep(p), UNCHANGED <<edges, aliases, ulids>>
      PROVE  LinkInv'
  <2>1. \A q \in Procs : q # p => proc'[q] = proc[q]
    BY <1>0, <1>1, AliasLocals
  <2>2. Holds(proc'[p]) =>
          \/ Holds(proc[p]) /\ proc'[p].seen = proc[p].seen /\ proc'[p].arg = proc[p].arg
          \/ proc'[p].seen \in CurrentAlias(proc'[p].arg.key)
    BY <1>0, <1>1, AliasLocals DEF Holds
  <2>3. ASSUME proc'[p].seen \in CurrentAlias(proc'[p].arg.key)
        PROVE  /\ proc'[p].seen \in aliases /\ proc'[p].seen.key = proc'[p].arg.key
               /\ proc'[p].seen.id <= ulids
    BY <2>3 DEF CurrentAlias, Current, LinkInv, IdsUsed
  <2>4. SeenAlias(proc[p])'
    BY <1>1, <2>2, <2>3 DEF LinkInv, LinksAgree, SeenAlias, Holds
  <2>5. \A q \in Procs : SeenAlias(proc[q])'
    BY <1>1, <2>1, <2>4 DEF LinkInv, SeenAlias, Holds
  <2>6. ASSUME NEW q \in Procs, q # p, Holds(proc'[p]), Holds(proc[q]),
               proc'[p].seen.id = proc[q].seen.id
        PROVE  /\ proc'[p].seen.key = proc[q].seen.key
               /\ proc'[p].seen.created = proc[q].seen.created
    BY <2>2, <2>3, <2>6 DEF LinkInv, SeenAgree, SeenAlias
  <2>7. SeenAgree'
    BY <2>1, <2>6 DEF LinkInv, SeenAgree
  <2> QED
    BY <1>0, <1>1, <2>5, <2>7 DEF LinkInv, LinksAgree, IdsUsed, Current
<1>2. ASSUME edges' \subseteq edges, aliases' \subseteq aliases, UNCHANGED <<ulids, proc>>
      PROVE  LinkInv'
  BY <1>0, <1>2 DEF LinkInv, LinksAgree, IdsUsed, SeenAgree, SeenAlias, Holds, Current
<1>3. ASSUME NEW p \in Procs, ProcStep(p) PROVE LinkInv'
  <2>1. \/ UNCHANGED <<edges, aliases, ulids>>
        \/ UpsertEdge(p) \/ UpsertAlias(p) \/ BindAlias(p)
    BY <1>3 DEF ProcStep, Begin, BeginRewrite, BeginReplace, BeginUpsert, BeginLink,
                BeginAlias, BeginBind, ReadForRewrite, ReadForReplace, ReadForUpsert,
                ResolveSource, ResolveTarget, RequireEntity, ReadForAlias, CheckTwins,
                ReadClock, UpdateIfCurrent, CreateIfAbsent, UpsertNode, tables
  <2> QED
    BY <1>1, <1>3, <2>1, EdgesStep, UpsertAliasLinks, BindAliasLinks
<1>4. CASE UNCHANGED vars
  BY <1>2, <1>4 DEF vars
<1> QED
  BY <1>2, <1>3, <1>4 DEF Next, DeleteNode, DeleteEdge, CompactVersions

\* An edge triple and an alias key never have two current rows, and no id is
\* ever two edges or two keys, whichever writers, purges and compactions run
\* side by side and however clock readings tie.
THEOREM LinksAlwaysAgree == Spec => []LinksAgree
<1>1. Init => LinkInv
  <2>1. Init => \A p \in Procs : ~Holds(proc[p])
    BY RestartBlank DEF Init, Holds
  <2> QED
    BY <2>1, TypeInit DEF Init, LinkInv, LinksAgree, IdsUsed, SeenAgree, SeenAlias, Current
<1>2. LinkInv => LinksAgree
  BY DEF LinkInv
<1> QED
  BY <1>1, <1>2, LinkStep, PTL DEF Spec

=============================================================================
