--------------------------- MODULE GraphRefinement ---------------------------
(* The conditional writers of GraphStore implement NodeRegister: a command *)
(* takes effect where its transaction commits.                             *)
EXTENDS GraphStore

AbstractNode(n) ==
    IF CurrentNode(n) = {} THEN NULL
    ELSE LET r == CHOOSE r \in CurrentNode(n) : TRUE
         IN [name |-> r.name, role |-> r.role]

AbstractIntent(p) ==
    LET a == proc[p].arg IN
    CASE proc[p].op = "rewrite" ->
           [id |-> a.id, name |-> a.name, role |-> NULL, ifAbsent |-> FALSE]
      [] proc[p].op = "replace" -> a
      [] OTHER -> NULL

Register == INSTANCE NodeRegister WITH
    node <- [n \in NodeIds |-> AbstractNode(n)],
    intent <- [p \in Procs |-> AbstractIntent(p)]

\* A command, a value and the absence of one are told apart.
ASSUME NullIsApart == NULL \notin Register!Command \cup [name : Names, role : Roles]

\* Every entity.create, entity.update, demotion, archive and label command
\* behaves as one atomic read-modify-write of its node: none loses another's
\* update, acts on a value that is gone, or revives a purged node.
ImplementsRegister == Register!Spec
=============================================================================
