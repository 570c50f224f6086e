---------------------------- MODULE NodeRegister ----------------------------
(***************************************************************************)
(* What the conditional writers of the graph promise: a node is one        *)
(* register, and a command that reads it, decides, and writes it behaves   *)
(* as if it did all three at one instant.  A command takes effect at most  *)
(* once, on the value the node has at that instant, or is dropped.         *)
(***************************************************************************)
CONSTANTS Procs, NodeIds, Names, Roles, NULL

VARIABLES node,     \* the value of each node, NULL when there is none
          intent    \* the command each writer has under way, or NULL

\* A NULL name keeps the node's name.  A NULL role keeps its role, and makes
\* the command one that only changes an existing node.
Command == [id : NodeIds, name : Names \cup {NULL},
            role : Roles \cup {NULL}, ifAbsent : BOOLEAN]

Init ==
    /\ node = [n \in NodeIds |-> NULL]
    /\ intent = [p \in Procs |-> NULL]

Take(p) ==
    /\ intent[p] = NULL
    /\ \E c \in Command : intent' = [intent EXCEPT ![p] = c]
    /\ UNCHANGED node

\* Refused, or out of attempts.
Drop(p) ==
    /\ intent[p] # NULL
    /\ intent' = [intent EXCEPT ![p] = NULL]
    /\ UNCHANGED node

Create(p) ==
    LET c == intent[p] IN
    /\ c # NULL
    /\ node[c.id] = NULL
    /\ c.role # NULL
    /\ node' = [node EXCEPT ![c.id] = [name |-> c.name, role |-> c.role]]
    /\ intent' = [intent EXCEPT ![p] = NULL]

Change(p) ==
    LET c == intent[p] IN
    /\ c # NULL
    /\ node[c.id] # NULL
    /\ ~c.ifAbsent
    /\ c.role \in {NULL, node[c.id].role}
    /\ node' = [node EXCEPT ![c.id].name = IF c.name = NULL THEN @ ELSE c.name]
    /\ intent' = [intent EXCEPT ![p] = NULL]

Purge(n) ==
    /\ node' = [node EXCEPT ![n] = NULL]
    /\ UNCHANGED intent

Next ==
    \/ \E p \in Procs : Take(p) \/ Drop(p) \/ Create(p) \/ Change(p)
    \/ \E n \in NodeIds : Purge(n)

Spec == Init /\ [][Next]_<<node, intent>>
=============================================================================
