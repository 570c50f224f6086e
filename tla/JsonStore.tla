----------------------------- MODULE JsonStore -----------------------------
(* The whole-file JSON stores of policies and advisories                    *)
(* (stores/degradable_json_store.py with PolicyStore and AdvisoryStore):    *)
(* every instance loads the file once, serves its view, and writes by       *)
(* replacing the file.  Several processes write one file, and operators     *)
(* edit it, so every write is guarded twice: a load that could not read all *)
(* of the file refuses, and a fingerprint that moved refuses.               *)
(*                                                                          *)
(* A row is a value, absent (NONE), or GARBLED: there, but not parsed or    *)
(* rejected by the store.  A file that is not `whole' is not the envelope   *)
(* the store writes: nothing in it loads.  A replace or an edit gives the   *)
(* path a fresh identity (inode, mtime, size), here its version number.     *)
EXTENDS Integers

CONSTANTS
    Procs,      \* store instances, one for each process
    Ids, Vals,  \* row ids and row contents
    MaxVersion, \* bound: how often the path changes in a behaviour
    Faults,     \* what the environment may do
    NONE, GARBLED, UNKNOWN

ASSUME JsonStoreAssumption ==
    /\ MaxVersion \in Nat
    /\ Faults \subseteq {"garble", "tear", "repair", "move", "unreach", "full", "restart"}
    /\ NONE # UNKNOWN /\ NONE # GARBLED
    /\ NONE \notin Nat \cup Vals /\ UNKNOWN \notin Nat /\ GARBLED \notin Vals

VARIABLES
    file,    \* contents of the path, NONE when nothing is there
    version, \* identity of the path's last change
    reach,   \* FALSE while stat, open and rename raise an OSError
    inst     \* the store instance of each process

vars == <<file, version, reach, inst>>

View == [Ids -> Vals \cup {NONE}]
File == [rows: [Ids -> Vals \cup {NONE, GARBLED}], whole: BOOLEAN]
Empty == [i \in Ids |-> NONE]

ASSUME SentinelAssumption == NONE \notin File

\* What a write asks for, as the rows it sets: add, put, put_many, suppress
\* and restore give values, remove and clear give NONE.
Puts == UNION {[S -> Vals] : S \in SUBSET Ids}
Removal(i) == [j \in {i} |-> NONE]
Edits == Puts \cup {Removal(i) : i \in Ids} \cup {Empty}

Ident == Nat \cup {NONE, UNKNOWN}

\* `read' and `seen' are history: the identity the view came from, and the
\* version the path had at the last staleness check.
Instance ==
    [pc: {"stat", "load", "print", "ready", "save", "replace", "reprint"},
     rows: View, degraded: BOOLEAN, print: Ident,
     restore: View, edit: Edits, read: Nat \cup {NONE}, seen: Nat]

Opened == [pc |-> "stat", rows |-> Empty, degraded |-> FALSE, print |-> NONE,
           restore |-> Empty, edit |-> Empty, read |-> NONE, seen |-> 0]

-----------------------------------------------------------------------------
\* file_identity: only a missing file is NONE; any other error is UNKNOWN.
Held == IF file = NONE THEN NONE ELSE version

Fingerprint == IF reach THEN Held ELSE UNKNOWN

Readable(row) == IF row = GARBLED THEN NONE ELSE row
Parsed == IF file.whole THEN [i \in Ids |-> Readable(file.rows[i])] ELSE Empty
Skipped == ~file.whole \/ \E i \in Ids : file.rows[i] = GARBLED

\* The new rows replace the old ones and are not merged into them.
AppliedAlone(rows, edit) ==
    [i \in Ids |-> IF i \in DOMAIN edit THEN edit[i] ELSE NONE]

Applied(rows, edit) ==
    [i \in Ids |-> IF i \in DOMAIN edit THEN edit[i] ELSE rows[i]]

Init ==
    /\ file = NONE
    /\ version = 0
    /\ reach = TRUE
    /\ inst = [p \in Procs |-> Opened]

\* A new instance: a process starts, dies and restarts, or reads again after
\* a refusal.  It may interrupt a write at any of its steps.
Open(p) ==
    /\ inst[p].pc = "ready" \/ "restart" \in Faults
    /\ inst' = [inst EXCEPT ![p] = Opened]
    /\ UNCHANGED <<file, version, reach>>

\* __init__: the stat that tells an absent file from an unreadable one.
Stat(p) ==
    /\ inst[p].pc = "stat"
    /\ inst' = [inst EXCEPT ![p].pc = IF reach /\ file # NONE THEN "load" ELSE "print",
                            ![p].degraded = ~reach]
    /\ UNCHANGED <<file, version, reach>>

\* _load_rows: what parses is served; anything that did not, or a file that
\* cannot be read any more, is recorded as degradation.
LoadedAll == reach /\ file # NONE /\ ~Skipped

Load(p) ==
    /\ inst[p].pc = "load"
    /\ inst' = [inst EXCEPT ![p].pc = "print",
                            ![p].rows = IF reach /\ file # NONE THEN Parsed ELSE Empty,
                            ![p].degraded = ~LoadedAll,
                            ![p].read = Held]
    /\ UNCHANGED <<file, version, reach>>

\* The fingerprint is taken when the load is over.
TakePrint(p) ==
    /\ inst[p].pc = "print"
    /\ inst' = [inst EXCEPT ![p].pc = "ready", ![p].print = Fingerprint]
    /\ UNCHANGED <<file, version, reach>>

\* refuse_if_stale: an identity that is unknown on either side refuses.
Unmoved(print) ==
    /\ print # UNKNOWN /\ Fingerprint # UNKNOWN
    /\ print = Fingerprint

\* A write method: both guards, then the edit in memory.  remove answers
\* without a write when the row is not in the view.
Edit(p, e) ==
    /\ inst[p].pc = "ready"
    /\ ~inst[p].degraded
    /\ Unmoved(inst[p].print)
    /\ \A i \in Ids : e = Removal(i) => e = Empty \/ inst[p].rows[i] # NONE
    /\ inst' = [inst EXCEPT ![p].pc = "save", ![p].edit = e,
                            ![p].restore = inst[p].rows,
                            ![p].rows = Applied(inst[p].rows, e)]
    /\ UNCHANGED <<file, version, reach>>

\* _save_or_roll_back: memory goes back to the snapshot when _save raises.

\* A save that raises leaves its edit in memory.
NotRolledBack(s) == [s EXCEPT !.pc = "ready", !.restore = Empty, !.edit = Empty]
RolledBack(s) ==
    [s EXCEPT !.pc = "ready", !.rows = s.restore, !.restore = Empty, !.edit = Empty]

\* A save that relies on the guards of its caller.
SaveUnguarded(p) ==
    /\ inst[p].pc = "save"
    /\ inst' = [inst EXCEPT ![p].pc = "replace", ![p].seen = version]
    /\ UNCHANGED <<file, version, reach>>

\* _save: both guards again.
Save(p) ==
    /\ inst[p].pc = "save"
    /\ inst' = [inst EXCEPT ![p] =
                    IF ~inst[p].degraded /\ Unmoved(inst[p].print)
                    THEN [inst[p] EXCEPT !.pc = "replace", !.seen = version]
                    ELSE RolledBack(inst[p])]
    /\ UNCHANGED <<file, version, reach>>

\* atomic_write_text: the temporary file or the rename fails.
WriteFails(p) ==
    /\ inst[p].pc = "replace"
    /\ ~reach \/ "full" \in Faults
    /\ inst' = [inst EXCEPT ![p] = RolledBack(inst[p])]
    /\ UNCHANGED <<file, version, reach>>

\* atomic_write_text: the rename replaces whatever is at the path.
Replace(p) ==
    /\ inst[p].pc = "replace"
    /\ reach /\ version < MaxVersion
    /\ file' = [rows |-> inst[p].rows, whole |-> TRUE]
    /\ version' = version + 1
    /\ inst' = [inst EXCEPT ![p].pc = "reprint", ![p].read = version + 1]
    /\ UNCHANGED reach

\* The fingerprint is taken again after the write.
Reprint(p) ==
    /\ inst[p].pc = "reprint"
    /\ inst' = [inst EXCEPT ![p].pc = "ready", ![p].print = Fingerprint,
                            ![p].restore = Empty, ![p].edit = Empty]
    /\ UNCHANGED <<file, version, reach>>

-----------------------------------------------------------------------------
\* External: what happens to the path outside these stores.
Touch(f) ==
    /\ version < MaxVersion
    /\ file' = f
    /\ version' = version + 1
    /\ UNCHANGED <<reach, inst>>

Garble(i) ==
    /\ "garble" \in Faults
    /\ file # NONE /\ file.rows[i] \notin {NONE, GARBLED}
    /\ Touch([file EXCEPT !.rows[i] = GARBLED])

Tear ==
    /\ "tear" \in Faults
    /\ file # NONE /\ file.whole
    /\ Touch([file EXCEPT !.whole = FALSE])

\* An operator mends the file by hand.
Repair(rows) ==
    /\ "repair" \in Faults
    /\ file # NONE /\ Skipped
    /\ Touch([rows |-> rows, whole |-> TRUE])

\* The recovery command of a degraded store moves the file aside.
MoveAside ==
    /\ "move" \in Faults
    /\ file # NONE
    /\ Touch(NONE)

\* A parent directory loses or regains its permissions, a mount its server.
Unreach ==
    /\ "unreach" \in Faults
    /\ reach' = ~reach
    /\ UNCHANGED <<file, version, inst>>

Step(p) ==
    \/ Open(p) \/ Stat(p) \/ Load(p) \/ TakePrint(p)
    \/ \E e \in Edits : Edit(p, e)
    \/ Save(p) \/ WriteFails(p) \/ Replace(p) \/ Reprint(p)

Outside ==
    \/ \E i \in Ids : Garble(i)
    \/ Tear
    \/ \E rows \in View : Repair(rows)
    \/ MoveAside
    \/ Unreach

Next == (\E p \in Procs : Step(p)) \/ Outside

Spec == Init /\ [][Next]_vars

-----------------------------------------------------------------------------
(* Every variable has its type.                                             *)
TypeOK ==
    /\ file \in File \cup {NONE}
    /\ version \in 0..MaxVersion
    /\ reach \in BOOLEAN
    /\ inst \in [Procs -> Instance]

(* What the guards let through is the file: an instance that would pass     *)
(* refuse_if_degraded and refuse_if_stale, with a view read from the        *)
(* identity it fingerprinted, holds the rows of the whole file, so it       *)
(* neither writes nor answers from anything else.  Refused and failed       *)
(* writes are where this breaks: the edit must leave memory again.          *)
GuardedViewIsFile ==
    \A p \in Procs :
        LET s == inst[p] IN
        s.pc = "ready" /\ ~s.degraded /\ Unmoved(s.print) /\ s.read = s.print
            => IF file = NONE THEN s.rows = Empty
               ELSE file.whole /\ s.rows = file.rows

Replaces(p) == inst[p].pc = "replace" /\ inst'[p].pc = "reprint"

(* A rewrite of the file its view came from changes the rows its caller     *)
(* asked to change and no other: no row that failed to parse, and nothing   *)
(* of a file whose envelope could not be read, is deleted by the partial    *)
(* view that was served.                                                    *)
WriteLosesOnlyAsked ==
    [][\A p \in Procs :
        Replaces(p) /\ file # NONE /\ inst[p].read = version =>
            /\ file.whole
            /\ \A i \in Ids \ DOMAIN inst[p].edit : file'.rows[i] = file.rows[i]]_vars

(* A rewrite replaces the identity its view was read from, or one that came *)
(* after the last staleness check: the check before the rename leaves only  *)
(* that window.  The fingerprint itself is assumed to be the view's here    *)
(* (read = print), which a write between the load and the fingerprint breaks.*)
WriteReplacesView ==
    [][\A p \in Procs :
        Replaces(p) /\ inst[p].read = inst[p].print =>
            Held = inst[p].read \/ version > inst[p].seen]_vars

=============================================================================
