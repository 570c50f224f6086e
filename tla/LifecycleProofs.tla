--------------------------- MODULE LifecycleProofs ---------------------------
(* Proofs about Lifecycle, for any items, callers and bounds.               *)
EXTENDS Lifecycle, WellFoundedInduction, TLAPS

Stages == {"idle", "create", "load", "put", "embed", "announce", "stamp", "mark", "sync",
           "unmark", "restamp", "archive", "unvector", "blank", "scan", "scrub",
           "detach", "purge", "recreate", "report"}
Versions == [life : Stamps, copy : BOOLEAN, sure : BOOLEAN]
DocRows == [state : {"none", "row", "tomb"}, life : Stamps, copy : BOOLEAN]
VecRows == [state : {"none", "row"}, life : Stamps, copy : BOOLEAN]
\* A row of the scan of a redaction.
Scans == [item : Precedents, row : Versions]
Scrubbing == {"scrub", "detach", "purge", "recreate", "report"}

\* What a command holds between two writes.
RunOK(self) ==
    /\ self \in RunState
    /\ self.pc \in {"create", "load", "put"} => self.item \in Learned
    /\ self.pc \in {"announce", "stamp", "mark", "unmark", "restamp", "detach", "purge", "recreate"}
          => self.item \in Precedents
    /\ self.pc = "announce" => self.op \in {"approve", "demote", "reinstate"}
    /\ self.pc = "sync" => \/ self.op = "restore"
                           \/ self.op \in {"demote", "reinstate"} /\ self.item \in Precedents
    /\ self.pc = "embed" => \/ self.op = "redact"
                            \/ self.op = "approve" /\ self.item \in Precedents
    /\ self.pc \in {"create", "load", "put"} => self.op = "approve"
    /\ self.pc \in {"stamp", "mark"} => self.op = "demote"
    /\ self.pc \in {"unmark", "restamp"} => self.op = "reinstate"
    /\ self.pc \in Scrubbing \cup {"unvector", "blank", "scan"} => self.op = "redact"
    /\ self.pc = "archive" => self.todo \in SUBSET (Items \ Learned)
    /\ self.pc \in Scrubbing \/ (self.pc = "embed" /\ self.op = "redact") =>
          /\ self.todo \in SUBSET Scans /\ \E i \in Items : self.rest = {i}
          /\ \A r \in self.todo : r.item \in Learned => r.row.life # "archived"
    /\ self.pc = "put" => self.life # "archived"
    /\ self.pc \in {"detach", "purge", "recreate"} /\ self.item \in Learned => self.life # "archived"

\* Retention leaves promoted precedents alone, in both planes.
NeverArchived ==
    \A p \in Learned :
        /\ Live(p) => Top(p).life # "archived"
        /\ doc[p].state = "row" => doc[p].life # "archived"

StoresOK ==
    /\ node \in [Items -> Seq(Versions)]
    /\ doc \in [Items -> DocRows]
    /\ vec \in [Items -> VecRows]
    /\ log \in [Precedents -> {"none", "promoted", "demoted", "reinstated"}]
    /\ gone \in SUBSET Items /\ ruled \in SUBSET Precedents
    /\ NeverArchived

RunsOK == run \in [Callers -> RunState] /\ \A c \in Callers : RunOK(run[c])

RestOK ==
    /\ env \in SUBSET Events /\ down \in BOOLEAN
    /\ spent \in [acts : 0..MaxActs, faults : 0..MaxFaults]

Inv == StoresOK /\ RunsOK /\ RestOK

LEMMA InvTypes == Inv => TypeOK
BY DEF Inv, StoresOK, RunsOK, RestOK, TypeOK, Versions, DocRows, VecRows

-----------------------------------------------------------------------------
(* Locals *)

LEMMA Kinds ==
    /\ Learned \subseteq Precedents /\ Precedents \subseteq Nodes
    /\ Nodes \subseteq Items /\ Source \in Items /\ Noisy \cap Learned = {}
    /\ Source \notin Learned /\ Mints \cap Learned = {} /\ Mints \subseteq Items
BY LifecycleAssumption DEF Precedents, Nodes, Items

LEMMA IdleOK == RunOK(Idle) /\ Idle.pc = "idle"
BY Kinds DEF RunOK, Idle, RunState, Stamps, Scrubbing

LEMMA StepRun ==
    ASSUME RunsOK, NEW c \in Callers, NEW self, RunOK(self), run' = [run EXCEPT ![c] = self]
    PROVE  RunsOK'
<1>1. self \in RunState
  BY DEF RunOK
<1>2. run' \in [Callers -> RunState]
  BY <1>1 DEF RunsOK
<1>3. \A d \in Callers : run'[d] = self \/ run'[d] = run[d]
  BY DEF RunsOK
<1> QED
  BY <1>2, <1>3 DEF RunsOK

LEMMA DoneOK ==
    ASSUME RunsOK, NEW c \in Callers, Done(c)
    PROVE  RunsOK'
BY IdleOK, StepRun DEF Done

\* A command goes to its next stage with the locals it has.
LEMMA GotoOK ==
    ASSUME RunsOK, NEW c \in Callers, NEW pc \in Stages, Goto(c, pc),
           RunOK([run[c] EXCEPT !.pc = pc])
    PROVE  RunsOK'
<1>1. run' = [run EXCEPT ![c] = [run[c] EXCEPT !.pc = pc]]
  BY DEF Goto, RunsOK
<1> QED
  BY <1>1, StepRun

LEMMA MovedTo ==
    ASSUME NEW self \in RunState, NEW pc \in Stages
    PROVE  LET next == [self EXCEPT !.pc = pc] IN
           /\ next \in RunState /\ next.pc = pc /\ next.op = self.op /\ next.item = self.item
           /\ next.life = self.life /\ next.copy = self.copy
           /\ next.todo = self.todo /\ next.rest = self.rest
BY DEF RunState, Stages

\* Where a command may go by Goto: to the next stage of its own procedure.
Follows(self, pc) ==
    \/ self.pc = "create" /\ pc = "load"
    \/ self.pc = "put" /\ pc = "embed"
    \/ self.pc = "embed" /\ pc = (IF self.op = "redact" THEN "scrub" ELSE "announce")
    \/ self.pc = "stamp" /\ pc = "mark"
    \/ self.pc = "mark" /\ pc = "sync"
    \/ self.pc = "sync" /\ pc = "announce" /\ self.op # "restore"
    \/ self.pc = "unmark" /\ pc = "restamp"
    \/ self.pc = "restamp" /\ pc = "sync"
    \/ self.pc = "unvector" /\ pc = "blank"
    \/ self.pc = "blank" /\ pc = "scan"
    \/ self.pc = "detach" /\ pc = "purge"
    \/ self.pc = "purge" /\ pc \in {"recreate", "scrub"}
    \/ self.pc = "scrub" /\ pc = "report"

LEMMA FollowsOK ==
    ASSUME NEW self, RunOK(self), NEW pc \in Stages, Follows(self, pc)
    PROVE  RunOK([self EXCEPT !.pc = pc])
<1> DEFINE next == [self EXCEPT !.pc = pc]
<1>1. self \in RunState
  BY DEF RunOK
<1>2. /\ next \in RunState /\ next.pc = pc /\ next.op = self.op /\ next.item = self.item
      /\ next.life = self.life /\ next.copy = self.copy
      /\ next.todo = self.todo /\ next.rest = self.rest
  BY <1>1, MovedTo
<1> HIDE DEF next
<1>3. RunOK(next)
  BY <1>2, Kinds DEF RunOK, Follows, Scrubbing
<1> QED
  BY <1>3 DEF next

LEMMA GoesOn ==
    ASSUME RunsOK, NEW c \in Callers, NEW pc \in Stages, Goto(c, pc), Follows(run[c], pc)
    PROVE  RunsOK'
<1>1. RunOK(run[c])
  BY DEF RunsOK
<1> QED
  BY <1>1, FollowsOK, GotoOK

LEMMA TopType ==
    ASSUME StoresOK, NEW i \in Items, Live(i)
    PROVE  Top(i) \in Versions
BY DEF StoresOK, Live, Top

LEMMA StepLocal ==
    ASSUME StoresOK, RunsOK, NEW c \in Callers, Step(c)
    PROVE  RunsOK'
<1> DEFINE self == run[c]
<1>0. RunOK(self) /\ self \in RunState
  BY DEF RunsOK, RunOK
<1>1. CASE \/ Create(c) \/ Put(c) \/ Embed(c) \/ Stamp(c) \/ Mark(c) \/ Sync(c)
           \/ Unmark(c) \/ Restamp(c) \/ Unvector(c) \/ Blank(c) \/ Detach(c) \/ Purge(c)
           \/ Drop(c) \/ Announce(c) \/ Resync(c) \/ Report(c)
  <2>1. Done(c) \/ \E pc \in Stages : Goto(c, pc) /\ Follows(self, pc)
    BY <1>1 DEF Create, Put, Embed, Stamp, Mark, Sync, Unmark, Restamp, Unvector, Blank,
         Detach, Purge, Drop, Announce, Resync, Report, NoVector, Follows, Stages
  <2> QED
    BY <2>1, DoneOK, GoesOn
<1>2. CASE Load(c)
  <2> DEFINE p == self.item
             next == [self EXCEPT !.pc = IF Live(p) THEN "put" ELSE "announce",
                                  !.life = IF Live(p) THEN Top(p).life ELSE @,
                                  !.copy = IF Live(p) THEN Top(p).copy ELSE @]
  <2>1. run' = [run EXCEPT ![c] = next]
    BY <1>2 DEF Load, RunsOK
  <2>2. p \in Learned /\ p \in Items /\ self.op = "approve" /\ p \in Precedents
    BY <1>0, <1>2, Kinds DEF Load, RunOK
  <2>3. Live(p) => Top(p).life \in Stamps \ {"archived"} /\ Top(p).copy \in BOOLEAN
    BY <2>2, TopType DEF Versions, StoresOK, NeverArchived
  <2>4. /\ next \in RunState /\ next.op = "approve" /\ next.item = p
        /\ next.pc \in {"put", "announce"} /\ (next.pc = "put" => next.life # "archived")
    BY <1>0, <2>2, <2>3 DEF RunState
  <2> HIDE DEF next
  <2>5. RunOK(next)
    BY <2>2, <2>4 DEF RunOK, Scrubbing
  <2> QED
    BY <2>1, <2>5, StepRun
<1>3. CASE Archive(c)
  <2>1. PICK i \in self.todo : run' = [run EXCEPT ![c].todo = @ \ {i}]
    BY <1>3 DEF Archive
  <2> DEFINE next == [self EXCEPT !.todo = @ \ {i}]
  <2>2. run' = [run EXCEPT ![c] = next]
    BY <2>1 DEF RunsOK
  <2>3. self.pc = "archive" /\ self.todo \in SUBSET (Items \ Learned)
    BY <1>0, <1>3 DEF Archive, RunOK
  <2>4. next \in RunState /\ next.pc = "archive" /\ next.todo \in SUBSET (Items \ Learned)
    BY <1>0, <2>3 DEF RunState
  <2> HIDE DEF next
  <2>5. RunOK(next)
    BY <2>4 DEF RunOK, Scrubbing
  <2> QED
    BY <2>2, <2>5, StepRun
<1>4. CASE Scan(c)
  <2> DEFINE found == {[item |-> p, row |-> Top(p)] : p \in Quoting(self.item)}
             next == [self EXCEPT !.pc = "scrub", !.todo = found, !.rest = {self.item}]
  <2>1. run' = [run EXCEPT ![c] = next]
    BY <1>4 DEF Scan, RunsOK
  <2>2. \A p \in Quoting(self.item) : p \in Precedents /\ Live(p) /\ Top(p) \in Versions
    BY TopType, Kinds DEF Quoting
  <2>3. found \in SUBSET Scans
    BY <2>2 DEF Scans
  <2>4. \A r \in found : r.item \in Learned => r.row.life # "archived"
    BY <2>2 DEF StoresOK, NeverArchived
  <2>5. self.op = "redact" /\ self.item \in Items
    BY <1>0, <1>4 DEF Scan, RunOK, RunState
  <2> HIDE DEF found
  <2>8. found \in (SUBSET Items) \cup SUBSET [item : Precedents,
                 row : [life : Stamps, copy : BOOLEAN, sure : BOOLEAN]]
    BY <2>3 DEF Scans, Versions
  <2>9. {self.item} \in SUBSET Items /\ "scrub" \in Stages
    BY <2>5 DEF Stages
  <2>6. /\ next \in RunState /\ next.pc = "scrub" /\ next.op = "redact"
        /\ next.todo = found /\ next.rest = {self.item}
    BY <1>0, <2>5, <2>8, <2>9 DEF RunState, Stages
  <2> HIDE DEF next
  <2>7. RunOK(next)
    BY <2>3, <2>4, <2>5, <2>6 DEF RunOK, Scrubbing
  <2> QED
    BY <2>1, <2>7, StepRun
<1>5. CASE Scrub(c)
  <2>1. /\ self.pc = "scrub" /\ self.op = "redact"
        /\ self.todo \in SUBSET Scans /\ \E i \in Items : self.rest = {i}
        /\ \A r \in self.todo : r.item \in Learned => r.row.life # "archived"
    BY <1>0, <1>5 DEF Scrub, RunOK, Scrubbing
  <2>2. PICK r \in self.todo :
           \/ run' = [run EXCEPT ![c].pc = "detach", ![c].todo = self.todo \ {r},
                                 ![c].item = r.item, ![c].life = r.row.life]
           \/ run' = [run EXCEPT ![c].todo = self.todo \ {r}]
    BY <1>5 DEF Scrub
  <2>3. r.item \in Precedents /\ r.item \in Items /\ r.row.life \in Stamps
    BY <2>1, Kinds DEF Scans, Versions
  <2> DEFINE next == [self EXCEPT !.pc = "detach", !.todo = self.todo \ {r},
                                  !.item = r.item, !.life = r.row.life]
             stay == [self EXCEPT !.todo = self.todo \ {r}]
  <2>4. run' = [run EXCEPT ![c] = next] \/ run' = [run EXCEPT ![c] = stay]
    BY <2>2 DEF RunsOK
  <2>5. /\ next \in RunState /\ next.pc = "detach" /\ next.op = "redact" /\ next.item = r.item
        /\ next.life = r.row.life /\ next.todo = self.todo \ {r} /\ next.rest = self.rest
    BY <1>0, <2>1, <2>3 DEF RunState, Scans, Versions
  <2>6. /\ stay \in RunState /\ stay.pc = "scrub" /\ stay.op = "redact"
        /\ stay.todo = self.todo \ {r} /\ stay.rest = self.rest
    BY <1>0, <2>1 DEF RunState, Scans, Versions
  <2> HIDE DEF next, stay
  <2>7. RunOK(next)
    BY <2>1, <2>3, <2>5 DEF RunOK, Scrubbing
  <2>8. RunOK(stay)
    BY <2>1, <2>6 DEF RunOK, Scrubbing
  <2> QED
    BY <2>4, <2>7, <2>8, StepRun
<1>6. CASE Recreate(c)
  <2>1. /\ self.op = "redact" /\ self.item \in Precedents /\ self.item \in Items
        /\ self.todo \in SUBSET Scans /\ \E i \in Items : self.rest = {i}
        /\ \A r \in self.todo : r.item \in Learned => r.row.life # "archived"
    BY <1>0, <1>6, Kinds DEF Recreate, RunOK, Scrubbing
  <2> DEFINE pc == IF doc[self.item].state = "row" THEN "embed" ELSE "scrub"
             next == [self EXCEPT !.pc = pc, !.life = doc[self.item].life, !.copy = FALSE]
  <2>2. run' = [run EXCEPT ![c] = next]
    BY <1>6 DEF Recreate, RunsOK
  <2>3. doc[self.item].life \in Stamps
    BY <2>1 DEF StoresOK, DocRows
  <2>4. /\ next \in RunState /\ next.pc \in {"embed", "scrub"} /\ next.op = "redact"
        /\ next.todo = self.todo /\ next.rest = self.rest
    BY <1>0, <2>1, <2>3 DEF RunState
  <2> HIDE DEF next
  <2>5. RunOK(next)
    BY <2>1, <2>4 DEF RunOK, Scrubbing
  <2> QED
    BY <2>2, <2>5, StepRun
<1> QED
  BY <1>1, <1>2, <1>3, <1>4, <1>5, <1>6 DEF Step

LEMMA LeastNatural ==
    ASSUME NEW S, S \subseteq Nat, S # {}
    PROVE  \E x \in S : \A y \in S : x <= y
<1> DEFINE R == {ss \in Nat \X Nat : ss[1] < ss[2]}
<1>1. IsWellFoundedOn(R, Nat)
  BY NatLessThanWellFounded DEF OpToRel
<1>2. PICK x \in S : \A y \in S : ~(<<y, x>> \in R)
  <2> HIDE DEF R
  <2> QED
    BY <1>1, WFMin
<1>3. \A y \in S : ~(y < x)
  BY <1>2
<1> QED
  BY <1>3

\* A set of numbers under a bound has a greatest one.
LEMMA GreatestBelow ==
    ASSUME NEW S \in SUBSET Nat, S # {}, NEW n \in Nat, \A v \in S : v <= n
    PROVE  \E v \in S : \A w \in S : w <= v
<1> DEFINE D == {n - v : v \in S}
<1>3. D \subseteq Nat /\ D # {}
  OBVIOUS
<1>4. PICK d \in D : \A e \in D : d <= e
  <2> HIDE DEF D
  <2> QED
    BY <1>3, LeastNatural
<1>5. PICK v \in S : d = n - v
  OBVIOUS
<1>6. ASSUME NEW w \in S
      PROVE  w <= v
  <2>1. n - w \in D
    OBVIOUS
  <2>2. n - v <= n - w
    BY <1>4, <1>5, <2>1
  <2> QED
    BY <2>2
<1> QED
  BY <1>6

LEMMA IdleFacts ==
    /\ Idle \in RunState /\ Idle.item = Source /\ Idle.life = "unset" /\ Idle.copy = FALSE
    /\ Idle.todo = {} /\ Idle.rest = {}
BY IdleOK DEF RunOK, Idle

\* A command that was let in starts from Idle, under its own name.
LEMMA Entered ==
    ASSUME RunsOK, NEW c \in Callers, NEW op \in Events, NEW self \in RunState,
           Enter(c, op, self),
           \A next \in RunState :
               /\ next.op = op /\ next.pc = self.pc /\ next.item = self.item
               /\ next.life = self.life /\ next.todo = self.todo /\ next.rest = self.rest
               => RunOK(next)
    PROVE  RunsOK'
<1> DEFINE next == [self EXCEPT !.op = op]
<1>1. /\ next \in RunState /\ next.op = op /\ next.pc = self.pc /\ next.item = self.item
      /\ next.life = self.life /\ next.todo = self.todo /\ next.rest = self.rest
  BY DEF RunState
<1>2. run' = [run EXCEPT ![c] = next]
  BY DEF Enter
<1> HIDE DEF next
<1>3. RunOK(next)
  BY <1>1
<1> QED
  BY <1>2, <1>3, StepRun

LEMMA PreArchivalIs ==
    ASSUME StoresOK, NEW i \in Items, Unarchived(i) # {}
    PROVE  PreArchival(i) \in Stamps
<1>1. /\ Unarchived(i) \subseteq 1..Len(node[i]) /\ Len(node[i]) \in Nat
      /\ \A v \in 1..Len(node[i]) : node[i][v] \in Versions
  BY DEF StoresOK, Unarchived
<1>2. Unarchived(i) \in SUBSET Nat /\ \A v \in Unarchived(i) : v <= Len(node[i])
  BY <1>1
<1>3. \E v \in Unarchived(i) : \A w \in Unarchived(i) : w <= v
  BY <1>1, <1>2, GreatestBelow
<1>4. PICK v \in Unarchived(i) : PreArchival(i) =
         IF node[i][v].life = "unset" THEN "current" ELSE node[i][v].life
  BY <1>3 DEF PreArchival
<1> QED
  BY <1>1, <1>4 DEF Versions, Stamps

LEMMA CommandLocal ==
    ASSUME StoresOK, RunsOK, NEW c \in Callers, Command(c)
    PROVE  RunsOK'
<1>0. \A p \in Precedents : p \in Items
  BY Kinds
<1>1. ASSUME NEW p \in Learned, Approve(c, p)
      PROVE  RunsOK'
  <2> DEFINE copy == doc[Source].state = "row" /\ doc[Source].life # "archived"
             self == [Idle EXCEPT !.pc = "create", !.item = p, !.copy = copy]
  <2>1. copy \in BOOLEAN /\ p \in Items
    BY Kinds
  <2>2. Enter(c, "approve", self)
    BY <1>1 DEF Approve
  <2> HIDE DEF copy
  <2>3. self \in RunState /\ self.pc = "create" /\ self.item = p
    BY <2>1, IdleFacts DEF RunState
  <2> HIDE DEF self
  <2>4. \A next \in RunState : next.op = "approve" /\ next.pc = "create" /\ next.item = p => RunOK(next)
    BY DEF RunOK, Scrubbing
  <2> QED
    BY <2>2, <2>3, <2>4, Entered DEF Events
<1>2. ASSUME NEW p \in Precedents, Demote(c, p)
      PROVE  RunsOK'
  <2> DEFINE self == [Idle EXCEPT !.pc = "stamp", !.item = p, !.life = "demoted"]
  <2>1. Enter(c, "demote", self)
    BY <1>2 DEF Demote
  <2>2. self \in RunState /\ self.pc = "stamp" /\ self.item = p
    BY <1>0, IdleFacts DEF RunState, Stamps
  <2> HIDE DEF self
  <2>3. \A next \in RunState : next.op = "demote" /\ next.pc = "stamp" /\ next.item = p => RunOK(next)
    BY DEF RunOK, Scrubbing
  <2> QED
    BY <2>1, <2>2, <2>3, Entered DEF Events
<1>3. ASSUME NEW p \in Precedents, Reinstate(c, p)
      PROVE  RunsOK'
  <2> DEFINE pc == IF RowOnly(p) THEN "restamp" ELSE "unmark"
             strict == RowOnly(p)
             self == [Idle EXCEPT !.item = p, !.life = "current", !.strict = strict, !.pc = pc]
  <2>1. pc \in {"restamp", "unmark"} /\ strict \in BOOLEAN
    BY DEF RowOnly
  <2>2. Enter(c, "reinstate", self)
    BY <1>3 DEF Reinstate
  <2> HIDE DEF pc, strict
  <2>3. self \in RunState /\ self.pc = pc /\ self.item = p
    BY <1>0, <2>1, IdleFacts DEF RunState, Stamps
  <2> HIDE DEF self
  <2>4. \A next \in RunState : next.op = "reinstate" /\ next.pc = pc /\ next.item = p => RunOK(next)
    BY <2>1 DEF RunOK, Scrubbing
  <2> QED
    BY <2>2, <2>3, <2>4, Entered DEF Events
<1>4. CASE Prune(c)
  <2> DEFINE rest == {i \in Items : ArchivedAlready(i)}
  <2>1. PICK picked \in SUBSET {i \in Items : Eligible(i)} :
           Enter(c, "prune", [Idle EXCEPT !.pc = "archive", !.todo = picked, !.rest = rest])
    BY <1>4 DEF Prune
  <2> DEFINE self == [Idle EXCEPT !.pc = "archive", !.todo = picked, !.rest = rest]
  <2>2. picked \in SUBSET (Items \ Learned) /\ picked \in SUBSET Items /\ rest \in SUBSET Items
    BY Kinds DEF Eligible, EligibleRow, EligibleNode
  <2> HIDE DEF rest
  <2>3. self \in RunState /\ self.pc = "archive" /\ self.todo = picked
    BY <2>2, IdleFacts DEF RunState
  <2> HIDE DEF self
  <2>4. \A next \in RunState : next.op = "prune" /\ next.pc = "archive" /\ next.todo = picked => RunOK(next)
    BY <2>2 DEF RunOK, Scrubbing
  <2>5. Enter(c, "prune", self)
    BY <2>1 DEF self
  <2> QED
    BY <2>3, <2>4, <2>5, Entered DEF Events
<1>5. ASSUME NEW i \in Items, RestoreNode(c, i)
      PROVE  RunsOK'
  <2>1. PICK life \in Stamps :
           run' = [run EXCEPT ![c] = [Idle EXCEPT !.pc = "sync", !.op = "restore",
                                                  !.item = i, !.life = life]]
    <3>1. i \in Precedents => PreArchival(i) \in Stamps
      BY <1>5, PreArchivalIs DEF RestoreNode
    <3> QED
      BY <1>5, <3>1 DEF RestoreNode, Stamps
  <2> DEFINE self == [Idle EXCEPT !.pc = "sync", !.op = "restore", !.item = i, !.life = life]
  <2>2. self \in RunState /\ self.pc = "sync" /\ self.op = "restore"
    BY <2>1, IdleFacts DEF RunState, Events
  <2> HIDE DEF self
  <2>3. RunOK(self)
    BY <2>2 DEF RunOK, Scrubbing
  <2> QED
    BY <2>1, <2>3, StepRun DEF self
<1>6. ASSUME NEW i \in Items, RestoreRow(c, i) \/ Confirm(c, i)
      PROVE  RunsOK'
  BY <1>6 DEF RestoreRow, Confirm, RunsOK
<1>7. ASSUME NEW i \in Nodes, Redact(c, i)
      PROVE  RunsOK'
  <2> DEFINE self == [Idle EXCEPT !.pc = "unvector", !.item = i]
  <2>1. self \in RunState /\ self.pc = "unvector"
    BY Kinds, IdleFacts DEF RunState
  <2>2. Enter(c, "redact", self)
    BY <1>7 DEF Redact
  <2> HIDE DEF self
  <2>3. \A next \in RunState : next.op = "redact" /\ next.pc = "unvector" => RunOK(next)
    BY DEF RunOK, Scrubbing
  <2> QED
    BY <2>1, <2>2, <2>3, Entered DEF Events
<1> QED
  BY <1>1, <1>2, <1>3, <1>4, <1>5, <1>6, <1>7, Kinds DEF Command

-----------------------------------------------------------------------------
(* Stores *)

VecType == [Items -> VecRows]

LEMMA RowTypes ==
    /\ NoRow \in DocRows /\ Tombstone \in DocRows /\ NoRow \in VecRows
    /\ \A life \in Stamps, copy \in BOOLEAN :
          /\ Row(life, copy) \in DocRows /\ Row(life, copy) \in VecRows
          /\ Row(life, copy).state = "row" /\ Row(life, copy).life = life
          /\ Row(life, copy).copy = copy
    /\ \A life \in Stamps, copy \in BOOLEAN, sure \in BOOLEAN :
          /\ Version(life, copy, sure) \in Versions /\ Version(life, copy, sure).life = life
BY DEF NoRow, Tombstone, Row, Version, DocRows, VecRows, Versions, Stamps

LEMMA MirrorType ==
    ASSUME StoresOK, NEW i \in Items, NEW life \in Stamps
    PROVE  Mirrored(i, life) \in VecType
<1>1. vec \in VecType /\ vec[i] \in VecRows
  BY DEF StoresOK, VecType
<1>2. [vec[i] EXCEPT !.life = life] \in VecRows
  BY <1>1 DEF VecRows
<1>3. [vec EXCEPT ![i].life = life] = [vec EXCEPT ![i] = [vec[i] EXCEPT !.life = life]]
  BY <1>1 DEF VecType
<1> QED
  BY <1>1, <1>2, <1>3 DEF Mirrored, VecType

\* A row is written: promoted precedents are not archived.
LEMMA DocWritten ==
    ASSUME StoresOK, NEW i \in Items, NEW row \in DocRows,
           i \in Learned /\ row.state = "row" => row.life # "archived",
           doc' = [doc EXCEPT ![i] = row], vec' \in VecType,
           UNCHANGED <<node, log, gone, ruled>>
    PROVE  StoresOK'
<1>1. doc' \in [Items -> DocRows]
  BY DEF StoresOK
<1>2. NeverArchived'
  BY Kinds DEF StoresOK, NeverArchived, Live, Top
<1> QED
  BY <1>1, <1>2 DEF StoresOK, VecType

LEMMA VersionWritten ==
    ASSUME StoresOK, NEW i \in Items, NEW v \in Versions,
           i \in Learned => v.life # "archived",
           node' = [node EXCEPT ![i] = Append(@, v)], ruled' \in SUBSET Precedents,
           UNCHANGED <<doc, vec, log, gone>>
    PROVE  /\ StoresOK' /\ node'[i] # <<>> /\ node'[i][Len(node'[i])] = v
           /\ \A j \in Items \ {i} : node'[j] = node[j]
<1>1. node[i] \in Seq(Versions)
  BY DEF StoresOK
<1>2. /\ Append(node[i], v) \in Seq(Versions) /\ Append(node[i], v) # <<>>
      /\ Append(node[i], v)[Len(Append(node[i], v))] = v
  BY <1>1
<1>3. /\ node' \in [Items -> Seq(Versions)] /\ node'[i] = Append(node[i], v)
      /\ \A j \in Items \ {i} : node'[j] = node[j]
  BY <1>2 DEF StoresOK
<1>4. NeverArchived'
  BY <1>2, <1>3, Kinds DEF StoresOK, NeverArchived, Live, Top
<1> QED
  BY <1>2, <1>3, <1>4 DEF StoresOK

LEMMA NodePurged ==
    ASSUME StoresOK, NEW i \in Items, node' = [node EXCEPT ![i] = <<>>],
           UNCHANGED <<doc, vec, log, gone, ruled>>
    PROVE  StoresOK'
<1>1. /\ node' \in [Items -> Seq(Versions)] /\ node'[i] = <<>>
      /\ \A j \in Items \ {i} : node'[j] = node[j]
  BY DEF StoresOK
<1>2. NeverArchived'
  BY <1>1, Kinds DEF StoresOK, NeverArchived, Live, Top
<1> QED
  BY <1>1, <1>2 DEF StoresOK

LEMMA VectorWritten ==
    ASSUME StoresOK, vec' \in VecType, gone' \in SUBSET Items,
           log' \in [Precedents -> {"none", "promoted", "demoted", "reinstated"}],
           UNCHANGED <<node, doc, ruled>>
    PROVE  StoresOK'
BY DEF StoresOK, VecType, NeverArchived, Live, Top

LEMMA RestampedIs ==
    ASSUME StoresOK, NEW i \in Items, Live(i), NEW life \in Stamps
    PROVE  \E v \in Versions : /\ v.life = life /\ v.copy = Top(i).copy
                               /\ Restamped(i, life) = [node EXCEPT ![i] = Append(@, v)]
<1>1. Top(i) \in Versions
  BY TopType
<1>2. [Top(i) EXCEPT !.life = life] \in Versions /\ [Top(i) EXCEPT !.life = life].life = life
      /\ [Top(i) EXCEPT !.life = life].copy = Top(i).copy
  BY <1>1 DEF Versions
<1> QED
  BY <1>2 DEF Restamped

LEMMA StepStores ==
    ASSUME StoresOK, RunsOK, NEW c \in Callers, Step(c)
    PROVE  StoresOK'
<1> DEFINE self == run[c]
<1>0. RunOK(self) /\ self \in RunState /\ self.item \in Items
      /\ self.life \in Stamps /\ self.copy \in BOOLEAN
  BY DEF RunsOK, RunOK, RunState
<1>v. vec \in VecType /\ \A i \in Items : vec[i] \in VecRows
  BY DEF StoresOK, VecType
<1>d. \A i \in Items : doc[i] \in DocRows
  BY DEF StoresOK
<1>r. ruled \in SUBSET Precedents
  BY DEF StoresOK
<1>1. CASE Create(c)
  <2> DEFINE v == Version("unset", self.copy, FALSE)
  <2>1. v \in Versions /\ v.life = "unset"
    BY <1>0, RowTypes DEF Stamps
  <2>2. CASE Replaceable(self.item)
    <3>1. node' = [node EXCEPT ![self.item] = Append(@, v)] /\ UNCHANGED <<doc, vec, log, gone, ruled>>
      BY <1>1, <2>2 DEF Create
    <3> HIDE DEF v
    <3> QED
      BY <1>0, <1>r, <2>1, <3>1, VersionWritten
  <2>3. CASE ~Replaceable(self.item)
    <3>1. UNCHANGED <<node, doc, vec, log, gone, ruled>>
      BY <1>1, <2>3 DEF Create
    <3> QED
      BY <3>1 DEF StoresOK, NeverArchived, Live, Top
  <2> QED
    BY <2>2, <2>3
<1>2. CASE Load(c) \/ Scan(c)
  <2>1. UNCHANGED <<node, doc, vec, log, gone, ruled>>
    BY <1>2 DEF Load, Scan, stores
  <2> QED
    BY <2>1 DEF StoresOK, NeverArchived, Live, Top
<1>3. CASE Put(c)
  <2>1. CASE doc[self.item].state = "tomb"
    BY <1>3, <2>1 DEF Put, StoresOK, NeverArchived, Live, Top
  <2>2. CASE doc[self.item].state # "tomb"
    <3> DEFINE row == Row(self.life, self.copy)
    <3>1. row \in DocRows /\ row.life = self.life
      BY <1>0, RowTypes
    <3>2. doc' = [doc EXCEPT ![self.item] = row] /\ vec' = Mirrored(self.item, row.life)
          /\ UNCHANGED <<node, log, gone, ruled>> /\ self.pc = "put"
      BY <1>3, <2>2 DEF Put, PutRow
    <3>3. row.life # "archived"
      BY <1>0, <3>1, <3>2 DEF RunOK
    <3> HIDE DEF row
    <3>4. vec' \in VecType
      BY <1>0, <3>1, <3>2, MirrorType
    <3> QED
      BY <1>0, <3>1, <3>2, <3>3, <3>4, DocWritten
  <2> QED
    BY <2>1, <2>2
<1>4. CASE Embed(c)
  <2>1. Row(self.life, self.copy) \in VecRows
    BY <1>0, RowTypes
  <2>2. vec' \in VecType
    BY <1>4, <1>v, <2>1 DEF Embed, VecType
  <2> QED
    BY <1>4, <2>2, VectorWritten DEF Embed, StoresOK
<1>5. ASSUME Stamp(c) \/ Restamp(c)
      PROVE  StoresOK'
  <2>1. PICK life \in {"demoted", "current"} :
           \/ UNCHANGED <<node, doc, vec, log, gone, ruled>>
           \/ /\ PutRow(self.item, [doc[self.item] EXCEPT !.life = life])
              /\ UNCHANGED <<node, log, gone, ruled>>
    BY <1>5 DEF Stamp, Restamp
  <2> DEFINE row == [doc[self.item] EXCEPT !.life = life]
  <2>2. row \in DocRows /\ row.life = life /\ life \in Stamps /\ life # "archived"
    BY <1>0, <1>d DEF DocRows, Stamps
  <2>3. CASE UNCHANGED <<node, doc, vec, log, gone, ruled>>
    BY <2>3 DEF StoresOK, NeverArchived, Live, Top
  <2>4. CASE PutRow(self.item, row) /\ UNCHANGED <<node, log, gone, ruled>>
    <3> HIDE DEF row
    <3>1. vec' \in VecType
      BY <1>0, <2>2, <2>4, MirrorType DEF PutRow
    <3> QED
      BY <1>0, <2>2, <2>4, <3>1, DocWritten DEF PutRow
  <2> QED
    BY <2>1, <2>3, <2>4
<1>6. ASSUME Mark(c) \/ Unmark(c)
      PROVE  StoresOK'
  <2>0. PICK i \in Precedents : i = self.item
    BY <1>0, <1>6 DEF Mark, Unmark, RunOK
  <2>1. CASE Live(i)
    <3>1. PICK life \in {"demoted", "current"} : node' = Restamped(i, life)
      <4>1. node' = Restamped(i, "demoted") \/ node' = Restamped(i, "current")
        BY <1>6, <2>0, <2>1 DEF Mark, Unmark
      <4> QED
        BY <4>1
    <3>2. life \in Stamps /\ life # "archived" /\ i \in Items
      BY <2>0, <3>1, Kinds DEF Stamps
    <3>3. PICK v \in Versions : v.life = life /\ Restamped(i, life) = [node EXCEPT ![i] = Append(@, v)]
      BY <2>1, <3>2, RestampedIs
    <3>4. ruled' \in SUBSET Precedents /\ UNCHANGED <<doc, vec, log, gone>>
      BY <1>6, <1>r, <2>0, <2>1 DEF Mark, Unmark
    <3> QED
      BY <3>1, <3>2, <3>3, <3>4, VersionWritten
  <2>2. CASE ~Live(i)
    BY <1>6, <2>0, <2>2 DEF Mark, Unmark, StoresOK, NeverArchived, Live, Top
  <2> QED
    BY <2>1, <2>2
<1>7. CASE Sync(c)
  <2>1. vec' \in VecType
    BY <1>0, <1>7, MirrorType DEF Sync
  <2> QED
    BY <1>7, <2>1, VectorWritten DEF Sync, StoresOK
<1>8. CASE Announce(c)
  <2>1. self.item \in Precedents /\ self.op \in {"approve", "demote", "reinstate"}
    BY <1>0, <1>8 DEF Announce, RunOK
  <2>2. Announced[self.op] \in {"promoted", "demoted", "reinstated"}
    BY <2>1 DEF Announced
  <2>3. log' \in [Precedents -> {"none", "promoted", "demoted", "reinstated"}]
    BY <1>8, <2>1, <2>2 DEF Announce, StoresOK
  <2> QED
    BY <1>8, <1>v, <2>3, VectorWritten DEF Announce, StoresOK
<1>9. CASE Archive(c)
  <2>1. PICK i \in self.todo :
         /\ IF i \in Noisy
            THEN PutRow(i, [doc[i] EXCEPT !.life = "archived"]) /\ UNCHANGED node
            ELSE /\ node' = IF Live(i) THEN Restamped(i, "archived") ELSE node
                 /\ UNCHANGED <<doc, vec>>
    BY <1>9 DEF Archive
  <2>2. i \in Items \ Learned
    BY <1>0, <1>9 DEF Archive, RunOK
  <2>3. UNCHANGED <<log, gone, ruled>>
    BY <1>9 DEF Archive
  <2> DEFINE row == [doc[i] EXCEPT !.life = "archived"]
  <2>4. row \in DocRows /\ row.life = "archived"
    BY <1>d, <2>2 DEF DocRows, Stamps
  <2>5. CASE i \in Noisy
    <3>1. PutRow(i, row) /\ UNCHANGED node
      BY <2>1, <2>5
    <3> HIDE DEF row
    <3>2. vec' \in VecType
      BY <2>2, <2>4, <3>1, MirrorType DEF PutRow, Stamps
    <3> QED
      BY <2>2, <2>3, <2>4, <3>1, <3>2, DocWritten DEF PutRow
  <2>6. CASE i \notin Noisy /\ Live(i)
    <3>1. PICK v \in Versions : Restamped(i, "archived") = [node EXCEPT ![i] = Append(@, v)]
      BY <2>2, <2>6, RestampedIs DEF Stamps
    <3> QED
      BY <1>r, <2>1, <2>2, <2>3, <2>6, <3>1, VersionWritten
  <2>7. CASE i \notin Noisy /\ ~Live(i)
    BY <2>1, <2>3, <2>7 DEF StoresOK, NeverArchived, Live, Top
  <2> QED
    BY <2>5, <2>6, <2>7
<1>10. CASE Resync(c)
  <2>1. \A i \in Items : Mirrored(i, "archived")[i] \in VecRows
    BY MirrorType DEF VecType, Stamps
  <2>2. vec' \in VecType
    BY <1>10, <1>v, <2>1 DEF Resync, VecType
  <2> QED
    BY <1>10, <2>2, VectorWritten DEF Resync, StoresOK
<1>11. CASE Unvector(c) \/ Detach(c)
  <2>1. vec' \in VecType
    BY <1>11, <1>v, RowTypes DEF Unvector, Detach, NoVector, VecType
  <2> QED
    BY <1>11, <2>1, VectorWritten DEF Unvector, Detach, StoresOK
<1>12. CASE Blank(c)
  <2>1. vec' \in VecType
    BY <1>12, <1>v, RowTypes DEF Blank, NoVector, VecType
  <2>2. CASE doc' = doc
    BY <1>12, <2>1, <2>2, VectorWritten DEF Blank, StoresOK
  <2>3. CASE doc' = [doc EXCEPT ![self.item] = Tombstone]
    BY <1>0, <1>12, <2>1, <2>3, RowTypes, DocWritten DEF Blank, Tombstone
  <2> QED
    BY <1>12, <2>2, <2>3 DEF Blank
<1>13. CASE Scrub(c)
  <2>1. PICK r \in self.todo :
           \/ UNCHANGED <<doc, vec>>
           \/ doc[r.item].state = "row" /\ PutRow(r.item, [doc[r.item] EXCEPT !.copy = FALSE])
    BY <1>13 DEF Scrub
  <2>2. UNCHANGED <<node, log, gone, ruled>>
    BY <1>13 DEF Scrub
  <2>3. self.todo \in SUBSET Scans
    BY <1>0, <1>13 DEF Scrub, RunOK, Scrubbing
  <2>4. r.item \in Items
    BY <2>3, Kinds DEF Scans
  <2> DEFINE row == [doc[r.item] EXCEPT !.copy = FALSE]
  <2>5. row \in DocRows /\ row.life = doc[r.item].life /\ row.life \in Stamps
    BY <1>d, <2>4 DEF DocRows
  <2>6. CASE UNCHANGED <<doc, vec>>
    BY <2>2, <2>6 DEF StoresOK, NeverArchived, Live, Top
  <2>7. CASE doc[r.item].state = "row" /\ PutRow(r.item, row)
    <3>1. r.item \in Learned => row.life # "archived"
      BY <2>5, <2>7 DEF StoresOK, NeverArchived
    <3> HIDE DEF row
    <3>2. vec' \in VecType
      BY <2>4, <2>5, <2>7, MirrorType DEF PutRow
    <3> QED
      BY <2>2, <2>4, <2>5, <2>7, <3>1, <3>2, DocWritten DEF PutRow
  <2> QED
    BY <2>1, <2>6, <2>7
<1>14. CASE Purge(c)
  BY <1>0, <1>14, NodePurged DEF Purge
<1>15. CASE Recreate(c)
  <2> DEFINE v == Version(self.life, FALSE, FALSE)
  <2>1. v \in Versions /\ v.life = self.life
    BY <1>0, RowTypes
  <2>2. self.item \in Learned => v.life # "archived"
    BY <1>0, <1>15, <2>1 DEF Recreate, RunOK
  <2>3. node' = [node EXCEPT ![self.item] = Append(@, v)] /\ UNCHANGED <<doc, vec, log, gone, ruled>>
    BY <1>15 DEF Recreate, Scrubbed
  <2> HIDE DEF v
  <2> QED
    BY <1>0, <1>r, <2>1, <2>2, <2>3, VersionWritten
<1>16. CASE Drop(c) \/ Report(c)
  <2>1. PICK i \in Items : self.rest = {i}
    BY <1>0, <1>16 DEF Drop, Report, RunOK, Scrubbing
  <2>2. TargetOf(self) = i
    BY <2>1 DEF TargetOf
  <2>3. CASE Drop(c)
    BY <2>2, <2>3, NodePurged DEF Drop
  <2>4. CASE Report(c)
    <3>1. gone' \in SUBSET Items
      BY <2>2, <2>4 DEF Report, StoresOK
    <3> QED
      BY <1>v, <2>4, <3>1, VectorWritten DEF Report, StoresOK
  <2> QED
    BY <1>16, <2>3, <2>4
<1> QED
  BY <1>1, <1>2, <1>3, <1>4, <1>5, <1>6, <1>7, <1>8, <1>9, <1>10, <1>11, <1>12, <1>13, <1>14,
     <1>15, <1>16 DEF Step

LEMMA CommandStores ==
    ASSUME StoresOK, NEW c \in Callers, Command(c)
    PROVE  StoresOK'
<1>1. CASE UNCHANGED stores
  BY <1>1 DEF stores, StoresOK, NeverArchived, Live, Top
<1>2. ASSUME NEW i \in Items, RestoreRow(c, i)
      PROVE  StoresOK'
  <2> DEFINE row == Row("current", doc[i].copy)
  <2>1. doc[i].copy \in BOOLEAN
    BY DEF StoresOK, DocRows
  <2>2. row \in DocRows /\ row.life = "current"
    BY <2>1, RowTypes DEF Stamps
  <2>3. PutRow(i, row) /\ UNCHANGED <<node, log, gone, ruled>>
    BY <1>2 DEF RestoreRow
  <2> HIDE DEF row
  <2>4. vec' \in VecType
    BY <2>2, <2>3, MirrorType DEF PutRow, Stamps
  <2> QED
    BY <2>2, <2>3, <2>4, DocWritten DEF PutRow
<1>3. ASSUME NEW i \in Items, RestoreNode(c, i)
      PROVE  StoresOK'
  <2>1. PICK life \in Stamps : node' = Restamped(i, life)
    BY <1>3, PreArchivalIs DEF RestoreNode, Stamps
  <2>2. Live(i) /\ Top(i).life = "archived" /\ UNCHANGED <<doc, vec, log, gone, ruled>>
    BY <1>3 DEF RestoreNode
  <2>3. i \notin Learned
    BY <2>2 DEF StoresOK, NeverArchived
  <2>4. PICK v \in Versions : Restamped(i, life) = [node EXCEPT ![i] = Append(@, v)]
    BY <2>2, RestampedIs
  <2> QED
    BY <2>1, <2>2, <2>3, <2>4, VersionWritten DEF StoresOK
<1>4. ASSUME NEW i \in Mints, Confirm(c, i)
      PROVE  StoresOK'
  <2>1. Live(i) /\ i \in Items /\ i \notin Learned
    BY <1>4, Kinds DEF Confirm
  <2> DEFINE v == [Top(i) EXCEPT !.sure = TRUE]
  <2>2. v \in Versions
    BY <2>1, TopType DEF Versions
  <2>3. node' = [node EXCEPT ![i] = Append(@, v)] /\ UNCHANGED <<doc, vec, log, gone, ruled>>
    BY <1>4 DEF Confirm
  <2> HIDE DEF v
  <2> QED
    BY <2>1, <2>2, <2>3, VersionWritten DEF StoresOK
<1> QED
  BY <1>1, <1>2, <1>3, <1>4 DEF Command, Approve, Demote, Reinstate, Prune, Redact, Enter

-----------------------------------------------------------------------------
(* The invariant *)

LEMMA InitInv == Init => Inv
<1> SUFFICES ASSUME Init PROVE Inv
  OBVIOUS
<1>1. PICK bare \in SUBSET Learned, full \in SUBSET Learned :
         /\ node = [i \in Items |->
              IF i \in Noisy \cup (Learned \ (bare \cup full)) THEN <<>>
              ELSE <<Version("unset", i \in Precedents \cup {Source}, FALSE)>>]
         /\ doc = [i \in Items |->
              IF i \in full \cup Noisy \cup {Source}
              THEN Row("unset", i \notin Noisy) ELSE NoRow]
         /\ vec = doc
         /\ log = [i \in Precedents |-> IF i \in bare \cup full THEN "promoted" ELSE "none"]
  BY DEF Init
<1>2. \A copy \in BOOLEAN : Version("unset", copy, FALSE) \in Versions
        /\ Row("unset", copy) \in DocRows /\ Row("unset", copy) \in VecRows
        /\ Version("unset", copy, FALSE).life = "unset" /\ Row("unset", copy).life = "unset"
  BY RowTypes DEF Stamps
<1>3. \A i \in Items : (i \in Precedents \cup {Source}) \in BOOLEAN /\ (i \notin Noisy) \in BOOLEAN
  OBVIOUS
<1>4. \A i \in Items : node[i] \in Seq(Versions) /\ (node[i] # <<>> => node[i][Len(node[i])].life = "unset")
  <2> TAKE i \in Items
  <2>1. Version("unset", i \in Precedents \cup {Source}, FALSE) \in Versions
        /\ Version("unset", i \in Precedents \cup {Source}, FALSE).life = "unset"
    BY <1>2, <1>3
  <2>2. node[i] = <<>> \/ node[i] = <<Version("unset", i \in Precedents \cup {Source}, FALSE)>>
    BY <1>1
  <2>3. CASE node[i] = <<>>
    BY <2>3
  <2>4. ASSUME NEW v \in Versions, v.life = "unset", node[i] = <<v>>
        PROVE  node[i] \in Seq(Versions) /\ node[i][Len(node[i])].life = "unset"
    BY <2>4
  <2> QED
    BY <2>1, <2>2, <2>3, <2>4
<1>5. node \in [Items -> Seq(Versions)]
  BY <1>1, <1>4
<1>6. \A i \in Items : doc[i] \in DocRows /\ doc[i] \in VecRows /\ doc[i].life = "unset"
  BY <1>1, <1>2, <1>3, RowTypes DEF NoRow
<1>7. doc \in [Items -> DocRows] /\ vec \in [Items -> VecRows]
  BY <1>1, <1>6
<1>8. NeverArchived
  BY <1>4, <1>6, Kinds DEF NeverArchived, Live, Top
<1>9. StoresOK
  BY <1>1, <1>5, <1>7, <1>8 DEF StoresOK, Init
<1>10. RunsOK
  BY IdleOK, IdleFacts DEF RunsOK, Init
<1>11. RestOK
  <2>1. env \in Modes /\ down = FALSE /\ spent = [acts |-> 0, faults |-> 0]
    BY DEF Init
  <2>2. 0 \in 0..MaxActs /\ 0 \in 0..MaxFaults /\ Modes \subseteq (SUBSET Events)
    BY LifecycleAssumption
  <2>3. spent \in [acts : 0..MaxActs, faults : 0..MaxFaults]
    BY <2>1, <2>2
  <2> QED
    BY <2>1, <2>2, <2>3 DEF RestOK
<1> QED
  BY <1>9, <1>10, <1>11 DEF Inv

LEMMA RestStep == RestOK /\ [Next]_vars => RestOK'
<1> SUFFICES ASSUME RestOK, [Next]_vars PROVE RestOK'
  OBVIOUS
<1>1. ASSUME NEW c \in Callers, Step(c)
      PROVE  (Fault \/ spent' = spent) /\ UNCHANGED <<env, down>>
  BY <1>1 DEF Step, Create, Load, Put, Embed, Stamp, Mark, Sync, Announce, Unmark, Restamp, Archive,
     Resync, Unvector, Blank, Scan, Scrub, Detach, Purge, Recreate, Drop, Report
<1>2. ASSUME NEW c \in Callers, Command(c)
      PROVE  /\ spent.acts < MaxActs /\ spent' = [spent EXCEPT !.acts = @ + 1]
             /\ UNCHANGED <<env, down>>
  BY <1>2 DEF Command, Approve, Demote, Reinstate, Prune, RestoreRow, RestoreNode, Confirm, Redact,
     Enter, Admit
<1>3. ASSUME NEW c \in Callers, Die(c)
      PROVE  Fault /\ UNCHANGED <<env, down>>
  BY <1>3 DEF Die
<1>4. Outage \/ Return => down' \in BOOLEAN /\ env' = env /\ (Fault \/ spent' = spent)
  BY DEF Outage, Return
<1>5. UNCHANGED vars => UNCHANGED <<env, down, spent>>
  BY DEF vars
<1>6. \/ spent' = spent
      \/ spent.acts < MaxActs /\ spent' = [spent EXCEPT !.acts = @ + 1]
      \/ spent.faults < MaxFaults /\ spent' = [spent EXCEPT !.faults = @ + 1]
  BY <1>1, <1>2, <1>3, <1>4, <1>5 DEF Next, Fault
<1>7. spent' \in [acts : 0..MaxActs, faults : 0..MaxFaults]
  BY <1>6, LifecycleAssumption DEF RestOK
<1>8. env' = env /\ down' \in BOOLEAN
  BY <1>1, <1>2, <1>3, <1>4, <1>5 DEF Next, RestOK
<1> QED
  BY <1>7, <1>8 DEF RestOK

LEMMA InvStep == Inv /\ [Next]_vars => Inv'
<1> SUFFICES ASSUME Inv, [Next]_vars PROVE Inv'
  OBVIOUS
<1>0. StoresOK /\ RunsOK /\ RestOK
  BY DEF Inv
<1>1. RestOK'
  BY <1>0, RestStep
<1>2. ASSUME NEW c \in Callers, Step(c) \/ Command(c)
      PROVE  StoresOK' /\ RunsOK'
  BY <1>0, <1>2, StepStores, StepLocal, CommandStores, CommandLocal
<1>3. ASSUME NEW c \in Callers, Die(c)
      PROVE  StoresOK' /\ RunsOK'
  <2>1. RunsOK'
    BY <1>0, <1>3, DoneOK DEF Die
  <2>2. UNCHANGED stores
    BY <1>3 DEF Die
  <2> QED
    BY <1>0, <2>1, <2>2 DEF stores, StoresOK, NeverArchived, Live, Top
<1>4. ASSUME Outage \/ Return \/ UNCHANGED vars
      PROVE  StoresOK' /\ RunsOK'
  <2>1. UNCHANGED <<stores, run>>
    BY <1>4 DEF Outage, Return, vars
  <2>2. StoresOK'
    BY <1>0, <2>1 DEF stores, StoresOK, NeverArchived, Live, Top
  <2>3. RunsOK'
    BY <1>0, <2>1 DEF RunsOK
  <2> QED
    BY <2>2, <2>3
<1> QED
  BY <1>1, <1>2, <1>3, <1>4 DEF Next, Inv

\* Every variable keeps its type: no command leaves a store or a local with a
\* value the next reader does not expect, and retention never stamps a
\* promoted precedent as archived.
THEOREM TypeCorrect == Spec => []TypeOK
<1>1. Spec => []Inv
  BY InitInv, InvStep, PTL DEF Spec
<1> QED
  BY <1>1, InvTypes, PTL

\* A blank row a redaction left stays blank, whoever overlaps or dies
\* (put_document refuses a tombstone, and the other writers of a row need one).
THEOREM BlankRowsStay == Spec => TombstoneStands
<1> DEFINE Stands == \A i \in Items : doc[i].state = "tomb" => doc'[i].state = "tomb"
<1>1. ASSUME Inv, [Next]_vars
      PROVE  Stands
  <2> SUFFICES ASSUME NEW i \in Items, doc[i].state = "tomb" PROVE doc'[i].state = "tomb"
    OBVIOUS
  <2>0. /\ doc \in [Items -> DocRows] /\ Tombstone.state = "tomb"
        /\ \A j \in Noisy : j \in Items
    BY <1>1 DEF Inv, StoresOK, Tombstone, Items
  <2>1. \/ doc' = doc
        \/ \E j, row : /\ doc' = [doc EXCEPT ![j] = row]
                       /\ doc[j].state = "tomb" => row.state = "tomb"
    <3>1. ASSUME NEW c \in Callers, Step(c)
          PROVE  \/ doc' = doc
                 \/ \E j, row : /\ doc' = [doc EXCEPT ![j] = row]
                                /\ doc[j].state = "tomb" => row.state = "tomb"
      <4>1. CASE Archive(c)
        <5>1. PICK j \in run[c].todo :
                 IF j \in Noisy THEN doc' = [doc EXCEPT ![j] = [doc[j] EXCEPT !.life = "archived"]]
                 ELSE doc' = doc
          BY <4>1 DEF Archive, PutRow
        <5>2. j \in Noisy => [doc[j] EXCEPT !.life = "archived"].state = doc[j].state
          BY <2>0 DEF DocRows
        <5> QED
          BY <5>1, <5>2
      <4>2. CASE Put(c) \/ Stamp(c) \/ Restamp(c) \/ Scrub(c)
        BY <4>2 DEF Put, Stamp, Restamp, Scrub, PutRow
      <4>3. CASE Blank(c)
        BY <2>0, <4>3 DEF Blank
      <4> QED
        BY <3>1, <4>1, <4>2, <4>3 DEF Step, Create, Load, Embed, Mark, Sync, Announce, Unmark, Resync,
           Unvector, Scan, Detach, Purge, Recreate, Drop, Report, stores
    <3>2. ASSUME NEW c \in Callers, Command(c)
          PROVE  \/ doc' = doc
                 \/ \E j, row : /\ doc' = [doc EXCEPT ![j] = row]
                                /\ doc[j].state = "tomb" => row.state = "tomb"
      BY <3>2 DEF Command, Approve, Demote, Reinstate, Prune, RestoreRow, RestoreNode, Confirm, Redact,
         Enter, stores, Restorable, PutRow
    <3> QED
      BY <1>1, <3>1, <3>2 DEF Next, Outage, Return, Die, vars, stores
  <2> QED
    BY <2>0, <2>1
<1>2. Spec => []Inv
  BY InitInv, InvStep, PTL DEF Spec
<1>3. Inv /\ [Next]_vars => [Stands]_vars
  BY <1>1
<1> HIDE DEF Stands
<1>4. Spec => [][Stands]_vars
  BY <1>2, <1>3, PTL DEF Spec
<1> QED
  BY <1>4 DEF TombstoneStands, Stands

-----------------------------------------------------------------------------
(* A demoted node and its row *)

DemotedIn(n, p) == n[p] # <<>> /\ n[p][Len(n[p])].life = "demoted"
WithheldIn(d, p) == d[p].state = "row" => d[p].life \in {"demoted", "archived"}
RowsIn(n, d) == \A p \in Learned : DemotedIn(n, p) => WithheldIn(d, p)

\* What a command that runs alone has made sure of, or will: a promotion puts
\* the stamp the node has, a demotion marks the node after the row, a
\* reinstatement the row after the node, and the stamp a redaction puts back on
\* a node is one whose row is withheld.
HoldsIn(self, n, d) ==
    /\ self.pc = "put" /\ DemotedIn(n, self.item) => self.life = "demoted"
    /\ self.pc = "mark" => WithheldIn(d, self.item)
    /\ self.pc = "restamp" => ~DemotedIn(n, self.item)
    /\ self.pc \in Scrubbing \/ (self.pc = "embed" /\ self.op = "redact") =>
          \A r \in self.todo : r.item \in Learned /\ r.row.life = "demoted" => WithheldIn(d, r.item)
    /\ self.pc \in {"detach", "purge", "recreate"} /\ self.item \in Learned /\ self.life = "demoted"
          => WithheldIn(d, self.item)

Alone(rs) == \A c, d \in Callers : rs[c].pc # "idle" /\ rs[d].pc # "idle" => c = d

WithheldInv ==
    Turns => Alone(run) /\ RowsIn(node, doc) /\ \A c \in Callers : HoldsIn(run[c], node, doc)

LEMMA IdleHolds == ASSUME NEW self, self.pc = "idle", NEW n, NEW d PROVE HoldsIn(self, n, d)
BY DEF HoldsIn, Scrubbing

\* The command that moves is the one that runs.
LEMMA MovesAlone ==
    ASSUME RunsOK, Alone(run), NEW c \in Callers, NEW self,
           run[c].pc # "idle" \/ \A e \in Callers : run[e].pc = "idle",
           run' = [run EXCEPT ![c] = self]
    PROVE  Alone(run') /\ \A e \in Callers : run'[e] = self \/ run'[e].pc = "idle"
<1>1. run'[c] = self /\ \A e \in Callers \ {c} : run'[e] = run[e] /\ run[e].pc = "idle"
  BY DEF RunsOK, Alone
<1> QED
  BY <1>1 DEF Alone

\* A version is appended to one node.
LEMMA NodeGrown ==
    ASSUME StoresOK, NEW i \in Items, NEW v \in Versions, node' = [node EXCEPT ![i] = Append(@, v)]
    PROVE  /\ DemotedIn(node', i) => v.life = "demoted"
           /\ \A p \in Items : p # i => (DemotedIn(node', p) => DemotedIn(node, p))
<1>1. /\ node[i] \in Seq(Versions) /\ node'[i] = Append(node[i], v)
      /\ \A p \in Items \ {i} : node'[p] = node[p]
  BY DEF StoresOK
<1>2. Append(node[i], v) # <<>> /\ Append(node[i], v)[Len(Append(node[i], v))] = v
  BY <1>1
<1> QED
  BY <1>1, <1>2 DEF DemotedIn

LEMMA NodeGoes ==
    ASSUME StoresOK, NEW i \in Items, NEW n, n = [node EXCEPT ![i] = <<>>]
    PROVE  \A p \in Items : DemotedIn(n, p) => DemotedIn(node, p)
BY DEF StoresOK, DemotedIn

\* One row is written, with its stamp or one that withholds it.
LEMMA RowKept ==
    ASSUME StoresOK, NEW i \in Items, NEW row, NEW d, d = [doc EXCEPT ![i] = row],
           \/ row.state = doc[i].state /\ row.life = doc[i].life
           \/ row.state # "row" \/ row.life \in {"demoted", "archived"}
    PROVE  \A p \in Items : WithheldIn(doc, p) => WithheldIn(d, p)
BY DEF StoresOK, WithheldIn

LEMMA StillHolds ==
    ASSUME RunsOK, NEW c \in Callers, NEW pc \in Stages, Goto(c, pc), Follows(run[c], pc),
           HoldsIn(run[c], node, doc), pc \notin {"mark", "restamp"},
           NEW n, NEW d,
           \A p \in Items : DemotedIn(n, p) => DemotedIn(node, p),
           \A p \in Items : WithheldIn(doc, p) => WithheldIn(d, p)
    PROVE  \E self : run' = [run EXCEPT ![c] = self] /\ HoldsIn(self, n, d)
<1> DEFINE self == run[c]
           next == [self EXCEPT !.pc = pc]
<1>0. self \in RunState /\ RunOK(self) /\ self.item \in Items
  BY DEF RunsOK, RunOK, RunState
<1>1. run' = [run EXCEPT ![c] = next]
  BY DEF Goto, RunsOK
<1>2. /\ next.pc = pc /\ next.op = self.op /\ next.item = self.item /\ next.life = self.life
      /\ next.todo = self.todo
  BY <1>0, MovedTo
<1>3. \A r \in self.todo : r \in Scans => r.item \in Items
  BY Kinds DEF Scans
<1> HIDE DEF next
<1>4. HoldsIn(next, n, d)
  BY <1>0, <1>2, <1>3 DEF HoldsIn, Follows, Scrubbing, RunOK
<1> QED
  BY <1>1, <1>4

LEMMA DoneHolds ==
    ASSUME NEW c \in Callers, Done(c), NEW n, NEW d
    PROVE  \E self : run' = [run EXCEPT ![c] = self] /\ HoldsIn(self, n, d)
BY IdleOK, IdleHolds DEF Done

LEMMA StepWithholds ==
    ASSUME Inv, NEW c \in Callers, Step(c), RowsIn(node, doc), HoldsIn(run[c], node, doc)
    PROVE  /\ RowsIn(node', doc')
           /\ \E self : run' = [run EXCEPT ![c] = self] /\ HoldsIn(self, node', doc')
<1> DEFINE me == run[c]
           Held == \E self : run' = [run EXCEPT ![c] = self] /\ HoldsIn(self, node', doc')
<1>0. /\ StoresOK /\ RunsOK /\ RunOK(me) /\ me \in RunState
      /\ me.item \in Items /\ me.life \in Stamps /\ me.copy \in BOOLEAN
  BY DEF Inv, RunsOK, RunOK, RunState
<1>d. \A i \in Items : doc[i] \in DocRows
  BY <1>0 DEF StoresOK
<1>1. CASE Embed(c) \/ Sync(c) \/ Announce(c) \/ Resync(c) \/ Unvector(c) \/ Detach(c) \/ Report(c)
  <2>1. UNCHANGED <<node, doc>>
    BY <1>1 DEF Embed, Sync, Announce, Resync, Unvector, Detach, Report
  <2>2. Done(c) \/ \E pc \in Stages \ {"mark", "restamp"} : Goto(c, pc) /\ Follows(me, pc)
    BY <1>1 DEF Embed, Sync, Announce, Resync, Unvector, Detach, Report, NoVector, Follows, Stages
  <2> QED
    BY <1>0, <2>1, <2>2, StillHolds, DoneHolds
<1>2. CASE Create(c)
  <2>1. doc' = doc /\ (Done(c) \/ Goto(c, "load"))
    BY <1>2 DEF Create
  <2>2. \A p \in Items : DemotedIn(node', p) => DemotedIn(node, p)
    <3> DEFINE v == Version("unset", me.copy, FALSE)
    <3>1. v \in Versions /\ v.life = "unset"
      BY <1>0, RowTypes DEF Stamps
    <3>2. node' = node \/ node' = [node EXCEPT ![me.item] = Append(@, v)]
      BY <1>2 DEF Create
    <3> HIDE DEF v
    <3> QED
      BY <1>0, <3>1, <3>2, NodeGrown
  <2>3. Held
    <3>1. CASE Goto(c, "load")
      <4>1. Follows(me, "load") /\ "load" \in Stages
        BY <1>2 DEF Create, Follows, Stages
      <4> QED
        BY <1>0, <2>1, <2>2, <3>1, <4>1, StillHolds
    <3> QED
      BY <2>1, <3>1, DoneHolds
  <2> QED
    BY <2>1, <2>2, <2>3, Kinds DEF RowsIn
<1>3. CASE Load(c)
  <2> DEFINE next == [me EXCEPT !.pc = IF Live(me.item) THEN "put" ELSE "announce",
                                !.life = IF Live(me.item) THEN Top(me.item).life ELSE @,
                                !.copy = IF Live(me.item) THEN Top(me.item).copy ELSE @]
  <2>1. run' = [run EXCEPT ![c] = next] /\ UNCHANGED <<node, doc>>
    BY <1>0, <1>3 DEF Load, RunsOK, stores
  <2>2. /\ next.pc = IF Live(me.item) THEN "put" ELSE "announce"
        /\ next.item = me.item /\ next.op = me.op
        /\ Live(me.item) => next.life = Top(me.item).life
    BY <1>0 DEF RunState
  <2> HIDE DEF next
  <2>3. HoldsIn(next, node', doc')
    BY <2>1, <2>2 DEF HoldsIn, Scrubbing, DemotedIn, Live, Top
  <2> QED
    BY <2>1, <2>3
<1>4. CASE Put(c)
  <2>1. CASE doc[me.item].state = "tomb"
    <3>1. UNCHANGED <<node, doc>> /\ Done(c)
      BY <1>4, <2>1 DEF Put
    <3> QED
      BY <3>1, DoneHolds
  <2>2. CASE doc[me.item].state # "tomb"
    <3> DEFINE row == Row(me.life, me.copy)
    <3>1. /\ doc' = [doc EXCEPT ![me.item] = row] /\ node' = node
          /\ Goto(c, "embed") /\ me.pc = "put" /\ me.op = "approve"
      BY <1>0, <1>4, <2>2 DEF Put, PutRow, RunOK
    <3>2. row.life = me.life
      BY <1>0, RowTypes
    <3> HIDE DEF row
    <3>3. RowsIn(node', doc')
      <4> SUFFICES ASSUME NEW p \in Learned, DemotedIn(node, p) PROVE WithheldIn(doc', p)
        BY <3>1 DEF RowsIn
      <4>1. CASE p = me.item
        BY <1>0, <3>1, <3>2, <4>1 DEF HoldsIn, WithheldIn, StoresOK
      <4>2. CASE p # me.item
        BY <1>0, <3>1, <4>2, Kinds DEF RowsIn, WithheldIn, StoresOK
      <4> QED
        BY <4>1, <4>2
    <3> DEFINE next == [me EXCEPT !.pc = "embed"]
    <3>4. run' = [run EXCEPT ![c] = next] /\ next.pc = "embed" /\ next.op = "approve"
      BY <1>0, <3>1 DEF Goto, RunsOK, RunState
    <3> HIDE DEF next
    <3>5. HoldsIn(next, node', doc')
      BY <3>4 DEF HoldsIn, Scrubbing
    <3> QED
      BY <3>3, <3>4, <3>5
  <2> QED
    BY <2>1, <2>2
<1>5. CASE Stamp(c)
  <2> DEFINE row == [doc[me.item] EXCEPT !.life = "demoted"]
             next == [me EXCEPT !.pc = "mark"]
  <2>1. row.life = "demoted"
    BY <1>0, <1>d DEF DocRows
  <2>2. /\ node' = node
        /\ \/ doc' = [doc EXCEPT ![me.item] = row]
           \/ doc' = doc /\ doc[me.item].state # "row"
    BY <1>5 DEF Stamp, PutRow
  <2> HIDE DEF row
  <2>3. WithheldIn(doc', me.item) /\ \A p \in Items : WithheldIn(doc, p) => WithheldIn(doc', p)
    BY <1>0, <2>1, <2>2, RowKept DEF WithheldIn, StoresOK
  <2>4. /\ run' = [run EXCEPT ![c] = next] /\ next.pc = "mark" /\ next.item = me.item
    BY <1>0, <1>5 DEF Stamp, Goto, RunsOK, RunState
  <2> HIDE DEF next
  <2>5. HoldsIn(next, node', doc')
    BY <2>3, <2>4 DEF HoldsIn, Scrubbing
  <2> QED
    BY <2>2, <2>3, <2>4, <2>5, Kinds DEF RowsIn
<1>6. CASE Mark(c)
  <2>1. /\ doc' = doc /\ me.pc = "mark" /\ (Done(c) \/ Goto(c, "sync")) /\ WithheldIn(doc, me.item)
        /\ me.op = "demote" /\ (Live(me.item) => node' = Restamped(me.item, "demoted"))
        /\ (~Live(me.item) => node' = node)
    BY <1>0, <1>6 DEF Mark, RunOK, HoldsIn
  <2>2. RowsIn(node', doc')
    <3>1. CASE Live(me.item)
      <4>1. PICK v \in Versions : Restamped(me.item, "demoted") = [node EXCEPT ![me.item] = Append(@, v)]
        BY <1>0, <3>1, RestampedIs DEF Stamps
      <4>2. \A p \in Items : p # me.item => (DemotedIn(node', p) => DemotedIn(node, p))
        BY <1>0, <2>1, <3>1, <4>1, NodeGrown
      <4> QED
        BY <2>1, <4>2, Kinds DEF RowsIn
    <3> QED
      BY <2>1, <3>1
  <2>3. Held
    <3>1. CASE Goto(c, "sync")
      <4> DEFINE next == [me EXCEPT !.pc = "sync"]
      <4>1. run' = [run EXCEPT ![c] = next] /\ next.pc = "sync"
        BY <1>0, <3>1 DEF Goto, RunsOK, RunState
      <4> HIDE DEF next
      <4> QED
        BY <4>1 DEF HoldsIn, Scrubbing
    <3> QED
      BY <2>1, <3>1, DoneHolds
  <2> QED
    BY <2>2, <2>3
<1>7. CASE Unmark(c)
  <2>1. /\ doc' = doc /\ (Live(me.item) => node' = Restamped(me.item, "current") /\ Goto(c, "restamp"))
        /\ (~Live(me.item) => node' = node /\ Done(c))
    BY <1>7 DEF Unmark
  <2>2. CASE Live(me.item)
    <3>1. PICK v \in Versions : /\ v.life = "current"
                                /\ Restamped(me.item, "current") = [node EXCEPT ![me.item] = Append(@, v)]
      BY <1>0, <2>2, RestampedIs DEF Stamps
    <3>2. (\A p \in Items : DemotedIn(node', p) => DemotedIn(node, p))
          /\ ~DemotedIn(node', me.item)
      BY <1>0, <2>1, <2>2, <3>1, NodeGrown
    <3> DEFINE next == [me EXCEPT !.pc = "restamp"]
    <3>3. run' = [run EXCEPT ![c] = next] /\ next.pc = "restamp" /\ next.item = me.item
      BY <1>0, <2>1, <2>2 DEF Goto, RunsOK, RunState
    <3> HIDE DEF next
    <3>4. HoldsIn(next, node', doc')
      BY <1>0, <3>2, <3>3 DEF HoldsIn, Scrubbing
    <3> QED
      BY <2>1, <3>2, <3>3, <3>4, Kinds DEF RowsIn
  <2> QED
    BY <2>1, <2>2, DoneHolds
<1>8. CASE Restamp(c)
  <2>1. /\ node' = node /\ (Goto(c, "sync") \/ Done(c)) /\ ~DemotedIn(node, me.item)
        /\ doc' = doc \/ doc' = [doc EXCEPT ![me.item] = [doc[me.item] EXCEPT !.life = "current"]]
    BY <1>8 DEF Restamp, PutRow, HoldsIn
  <2>2. RowsIn(node', doc')
    BY <1>0, <2>1, Kinds DEF RowsIn, WithheldIn, StoresOK
  <2>3. CASE Goto(c, "sync")
    <3> DEFINE next == [me EXCEPT !.pc = "sync"]
    <3>1. run' = [run EXCEPT ![c] = next] /\ next.pc = "sync"
      BY <1>0, <2>3 DEF Goto, RunsOK, RunState
    <3> HIDE DEF next
    <3> QED
      BY <2>2, <3>1 DEF HoldsIn, Scrubbing
  <2> QED
    BY <2>1, <2>2, <2>3, DoneHolds
<1>9. CASE Archive(c)
  <2>1. PICK i \in me.todo :
         /\ IF i \in Noisy
            THEN PutRow(i, [doc[i] EXCEPT !.life = "archived"]) /\ UNCHANGED node
            ELSE /\ node' = IF Live(i) THEN Restamped(i, "archived") ELSE node
                 /\ UNCHANGED <<doc, vec>>
         /\ run' = [run EXCEPT ![c].todo = @ \ {i}]
    BY <1>9 DEF Archive
  <2>2. i \in Items /\ i \notin Learned /\ me.pc = "archive"
    BY <1>0, <1>9 DEF Archive, RunOK
  <2>3. \A p \in Learned : (DemotedIn(node', p) => DemotedIn(node, p)) /\ doc'[p] = doc[p]
    <3>1. CASE i \in Noisy
      <4>1. node' = node /\ doc' = [doc EXCEPT ![i] = [doc[i] EXCEPT !.life = "archived"]]
        BY <2>1, <3>1 DEF PutRow
      <4> QED
        BY <1>0, <2>2, <4>1, Kinds DEF StoresOK
    <3>2. CASE i \notin Noisy /\ Live(i)
      <4>1. PICK v \in Versions : Restamped(i, "archived") = [node EXCEPT ![i] = Append(@, v)]
        BY <1>0, <2>2, <3>2, RestampedIs DEF Stamps
      <4>2. \A p \in Items : p # i => (DemotedIn(node', p) => DemotedIn(node, p))
        BY <1>0, <2>1, <2>2, <3>2, <4>1, NodeGrown
      <4> QED
        BY <2>1, <2>2, <3>2, <4>2, Kinds
    <3> QED
      BY <2>1, <3>1, <3>2
  <2> DEFINE next == [me EXCEPT !.todo = @ \ {i}]
  <2>4. run' = [run EXCEPT ![c] = next] /\ next.pc = "archive"
    BY <1>0, <2>1, <2>2 DEF RunsOK, RunState
  <2> HIDE DEF next
  <2>5. HoldsIn(next, node', doc')
    BY <2>4 DEF HoldsIn, Scrubbing
  <2> QED
    BY <2>3, <2>4, <2>5 DEF RowsIn, WithheldIn
<1>10. CASE Blank(c)
  <2>1. /\ node' = node /\ (Done(c) \/ Goto(c, "scan")) /\ me.pc = "blank"
        /\ doc' = doc \/ doc' = [doc EXCEPT ![me.item] = Tombstone]
    BY <1>10 DEF Blank, NoVector
  <2>2. \A p \in Items : WithheldIn(doc, p) => WithheldIn(doc', p)
    BY <1>0, <2>1, RowKept DEF Tombstone
  <2>3. Held
    BY <1>0, <2>1, <2>2, StillHolds, DoneHolds DEF Follows, Stages
  <2> QED
    BY <2>1, <2>2, <2>3, Kinds DEF RowsIn
<1>11. CASE Scan(c)
  <2> DEFINE found == {[item |-> p, row |-> Top(p)] : p \in Quoting(me.item)}
             next == [me EXCEPT !.pc = "scrub", !.todo = found, !.rest = {me.item}]
  <2>1. run' = [run EXCEPT ![c] = next] /\ UNCHANGED <<node, doc>>
    BY <1>0, <1>11 DEF Scan, RunsOK, stores
  <2>2. \A r \in found : r.item \in Learned /\ r.row.life = "demoted" => DemotedIn(node, r.item)
    BY DEF Quoting, DemotedIn, Live, Top
  <2> HIDE DEF found
  <2>3. next.pc = "scrub" /\ next.todo = found
    BY <1>0 DEF RunState
  <2> HIDE DEF next
  <2>4. HoldsIn(next, node', doc')
    BY <2>1, <2>2, <2>3 DEF HoldsIn, RowsIn
  <2> QED
    BY <2>1, <2>4
<1>12. CASE Scrub(c)
  <2>1. /\ node' = node /\ me.pc = "scrub" /\ me.todo \in SUBSET Scans
        /\ \A r \in me.todo : r.item \in Learned /\ r.row.life = "demoted" => WithheldIn(doc, r.item)
    BY <1>0, <1>12 DEF Scrub, RunOK, HoldsIn, Scrubbing
  <2>2. PICK r \in me.todo :
           /\ \/ doc' = doc
              \/ doc' = [doc EXCEPT ![r.item] = [doc[r.item] EXCEPT !.copy = FALSE]]
           /\ \/ run' = [run EXCEPT ![c].pc = "detach", ![c].todo = me.todo \ {r},
                                    ![c].item = r.item, ![c].life = r.row.life]
              \/ run' = [run EXCEPT ![c].todo = me.todo \ {r}]
    BY <1>12 DEF Scrub, PutRow
  <2>3. r.item \in Items /\ \A q \in me.todo : q.item \in Items
    BY <2>1, Kinds DEF Scans
  <2>4. \A p \in Items : WithheldIn(doc, p) => WithheldIn(doc', p)
    <3>1. [doc[r.item] EXCEPT !.copy = FALSE].state = doc[r.item].state
          /\ [doc[r.item] EXCEPT !.copy = FALSE].life = doc[r.item].life
      BY <1>d, <2>3 DEF DocRows
    <3> QED
      BY <1>0, <2>2, <2>3, <3>1, RowKept
  <2> DEFINE next == [me EXCEPT !.pc = "detach", !.todo = me.todo \ {r},
                                !.item = r.item, !.life = r.row.life]
             stay == [me EXCEPT !.todo = me.todo \ {r}]
  <2>5. run' = [run EXCEPT ![c] = next] \/ run' = [run EXCEPT ![c] = stay]
    BY <1>0, <2>2 DEF RunsOK
  <2>6. /\ next.pc = "detach" /\ next.item = r.item /\ next.life = r.row.life
        /\ next.todo = me.todo \ {r} /\ stay.pc = "scrub" /\ stay.todo = me.todo \ {r}
    BY <1>0, <2>1 DEF RunState
  <2> HIDE DEF next, stay
  <2>7. HoldsIn(next, node', doc') /\ HoldsIn(stay, node', doc')
    BY <2>1, <2>3, <2>4, <2>6 DEF HoldsIn, Scrubbing
  <2> QED
    BY <2>1, <2>4, <2>5, <2>7, Kinds DEF RowsIn
<1>13. CASE Purge(c)
  <2>1. /\ doc' = doc /\ node' = [node EXCEPT ![me.item] = <<>>] /\ me.pc = "purge"
        /\ Goto(c, "recreate") \/ Goto(c, "scrub")
    BY <1>13 DEF Purge
  <2>2. \A p \in Items : DemotedIn(node', p) => DemotedIn(node, p)
    BY <1>0, <2>1, NodeGoes
  <2>3. Held
    BY <1>0, <2>1, <2>2, StillHolds DEF Follows, Stages
  <2> QED
    BY <2>1, <2>2, <2>3, Kinds DEF RowsIn
<1>14. CASE Recreate(c)
  <2>1. PICK v \in Versions : v = Version(me.life, FALSE, FALSE) /\ v.life = me.life
    BY <1>0, RowTypes
  <2>3. \A p \in Items : DemotedIn(node', p) =>
           (p = me.item /\ me.life = "demoted") \/ DemotedIn(node, p)
    <3>1. node' = [node EXCEPT ![me.item] = Append(@, v)]
      BY <1>14, <2>1 DEF Recreate, Scrubbed
    <3> QED
      BY <1>0, <2>1, <3>1, NodeGrown
  <2> DEFINE pc == IF doc[me.item].state = "row" THEN "embed" ELSE "scrub"
             next == [me EXCEPT !.pc = pc, !.life = doc[me.item].life, !.copy = FALSE]
  <2>2. doc' = doc /\ me.pc = "recreate" /\ run' = [run EXCEPT ![c] = next]
    BY <1>0, <1>14 DEF Recreate, RunsOK
  <2>4. RowsIn(node', doc')
    BY <2>2, <2>3, Kinds DEF RowsIn, HoldsIn
  <2>5. next.pc \in {"embed", "scrub"} /\ next.todo = me.todo
    BY <1>0 DEF RunState
  <2> HIDE DEF next
  <2>6. HoldsIn(next, node', doc')
    BY <2>2, <2>5 DEF HoldsIn, Scrubbing
  <2> QED
    BY <2>2, <2>4, <2>6
<1>15. CASE Drop(c)
  <2>1. PICK i \in Items : TargetOf(me) = i
    BY <1>0, <1>15 DEF Drop, RunOK, Scrubbing, TargetOf
  <2>2. /\ doc' = doc /\ node' = [node EXCEPT ![i] = <<>>] /\ me.pc = "scrub"
        /\ Done(c) \/ Goto(c, "report")
    BY <1>15, <2>1 DEF Drop
  <2>3. \A p \in Items : DemotedIn(node', p) => DemotedIn(node, p)
    BY <1>0, <2>2, NodeGoes
  <2>4. Held
    BY <1>0, <2>2, <2>3, StillHolds, DoneHolds DEF Follows, Stages
  <2> QED
    BY <2>2, <2>3, <2>4, Kinds DEF RowsIn
<1> QED
  BY <1>1, <1>2, <1>3, <1>4, <1>5, <1>6, <1>7, <1>8, <1>9, <1>10, <1>11, <1>12, <1>13, <1>14,
     <1>15 DEF Step

LEMMA CommandWithholds ==
    ASSUME Inv, NEW c \in Callers, Command(c), RowsIn(node, doc), HoldsIn(run[c], node, doc)
    PROVE  /\ RowsIn(node', doc')
           /\ \E self : run' = [run EXCEPT ![c] = self] /\ HoldsIn(self, node', doc')
<1> DEFINE Held == \E self : run' = [run EXCEPT ![c] = self] /\ HoldsIn(self, node', doc')
<1>0. StoresOK /\ RunsOK /\ run \in [Callers -> RunState]
  BY DEF Inv, RunsOK
<1>1. ASSUME NEW op \in Events, NEW self \in RunState, Enter(c, op, self), HoldsIn(self, node, doc),
             self.pc \notin {"embed", "scrub", "detach", "purge", "recreate", "report"}
      PROVE  RowsIn(node', doc') /\ Held
  <2> DEFINE next == [self EXCEPT !.op = op]
  <2>1. run' = [run EXCEPT ![c] = next] /\ UNCHANGED <<node, doc>>
    BY <1>1 DEF Enter, stores
  <2>2. next.pc = self.pc /\ next.item = self.item /\ next.life = self.life
    BY DEF RunState
  <2> HIDE DEF next
  <2>3. HoldsIn(next, node', doc')
    BY <1>1, <2>1, <2>2 DEF HoldsIn, Scrubbing
  <2> QED
    BY <2>1, <2>3
<1>2. ASSUME NEW p \in Learned, Approve(c, p)
      PROVE  RowsIn(node', doc') /\ Held
  <2> DEFINE copy == doc[Source].state = "row" /\ doc[Source].life # "archived"
             self == [Idle EXCEPT !.pc = "create", !.item = p, !.copy = copy]
  <2>1. copy \in BOOLEAN /\ p \in Items
    BY Kinds
  <2>2. Enter(c, "approve", self)
    BY <1>2 DEF Approve
  <2> HIDE DEF copy
  <2>3. self \in RunState /\ self.pc = "create"
    BY <2>1, IdleFacts DEF RunState
  <2> HIDE DEF self
  <2>4. HoldsIn(self, node, doc)
    BY <2>3 DEF HoldsIn, Scrubbing
  <2> QED
    BY <1>1, <2>2, <2>3, <2>4 DEF Events
<1>3. ASSUME NEW p \in Precedents, Demote(c, p)
      PROVE  RowsIn(node', doc') /\ Held
  <2> DEFINE self == [Idle EXCEPT !.pc = "stamp", !.item = p, !.life = "demoted"]
  <2>1. Enter(c, "demote", self)
    BY <1>3 DEF Demote
  <2>2. self \in RunState /\ self.pc = "stamp"
    BY Kinds, IdleFacts DEF RunState, Stamps
  <2> HIDE DEF self
  <2>3. HoldsIn(self, node, doc)
    BY <2>2 DEF HoldsIn, Scrubbing
  <2> QED
    BY <1>1, <2>1, <2>2, <2>3 DEF Events
<1>4. ASSUME NEW p \in Precedents, Reinstate(c, p)
      PROVE  RowsIn(node', doc') /\ Held
  <2> DEFINE pc == IF RowOnly(p) THEN "restamp" ELSE "unmark"
             strict == RowOnly(p)
             self == [Idle EXCEPT !.item = p, !.life = "current", !.strict = strict, !.pc = pc]
  <2>1. Enter(c, "reinstate", self)
    BY <1>4 DEF Reinstate
  <2>2. /\ pc \in {"restamp", "unmark"} /\ (pc = "restamp" => ~DemotedIn(node, p))
        /\ strict \in BOOLEAN
    BY DEF RowOnly, State, Reads, DemotedIn, Top
  <2> HIDE DEF pc, strict
  <2>3. self \in RunState /\ self.pc = pc /\ self.item = p
    BY <2>2, Kinds, IdleFacts DEF RunState, Stamps
  <2> HIDE DEF self
  <2>4. HoldsIn(self, node, doc)
    BY <2>2, <2>3 DEF HoldsIn, Scrubbing
  <2> QED
    BY <1>1, <2>1, <2>2, <2>3, <2>4 DEF Events
<1>5. CASE Prune(c)
  <2> DEFINE rest == {i \in Items : ArchivedAlready(i)}
  <2>1. PICK picked \in SUBSET {i \in Items : Eligible(i)} :
           Enter(c, "prune", [Idle EXCEPT !.pc = "archive", !.todo = picked, !.rest = rest])
    BY <1>5 DEF Prune
  <2> DEFINE self == [Idle EXCEPT !.pc = "archive", !.todo = picked, !.rest = rest]
  <2>2. picked \in SUBSET Items /\ rest \in SUBSET Items
    OBVIOUS
  <2> HIDE DEF rest
  <2>3. self \in RunState /\ self.pc = "archive"
    BY <2>2, IdleFacts DEF RunState
  <2>4. Enter(c, "prune", self)
    BY <2>1
  <2> HIDE DEF self
  <2>5. HoldsIn(self, node, doc)
    BY <2>3 DEF HoldsIn, Scrubbing
  <2> QED
    BY <1>1, <2>3, <2>4, <2>5 DEF Events
<1>6. ASSUME NEW i \in Items, RestoreRow(c, i)
      PROVE  RowsIn(node', doc') /\ Held
  <2>1. i \notin Learned
    BY <1>0, <1>6 DEF RestoreRow, Restorable, StoresOK, NeverArchived
  <2>2. /\ node' = node /\ run' = run /\ run' = [run EXCEPT ![c] = run[c]]
        /\ run[c].pc = "idle" /\ doc' = [doc EXCEPT ![i] = Row("current", doc[i].copy)]
    BY <1>0, <1>6 DEF RestoreRow, PutRow, Admit
  <2>3. \A p \in Learned : doc'[p] = doc[p]
    BY <1>0, <2>1, <2>2, Kinds DEF StoresOK
  <2> QED
    BY <2>2, <2>3, IdleHolds DEF RowsIn, WithheldIn
<1>7. ASSUME NEW i \in Items, RestoreNode(c, i)
      PROVE  RowsIn(node', doc') /\ Held
  <2>1. PICK life \in Stamps :
           /\ node' = Restamped(i, life)
           /\ run' = [run EXCEPT ![c] = [Idle EXCEPT !.pc = "sync", !.op = "restore",
                                                     !.item = i, !.life = life]]
    <3>1. i \in Precedents => PreArchival(i) \in Stamps
      BY <1>0, <1>7, PreArchivalIs DEF RestoreNode
    <3> QED
      BY <1>7, <3>1 DEF RestoreNode, Stamps
  <2>2. Live(i) /\ i \notin Learned /\ doc' = doc
    BY <1>0, <1>7 DEF RestoreNode, StoresOK, NeverArchived
  <2>3. PICK v \in Versions : Restamped(i, life) = [node EXCEPT ![i] = Append(@, v)]
    BY <1>0, <2>1, <2>2, RestampedIs
  <2>4. \A p \in Items : p # i => (DemotedIn(node', p) => DemotedIn(node, p))
    BY <1>0, <2>1, <2>3, NodeGrown
  <2> DEFINE self == [Idle EXCEPT !.pc = "sync", !.op = "restore", !.item = i, !.life = life]
  <2>5. self.pc = "sync"
    BY IdleFacts DEF RunState
  <2>6. run' = [run EXCEPT ![c] = self]
    BY <2>1
  <2> HIDE DEF self
  <2>7. HoldsIn(self, node', doc')
    BY <2>5 DEF HoldsIn, Scrubbing
  <2> QED
    BY <2>2, <2>4, <2>6, <2>7, Kinds DEF RowsIn
<1>8. ASSUME NEW i \in Mints, Confirm(c, i)
      PROVE  RowsIn(node', doc') /\ Held
  <2>1. /\ Live(i) /\ i \in Items /\ i \notin Learned /\ doc' = doc
        /\ run[c].pc = "idle" /\ run' = [run EXCEPT ![c] = run[c]]
    BY <1>0, <1>8, Kinds DEF Confirm, Admit
  <2>2. [Top(i) EXCEPT !.sure = TRUE] \in Versions
    BY <1>0, <2>1, TopType DEF Versions
  <2>3. PICK v \in Versions : node' = [node EXCEPT ![i] = Append(@, v)]
    BY <1>8, <2>2 DEF Confirm
  <2>4. \A p \in Items : p # i => (DemotedIn(node', p) => DemotedIn(node, p))
    BY <1>0, <2>1, <2>3, NodeGrown
  <2> QED
    BY <2>1, <2>4, Kinds, IdleHolds DEF RowsIn
<1>9. ASSUME NEW i \in Nodes, Redact(c, i)
      PROVE  RowsIn(node', doc') /\ Held
  <2> DEFINE self == [Idle EXCEPT !.pc = "unvector", !.item = i]
  <2>1. self \in RunState /\ self.pc = "unvector"
    BY Kinds, IdleFacts DEF RunState
  <2>2. Enter(c, "redact", self)
    BY <1>9 DEF Redact
  <2> HIDE DEF self
  <2>3. HoldsIn(self, node, doc)
    BY <2>1 DEF HoldsIn, Scrubbing
  <2> QED
    BY <1>1, <2>1, <2>2, <2>3 DEF Events
<1> QED
  BY <1>2, <1>3, <1>4, <1>5, <1>6, <1>7, <1>8, <1>9 DEF Command

LEMMA InitWithholds == Init => WithheldInv
<1> SUFFICES ASSUME Init PROVE WithheldInv
  OBVIOUS
<1>1. \A c \in Callers : run[c].pc = "idle"
  BY IdleOK DEF Init
<1>2. \A p \in Learned : doc[p].life = "unset" /\ (doc[p].state = "row" => ~DemotedIn(node, p))
  <2> SUFFICES ASSUME NEW p \in Learned PROVE doc[p].life = "unset" /\ ~DemotedIn(node, p)
    OBVIOUS
  <2>1. PICK bare \in SUBSET Learned, full \in SUBSET Learned :
         /\ node = [i \in Items |->
              IF i \in Noisy \cup (Learned \ (bare \cup full)) THEN <<>>
              ELSE <<Version("unset", i \in Precedents \cup {Source}, FALSE)>>]
         /\ doc = [i \in Items |->
              IF i \in full \cup Noisy \cup {Source}
              THEN Row("unset", i \notin Noisy) ELSE NoRow]
    BY DEF Init
  <2>2. p \in Items
    BY Kinds
  <2>3. node[p] = <<>> \/ node[p] = <<Version("unset", p \in Precedents \cup {Source}, FALSE)>>
    BY <2>1, <2>2
  <2>4. ~DemotedIn(node, p)
    BY <2>3 DEF DemotedIn, Version
  <2>5. doc[p].life = "unset"
    BY <2>1, <2>2 DEF Row, NoRow
  <2> QED
    BY <2>4, <2>5
<1>3. RowsIn(node, doc)
  BY <1>2 DEF RowsIn, WithheldIn
<1> QED
  BY <1>1, <1>3, IdleHolds DEF WithheldInv, Alone

LEMMA EnvStays == [Next]_vars => env' = env
<1>1. ASSUME NEW c \in Callers, Step(c) PROVE env' = env
  BY <1>1 DEF Step, Create, Load, Put, Embed, Stamp, Mark, Sync, Announce, Unmark, Restamp, Archive,
     Resync, Unvector, Blank, Scan, Scrub, Detach, Purge, Recreate, Drop, Report
<1>2. ASSUME NEW c \in Callers, Command(c) PROVE env' = env
  BY <1>2 DEF Command, Approve, Demote, Reinstate, Prune, RestoreRow, RestoreNode, Confirm, Redact,
     Enter
<1>3. ASSUME NEW c \in Callers, Die(c) PROVE env' = env
  BY <1>3 DEF Die
<1>4. Outage \/ Return \/ UNCHANGED vars => env' = env
  BY DEF Outage, Return, vars
<1> QED
  BY <1>1, <1>2, <1>3, <1>4 DEF Next

LEMMA WithheldStep == Inv /\ WithheldInv /\ [Next]_vars => WithheldInv'
<1> SUFFICES ASSUME Inv, WithheldInv, [Next]_vars, Turns'
             PROVE  Alone(run') /\ RowsIn(node', doc') /\ \A c \in Callers : HoldsIn(run'[c], node', doc')
  BY DEF WithheldInv
<1>0. Turns /\ RunsOK
  BY EnvStays DEF Turns, Inv
<1>1. Alone(run) /\ RowsIn(node, doc) /\ \A c \in Callers : HoldsIn(run[c], node, doc)
  BY <1>0 DEF WithheldInv
<1>2. ASSUME NEW c \in Callers, Step(c) \/ Command(c)
      PROVE  Alone(run') /\ RowsIn(node', doc') /\ \A e \in Callers : HoldsIn(run'[e], node', doc')
  <2>1. /\ RowsIn(node', doc')
        /\ \E self : run' = [run EXCEPT ![c] = self] /\ HoldsIn(self, node', doc')
    BY <1>1, <1>2, StepWithholds, CommandWithholds
  <2>2. PICK self : run' = [run EXCEPT ![c] = self] /\ HoldsIn(self, node', doc')
    BY <2>1
  <2>3. run[c].pc # "idle" \/ \A e \in Callers : run[e].pc = "idle"
    <3>1. CASE Command(c)
      BY <1>0, <3>1 DEF Turns, Command, Approve, Demote, Reinstate, Prune, RestoreRow, RestoreNode,
         Confirm, Redact, Enter, Admit
    <3>2. CASE Step(c)
      BY <3>2 DEF Step, Create, Load, Put, Embed, Stamp, Mark, Sync, Announce, Unmark, Restamp, Archive,
         Resync, Unvector, Blank, Scan, Scrub, Detach, Purge, Recreate, Drop, Report
    <3> QED
      BY <1>2, <3>1, <3>2
  <2>4. Alone(run') /\ \A e \in Callers : run'[e] = self \/ run'[e].pc = "idle"
    BY <1>0, <1>1, <2>2, <2>3, MovesAlone
  <2> QED
    BY <2>1, <2>2, <2>4, IdleHolds
<1>3. ASSUME NEW c \in Callers, Die(c)
      PROVE  Alone(run') /\ RowsIn(node', doc') /\ \A e \in Callers : HoldsIn(run'[e], node', doc')
  <2>1. UNCHANGED <<node, doc>> /\ run' = [run EXCEPT ![c] = Idle] /\ run[c].pc # "idle"
    BY <1>3 DEF Die, Done, stores
  <2>2. Alone(run') /\ \A e \in Callers : run'[e] = Idle \/ run'[e].pc = "idle"
    BY <1>0, <1>1, <2>1, MovesAlone
  <2> QED
    BY <1>1, <2>1, <2>2, IdleOK, IdleHolds
<1>4. ASSUME Outage \/ Return \/ UNCHANGED vars
      PROVE  Alone(run') /\ RowsIn(node', doc') /\ \A e \in Callers : HoldsIn(run'[e], node', doc')
  BY <1>1, <1>4 DEF Outage, Return, vars, stores
<1> QED
  BY <1>2, <1>3, <1>4 DEF Next

LEMMA WithheldSaid == WithheldInv => RowWithheldWithNode
BY DEF WithheldInv, RowWithheldWithNode, RowsIn, DemotedIn, WithheldIn, Live, State, Top, Reads

\* Where commands take turns, no precedent has a demoted node and a row that is
\* served, at any step of any command, whoever dies and whatever stores fail:
\* a demotion writes the row first, a reinstatement the node first, and a
\* redaction puts back the stamp its scan read.
THEOREM RowsAlwaysWithheld == Spec => []RowWithheldWithNode
BY InitInv, InvStep, InitWithholds, WithheldStep, WithheldSaid, PTL DEF Spec

-----------------------------------------------------------------------------
(* What each step writes, pointwise *)

\* The locals a command goes on with, at its next stage.
Moved(self, next, pc) ==
    /\ next.pc = pc /\ next.op = self.op /\ next.item = self.item /\ next.life = self.life
    /\ next.copy = self.copy /\ next.strict = self.strict
    /\ next.todo = self.todo /\ next.rest = self.rest
Goes(c, pc) == \E next \in RunState : run' = [run EXCEPT ![c] = next] /\ Moved(run[c], next, pc)
Ends(c) == run' = [run EXCEPT ![c] = Idle]

\* A version with this stamp and copy is appended to node i, or it is purged,
\* and the other nodes stay.
Grown(i, life, copy) ==
    /\ Live(i)' /\ Top(i)'.life = life /\ Top(i)'.copy = copy
    /\ HoldsCopy(i)' <=> HoldsCopy(i) \/ copy
    /\ \E v \in Versions : v.life = life /\ v.copy = copy /\ node'[i] = Append(node[i], v)
    /\ \A j \in Items \ {i} : node'[j] = node[j]
Purged(i) == node'[i] = <<>> /\ \A j \in Items \ {i} : node'[j] = node[j]

\* The row of i, and its snapshot, are written, and the other ones stay.
RowSet(i, row) == doc'[i] = row /\ \A j \in Items \ {i} : doc'[j] = doc[j]
VecSet(i, row) == vec'[i] = row /\ \A j \in Items \ {i} : vec'[j] = vec[j]
MirrorSet(i, life) ==
    /\ vec'[i].state = vec[i].state /\ vec'[i].copy = vec[i].copy
    /\ vec'[i].life = IF down \/ vec[i].state = "none" THEN vec[i].life ELSE life
    /\ \A j \in Items \ {i} : vec'[j] = vec[j]

LEMMA GotoSays ==
    ASSUME RunsOK, NEW c \in Callers, NEW pc \in Stages, Goto(c, pc)
    PROVE  Goes(c, pc)
<1>1. run[c] \in RunState
  BY DEF RunsOK
<1>2. run' = [run EXCEPT ![c] = [run[c] EXCEPT !.pc = pc]]
  BY DEF Goto, RunsOK
<1>3. Moved(run[c], [run[c] EXCEPT !.pc = pc], pc) /\ [run[c] EXCEPT !.pc = pc] \in RunState
  BY <1>1, MovedTo DEF Moved
<1> QED
  BY <1>2, <1>3 DEF Goes

LEMMA GrownSays ==
    ASSUME StoresOK, NEW i \in Items, NEW v \in Versions, node' = [node EXCEPT ![i] = Append(@, v)]
    PROVE  Grown(i, v.life, v.copy)
<1>1. node[i] \in Seq(Versions) /\ node'[i] = Append(node[i], v)
      /\ \A j \in Items \ {i} : node'[j] = node[j]
  BY DEF StoresOK
<1>2. /\ Append(node[i], v) # <<>> /\ Len(Append(node[i], v)) = Len(node[i]) + 1
      /\ Append(node[i], v)[Len(node[i]) + 1] = v /\ Len(node[i]) \in Nat
      /\ \A u \in 1..Len(node[i]) : Append(node[i], v)[u] = node[i][u]
  BY <1>1
<1>3. Live(i)' /\ Top(i)' = v
  BY <1>1, <1>2 DEF Live, Top
<1>4. HoldsCopy(i)' <=> HoldsCopy(i) \/ v.copy
  <2>1. HoldsCopy(i)' <=> \E u \in 1..(Len(node[i]) + 1) : Append(node[i], v)[u].copy
    BY <1>1, <1>2 DEF HoldsCopy
  <2>2. \A u \in 1..(Len(node[i]) + 1) : u \in 1..Len(node[i]) \/ u = Len(node[i]) + 1
    BY <1>2
  <2>3. \A u \in 1..Len(node[i]) : u \in 1..(Len(node[i]) + 1)
    BY <1>2
  <2>4. Len(node[i]) + 1 \in 1..(Len(node[i]) + 1)
    BY <1>2
  <2> QED
    BY <1>2, <2>1, <2>2, <2>3, <2>4 DEF HoldsCopy
<1> QED
  BY <1>1, <1>3, <1>4 DEF Grown

LEMMA RestampedSays ==
    ASSUME StoresOK, NEW i \in Items, Live(i), NEW life \in Stamps, node' = Restamped(i, life)
    PROVE  Grown(i, life, Top(i).copy)
<1>1. PICK v \in Versions : v.life = life /\ v.copy = Top(i).copy
                            /\ Restamped(i, life) = [node EXCEPT ![i] = Append(@, v)]
  BY RestampedIs
<1> QED
  BY <1>1, GrownSays

LEMMA MirrorSays ==
    ASSUME StoresOK, NEW i \in Items, NEW life \in Stamps, vec' = Mirrored(i, life)
    PROVE  MirrorSet(i, life)
<1>1. vec \in [Items -> VecRows] /\ vec[i] \in VecRows
  BY DEF StoresOK
<1>2. /\ [vec[i] EXCEPT !.life = life].life = life
      /\ [vec[i] EXCEPT !.life = life].state = vec[i].state
      /\ [vec[i] EXCEPT !.life = life].copy = vec[i].copy
  BY <1>1 DEF VecRows
<1>3. [vec EXCEPT ![i].life = life] = [vec EXCEPT ![i] = [vec[i] EXCEPT !.life = life]]
  BY <1>1
<1>4. CASE down \/ vec[i].state = "none"
  BY <1>4 DEF Mirrored, MirrorSet
<1>5. CASE ~(down \/ vec[i].state = "none")
  BY <1>1, <1>2, <1>3, <1>5 DEF Mirrored, MirrorSet
<1> QED
  BY <1>4, <1>5

LEMMA PutSays ==
    ASSUME StoresOK, NEW i \in Items, NEW row, row.life \in Stamps, PutRow(i, row)
    PROVE  RowSet(i, row) /\ MirrorSet(i, row.life)
BY MirrorSays DEF PutRow, RowSet, StoresOK

LEMMA VecSays ==
    ASSUME StoresOK, NEW i \in Items, NEW row, vec' = [vec EXCEPT ![i] = row]
    PROVE  VecSet(i, row)
BY DEF StoresOK, VecSet

\* The locals of a running command.
LEMMA Locals ==
    ASSUME RunsOK, NEW c \in Callers
    PROVE  /\ RunOK(run[c]) /\ run[c] \in RunState /\ run[c].item \in Items
           /\ run[c].life \in Stamps /\ run[c].copy \in BOOLEAN
           /\ run[c].op \in Events \cup {"none"} /\ run[c].pc \in Stages
BY DEF RunsOK, RunOK, RunState, Stages

\* One lemma for each step: its stage, what it writes and where it goes on.
LEMMA CreateSays ==
    ASSUME Inv, NEW c \in Callers, NEW i \in Items, i = run[c].item, Create(c)
    PROVE  /\ run[c].pc = "create" /\ run[c].op = "approve" /\ i \in Learned
           /\ UNCHANGED <<env, doc, vec, log, gone, ruled, down>>
           /\ \/ Replaceable(i) /\ Grown(i, "unset", run[c].copy) /\ Goes(c, "load")
              \/ ~Replaceable(i) /\ node' = node /\ Ends(c)
<1>0. StoresOK /\ RunsOK /\ RunOK(run[c]) /\ run[c].copy \in BOOLEAN
  BY Locals DEF Inv
<1>1. /\ run[c].pc = "create" /\ run[c].op = "approve" /\ i \in Learned
      /\ UNCHANGED <<env, doc, vec, log, gone, ruled, down>>
  BY <1>0 DEF Create, RunOK
<1>2. CASE Replaceable(i)
  <2> DEFINE v == Version("unset", run[c].copy, FALSE)
  <2>1. v \in Versions /\ v.life = "unset" /\ v.copy = run[c].copy
    BY <1>0 DEF Version, Versions, Stamps
  <2>2. node' = [node EXCEPT ![i] = Append(@, v)] /\ Goto(c, "load")
    BY <1>2 DEF Create
  <2> HIDE DEF v
  <2>3. Grown(i, "unset", run[c].copy)
    BY <1>0, <2>1, <2>2, GrownSays
  <2>4. Goes(c, "load")
    BY <1>0, <2>2, GotoSays DEF Stages
  <2> QED
    BY <1>1, <1>2, <2>3, <2>4
<1>3. CASE ~Replaceable(i)
  BY <1>1, <1>3 DEF Create, Done, Ends
<1> QED
  BY <1>2, <1>3

LEMMA LoadSays ==
    ASSUME Inv, NEW c \in Callers, NEW i \in Items, i = run[c].item, Load(c)
    PROVE  /\ run[c].pc = "load" /\ run[c].op = "approve" /\ i \in Learned
           /\ UNCHANGED <<env, node, doc, vec, log, gone, ruled, down>>
           /\ \E next \in RunState :
                /\ run' = [run EXCEPT ![c] = next] /\ next.op = "approve" /\ next.item = i
                /\ next.pc = IF Live(i) THEN "put" ELSE "announce"
                /\ Live(i) => next.life = Top(i).life /\ next.copy = Top(i).copy
<1>0. StoresOK /\ RunsOK /\ RunOK(run[c]) /\ run[c] \in RunState
  BY Locals DEF Inv
<1>1. /\ run[c].pc = "load" /\ run[c].op = "approve" /\ i \in Learned
      /\ UNCHANGED <<env, node, doc, vec, log, gone, ruled, down>>
  BY <1>0 DEF Load, RunOK, stores
<1> DEFINE next == [run[c] EXCEPT !.pc = IF Live(i) THEN "put" ELSE "announce",
                                  !.life = IF Live(i) THEN Top(i).life ELSE @,
                                  !.copy = IF Live(i) THEN Top(i).copy ELSE @]
<1>2. run' = [run EXCEPT ![c] = next]
  BY <1>0 DEF Load, RunsOK
<1>3. Live(i) => Top(i).life \in Stamps /\ Top(i).copy \in BOOLEAN
  BY <1>0, TopType DEF Versions
<1>4. /\ next \in RunState /\ next.op = "approve" /\ next.item = i
      /\ next.pc = IF Live(i) THEN "put" ELSE "announce"
      /\ Live(i) => next.life = Top(i).life /\ next.copy = Top(i).copy
  BY <1>0, <1>1, <1>3 DEF RunState
<1> QED
  BY <1>1, <1>2, <1>4

LEMMA PutStepSays ==
    ASSUME Inv, NEW c \in Callers, NEW i \in Items, i = run[c].item, Put(c)
    PROVE  /\ run[c].pc = "put" /\ run[c].op = "approve" /\ i \in Learned
           /\ UNCHANGED <<env, node, log, gone, ruled, down>>
           /\ \/ doc[i].state = "tomb" /\ UNCHANGED <<doc, vec>> /\ Ends(c)
              \/ /\ doc[i].state # "tomb" /\ Goes(c, "embed") /\ MirrorSet(i, run[c].life)
                 /\ RowSet(i, Row(run[c].life, run[c].copy))
<1>0. StoresOK /\ RunsOK /\ RunOK(run[c]) /\ run[c].life \in Stamps /\ run[c].copy \in BOOLEAN
  BY Locals DEF Inv
<1>1. Row(run[c].life, run[c].copy).life = run[c].life
  BY <1>0, RowTypes
<1>2. CASE doc[i].state # "tomb"
  <2>1. PutRow(i, Row(run[c].life, run[c].copy)) /\ Goto(c, "embed")
    BY <1>2 DEF Put
  <2>2. MirrorSet(i, run[c].life) /\ RowSet(i, Row(run[c].life, run[c].copy))
    BY <1>0, <1>1, <2>1, PutSays
  <2>3. Goes(c, "embed")
    BY <1>0, <2>1, GotoSays DEF Stages
  <2> QED
    BY <1>0, <1>2, <2>2, <2>3 DEF Put, RunOK
<1> QED
  BY <1>0, <1>2 DEF Put, RunOK, Done, Ends

LEMMA EmbedSays ==
    ASSUME Inv, NEW c \in Callers, NEW i \in Items, i = run[c].item, Embed(c)
    PROVE  /\ run[c].pc = "embed"
           /\ \/ run[c].op = "redact" /\ Goes(c, "scrub")
              \/ run[c].op = "approve" /\ i \in Precedents /\ Goes(c, "announce")
           /\ UNCHANGED <<env, node, doc, log, gone, ruled, down>>
           /\ vec' = vec \/ VecSet(i, Row(run[c].life, run[c].copy))
<1>0. StoresOK /\ RunsOK /\ RunOK(run[c])
  BY Locals DEF Inv
<1>1. /\ run[c].pc = "embed" /\ Goto(c, IF run[c].op = "redact" THEN "scrub" ELSE "announce")
      /\ run[c].op = "redact" \/ (run[c].op = "approve" /\ i \in Precedents)
      /\ UNCHANGED <<env, node, doc, log, gone, ruled, down>>
      /\ vec' = vec \/ vec' = [vec EXCEPT ![i] = Row(run[c].life, run[c].copy)]
  BY <1>0 DEF Embed, RunOK
<1>2. Goes(c, IF run[c].op = "redact" THEN "scrub" ELSE "announce")
  BY <1>0, <1>1, GotoSays DEF Stages
<1> QED
  BY <1>0, <1>1, <1>2, VecSays

LEMMA StampSays ==
    ASSUME Inv, NEW c \in Callers, NEW i \in Items, i = run[c].item, Stamp(c)
    PROVE  /\ run[c].pc = "stamp" /\ run[c].op = "demote" /\ i \in Precedents /\ Goes(c, "mark")
           /\ UNCHANGED <<env, node, log, gone, ruled, down>>
           /\ \/ doc[i].state # "row" /\ UNCHANGED <<doc, vec>>
              \/ /\ doc[i].state = "row" /\ MirrorSet(i, "demoted")
                 /\ \E row \in DocRows : /\ RowSet(i, row) /\ row.state = "row"
                                         /\ row.life = "demoted" /\ row.copy = doc[i].copy
<1>0. StoresOK /\ RunsOK /\ RunOK(run[c]) /\ doc[i] \in DocRows
  BY Locals DEF Inv, StoresOK
<1>1. Goes(c, "mark")
  BY <1>0, GotoSays DEF Stamp, Stages
<1>2. /\ run[c].pc = "stamp" /\ run[c].op = "demote" /\ i \in Precedents
      /\ UNCHANGED <<env, node, log, gone, ruled, down>>
      /\ doc[i].state # "row" => UNCHANGED <<doc, vec>>
  BY <1>0 DEF Stamp, RunOK
<1>3. CASE doc[i].state = "row"
  <2> DEFINE row == [doc[i] EXCEPT !.life = "demoted"]
  <2>1. row \in DocRows /\ row.life = "demoted" /\ row.state = "row" /\ row.copy = doc[i].copy
    BY <1>0, <1>3 DEF DocRows, Stamps
  <2>2. PutRow(i, row)
    BY <1>3 DEF Stamp
  <2> HIDE DEF row
  <2>3. RowSet(i, row) /\ MirrorSet(i, "demoted")
    BY <1>0, <2>1, <2>2, PutSays DEF Stamps
  <2> QED
    BY <1>1, <1>2, <1>3, <2>1, <2>3
<1> QED
  BY <1>1, <1>2, <1>3

LEMMA RestampSays ==
    ASSUME Inv, NEW c \in Callers, NEW i \in Items, i = run[c].item, Restamp(c)
    PROVE  /\ run[c].pc = "restamp" /\ run[c].op = "reinstate" /\ i \in Precedents
           /\ Goes(c, "sync") \/ (Ends(c) /\ run[c].strict /\ doc[i].state = "tomb")
           /\ UNCHANGED <<env, node, log, gone, ruled, down>>
           /\ \/ (doc[i].state # "row" \/ "death" \in env) /\ UNCHANGED <<doc, vec>>
              \/ /\ doc[i].state = "row" /\ MirrorSet(i, "current")
                 /\ \E row \in DocRows : /\ RowSet(i, row) /\ row.state = "row"
                                         /\ row.life = "current" /\ row.copy = doc[i].copy
<1>0. StoresOK /\ RunsOK /\ RunOK(run[c]) /\ doc[i] \in DocRows
  BY Locals DEF Inv, StoresOK
<1>1. Goes(c, "sync") \/ (Ends(c) /\ run[c].strict /\ doc[i].state = "tomb")
  BY <1>0, GotoSays DEF Restamp, Stages, Done, Ends
<1>2. /\ run[c].pc = "restamp" /\ run[c].op = "reinstate" /\ i \in Precedents
      /\ UNCHANGED <<env, node, log, gone, ruled, down>>
      /\ \/ (doc[i].state # "row" \/ "death" \in env) /\ UNCHANGED <<doc, vec>>
         \/ doc[i].state = "row" /\ PutRow(i, [doc[i] EXCEPT !.life = "current"])
  BY <1>0 DEF Restamp, RunOK
<1>3. CASE doc[i].state = "row" /\ PutRow(i, [doc[i] EXCEPT !.life = "current"])
  <2> DEFINE row == [doc[i] EXCEPT !.life = "current"]
  <2>1. row \in DocRows /\ row.life = "current" /\ row.state = "row" /\ row.copy = doc[i].copy
    BY <1>0, <1>3 DEF DocRows, Stamps
  <2>2. PutRow(i, row)
    BY <1>3
  <2> HIDE DEF row
  <2>3. RowSet(i, row) /\ MirrorSet(i, "current")
    BY <1>0, <2>1, <2>2, PutSays DEF Stamps
  <2> QED
    BY <1>1, <1>2, <1>3, <2>1, <2>3
<1> QED
  BY <1>1, <1>2, <1>3

LEMMA MarkSays ==
    ASSUME Inv, NEW c \in Callers, NEW i \in Items, i = run[c].item, Mark(c)
    PROVE  /\ run[c].pc = "mark" /\ run[c].op = "demote" /\ i \in Precedents
           /\ UNCHANGED <<env, doc, vec, log, gone, down>>
           /\ \/ /\ Live(i) /\ Grown(i, "demoted", Top(i).copy) /\ ruled' = ruled \cup {i}
                 /\ Goes(c, "sync")
              \/ ~Live(i) /\ UNCHANGED <<node, ruled>> /\ Ends(c)
<1>0. StoresOK /\ RunsOK /\ RunOK(run[c])
  BY Locals DEF Inv
<1>1. Live(i) => Grown(i, "demoted", Top(i).copy) /\ Goes(c, "sync")
  BY <1>0, RestampedSays, GotoSays DEF Mark, Stamps, Stages
<1> QED
  BY <1>0, <1>1 DEF Mark, RunOK, Done, Ends

LEMMA UnmarkSays ==
    ASSUME Inv, NEW c \in Callers, NEW i \in Items, i = run[c].item, Unmark(c)
    PROVE  /\ run[c].pc = "unmark" /\ run[c].op = "reinstate" /\ i \in Precedents
           /\ UNCHANGED <<env, doc, vec, log, gone, down>>
           /\ \/ /\ Live(i) /\ Grown(i, "current", Top(i).copy) /\ ruled' = ruled \ {i}
                 /\ Goes(c, "restamp")
              \/ ~Live(i) /\ UNCHANGED <<node, ruled>> /\ Ends(c)
<1>0. StoresOK /\ RunsOK /\ RunOK(run[c])
  BY Locals DEF Inv
<1>1. Live(i) => Grown(i, "current", Top(i).copy) /\ Goes(c, "restamp")
  BY <1>0, RestampedSays, GotoSays DEF Unmark, Stamps, Stages
<1> QED
  BY <1>0, <1>1 DEF Unmark, RunOK, Done, Ends

LEMMA SyncSays ==
    ASSUME Inv, NEW c \in Callers, NEW i \in Items, i = run[c].item, Sync(c)
    PROVE  /\ run[c].pc = "sync" /\ MirrorSet(i, run[c].life)
           /\ UNCHANGED <<env, node, doc, log, gone, ruled, down>>
           /\ \/ run[c].op = "restore" /\ Ends(c)
              \/ run[c].op \in {"demote", "reinstate"} /\ i \in Precedents /\ Goes(c, "announce")
<1>0. StoresOK /\ RunsOK /\ RunOK(run[c]) /\ run[c].life \in Stamps
  BY Locals DEF Inv
<1>1. MirrorSet(i, run[c].life)
  BY <1>0, MirrorSays DEF Sync
<1>2. run[c].op # "restore" => Goes(c, "announce")
  BY <1>0, GotoSays DEF Sync, Stages
<1> QED
  BY <1>0, <1>1, <1>2 DEF Sync, RunOK, Done, Ends

LEMMA AnnounceSays ==
    ASSUME Inv, NEW c \in Callers, NEW i \in Items, i = run[c].item, Announce(c)
    PROVE  /\ run[c].pc = "announce" /\ i \in Precedents /\ Ends(c)
           /\ run[c].op \in {"approve", "demote", "reinstate"}
           /\ UNCHANGED <<env, node, doc, vec, gone, ruled, down>>
           /\ log'[i] = "demoted" <=> run[c].op = "demote"
           /\ \A p \in Precedents : p # i => log'[p] = log[p]
<1>0. StoresOK /\ RunsOK /\ RunOK(run[c])
  BY Locals DEF Inv
<1>1. i \in Precedents /\ run[c].op \in {"approve", "demote", "reinstate"}
  BY <1>0 DEF Announce, RunOK
<1>2. log' = [log EXCEPT ![i] = Announced[run[c].op]]
  BY DEF Announce
<1>3. Announced[run[c].op] = "demoted" <=> run[c].op = "demote"
  BY <1>1 DEF Announced
<1> QED
  BY <1>0, <1>1, <1>2, <1>3 DEF Announce, StoresOK, Done, Ends

LEMMA ArchiveSays ==
    ASSUME Inv, NEW c \in Callers, Archive(c)
    PROVE  /\ run[c].pc = "archive" /\ UNCHANGED <<env, log, gone, ruled, down>>
           /\ \E i \in Items \ Learned :
                /\ \/ /\ i \in Noisy /\ node' = node /\ MirrorSet(i, "archived")
                      /\ \E row \in DocRows : /\ RowSet(i, row) /\ row.state = doc[i].state
                                              /\ row.life = "archived"
                   \/ /\ i \notin Noisy /\ UNCHANGED <<doc, vec>>
                      /\ node' = node \/ (Live(i) /\ Grown(i, "archived", Top(i).copy))
                /\ \E next \in RunState :
                     /\ run' = [run EXCEPT ![c] = next] /\ next.pc = "archive"
                     /\ next.op = run[c].op /\ next.rest = run[c].rest
<1>0. StoresOK /\ RunsOK /\ RunOK(run[c]) /\ run[c] \in RunState
  BY Locals DEF Inv
<1>1. PICK i \in run[c].todo :
         /\ IF i \in Noisy
            THEN PutRow(i, [doc[i] EXCEPT !.life = "archived"]) /\ UNCHANGED node
            ELSE /\ node' = IF Live(i) THEN Restamped(i, "archived") ELSE node
                 /\ UNCHANGED <<doc, vec>>
         /\ run' = [run EXCEPT ![c].todo = @ \ {i}]
  BY DEF Archive
<1>2. /\ run[c].pc = "archive" /\ UNCHANGED <<env, log, gone, ruled, down>>
      /\ run[c].todo \in SUBSET (Items \ Learned)
  BY <1>0 DEF Archive, RunOK
<1>3. i \in Items \ Learned /\ i \in Items /\ doc[i] \in DocRows
  BY <1>0, <1>1, <1>2 DEF StoresOK
<1> DEFINE row == [doc[i] EXCEPT !.life = "archived"]
           next == [run[c] EXCEPT !.todo = @ \ {i}]
<1>4. row \in DocRows /\ row.life = "archived" /\ row.state = doc[i].state
  BY <1>3 DEF DocRows, Stamps
<1>5. i \in Noisy => RowSet(i, row) /\ MirrorSet(i, "archived")
  <2> SUFFICES ASSUME i \in Noisy PROVE RowSet(i, row) /\ MirrorSet(i, "archived")
    OBVIOUS
  <2>1. PutRow(i, row)
    BY <1>1
  <2> HIDE DEF row
  <2> QED
    BY <1>0, <1>3, <1>4, <2>1, PutSays DEF Stamps
<1>6. i \notin Noisy /\ Live(i) => Grown(i, "archived", Top(i).copy)
  BY <1>0, <1>1, <1>3, RestampedSays DEF Stamps
<1>7. /\ run' = [run EXCEPT ![c] = next] /\ next.pc = "archive"
      /\ next.op = run[c].op /\ next.rest = run[c].rest /\ next \in RunState
  BY <1>0, <1>1, <1>2 DEF RunsOK, RunState
<1> HIDE DEF row, next
<1> QED
  BY <1>1, <1>2, <1>3, <1>4, <1>5, <1>6, <1>7

LEMMA ResyncSays ==
    ASSUME Inv, NEW c \in Callers, Resync(c)
    PROVE  /\ run[c].pc = "archive" /\ Ends(c)
           /\ UNCHANGED <<env, node, doc, log, gone, ruled, down>>
           /\ \A i \in Items :
                /\ vec'[i].state = vec[i].state /\ vec'[i].copy = vec[i].copy
                /\ \/ vec'[i].life = vec[i].life
                   \/ i \in run[c].rest /\ vec'[i].life = "archived"
                /\ i \notin run[c].rest => vec'[i] = vec[i]
<1>0. StoresOK /\ vec \in [Items -> VecRows]
  BY DEF Inv, StoresOK
<1>1. vec' = [i \in Items |-> IF i \in run[c].rest THEN Mirrored(i, "archived")[i] ELSE vec[i]]
  BY DEF Resync
<1>2. ASSUME NEW i \in Items
      PROVE  LET m == Mirrored(i, "archived")[i] IN
             /\ m.state = vec[i].state /\ m.copy = vec[i].copy
             /\ m.life = vec[i].life \/ m.life = "archived"
  <2>1. vec[i] \in VecRows
    BY <1>0
  <2>2. [vec EXCEPT ![i].life = "archived"][i] = [vec[i] EXCEPT !.life = "archived"]
    BY <1>0
  <2> QED
    BY <2>1, <2>2 DEF Mirrored, VecRows
<1> QED
  BY <1>1, <1>2 DEF Resync, Done, Ends

\* Deleting a vector row: it is gone, or the store is out and the command ends.
LEMMA NoVectorSays ==
    ASSUME StoresOK, RunsOK, NEW c \in Callers, NEW i \in Items, NEW pc \in Stages, NoVector(c, i, pc)
    PROVE  \/ down /\ vec' = vec /\ Ends(c)
           \/ ~down /\ VecSet(i, NoRow) /\ Goes(c, pc)
BY GotoSays, VecSays DEF NoVector, Done, Ends

LEMMA UnvectorSays ==
    ASSUME Inv, NEW c \in Callers, NEW i \in Items, i = run[c].item, Unvector(c)
    PROVE  /\ run[c].pc = "unvector" /\ run[c].op = "redact"
           /\ UNCHANGED <<env, node, doc, log, gone, ruled, down>>
           /\ \/ down /\ vec' = vec /\ Ends(c)
              \/ ~down /\ VecSet(i, NoRow) /\ Goes(c, "blank")
<1>0. StoresOK /\ RunsOK /\ RunOK(run[c])
  BY Locals DEF Inv
<1> QED
  BY <1>0, NoVectorSays DEF Unvector, RunOK, Stages

LEMMA DetachSays ==
    ASSUME Inv, NEW c \in Callers, NEW i \in Items, i = run[c].item, Detach(c)
    PROVE  /\ run[c].pc = "detach" /\ run[c].op = "redact" /\ i \in Precedents
           /\ UNCHANGED <<env, node, doc, log, gone, ruled, down>>
           /\ \/ down /\ vec' = vec /\ Ends(c)
              \/ ~down /\ VecSet(i, NoRow) /\ Goes(c, "purge")
<1>0. StoresOK /\ RunsOK /\ RunOK(run[c])
  BY Locals DEF Inv
<1> QED
  BY <1>0, NoVectorSays DEF Detach, RunOK, Stages, Scrubbing

LEMMA BlankSays ==
    ASSUME Inv, NEW c \in Callers, NEW i \in Items, i = run[c].item, Blank(c)
    PROVE  /\ run[c].pc = "blank" /\ run[c].op = "redact"
           /\ UNCHANGED <<env, node, log, gone, ruled, down>>
           /\ \/ doc[i].state = "none" /\ UNCHANGED <<doc, vec>> /\ Goes(c, "scan")
              \/ doc[i].state # "none" /\ down /\ UNCHANGED <<doc, vec>> /\ Ends(c)
              \/ /\ doc[i].state # "none" /\ ~down /\ Goes(c, "scan")
                 /\ RowSet(i, Tombstone) /\ VecSet(i, NoRow)
<1>0. StoresOK /\ RunsOK /\ RunOK(run[c])
  BY Locals DEF Inv
<1>1. /\ run[c].pc = "blank" /\ run[c].op = "redact"
      /\ UNCHANGED <<env, node, log, gone, ruled, down>>
  BY <1>0 DEF Blank, RunOK
<1>2. CASE doc[i].state = "none"
  BY <1>0, <1>1, <1>2, GotoSays DEF Blank, Stages
<1>3. CASE doc[i].state # "none"
  <2>1. NoVector(c, i, "scan") /\ doc' = IF down THEN doc ELSE [doc EXCEPT ![i] = Tombstone]
    BY <1>3 DEF Blank
  <2>2. ~down => RowSet(i, Tombstone)
    BY <1>0, <2>1 DEF RowSet, StoresOK
  <2> QED
    BY <1>0, <1>1, <1>3, <2>1, <2>2, NoVectorSays DEF Stages
<1> QED
  BY <1>2, <1>3

LEMMA ScanSays ==
    ASSUME Inv, NEW c \in Callers, NEW i \in Items, i = run[c].item, Scan(c)
    PROVE  /\ run[c].pc = "scan" /\ run[c].op = "redact" /\ UNCHANGED <<env, stores, down>>
           /\ \E next \in RunState :
                /\ run' = [run EXCEPT ![c] = next] /\ next.pc = "scrub" /\ next.op = "redact"
                /\ next.item = i /\ next.rest = {i}
                /\ \A r \in next.todo : r.item \in Precedents /\ Live(r.item) /\ r.row = Top(r.item)
                /\ \A r, q \in next.todo : r.item = q.item => r = q
                /\ i = Source => \A p \in Precedents : Live(p) => \E r \in next.todo : r.item = p
                /\ i # Source => next.todo = {}
<1>0. StoresOK /\ RunsOK /\ RunOK(run[c]) /\ run[c] \in RunState /\ RunsOK'
  <2>1. Step(c)
    BY DEF Step
  <2> QED
    BY <2>1, StepLocal, Locals DEF Inv
<1> DEFINE found == {[item |-> p, row |-> Top(p)] : p \in Quoting(i)}
           next == [run[c] EXCEPT !.pc = "scrub", !.todo = found, !.rest = {i}]
<1>1. /\ run[c].pc = "scan" /\ run[c].op = "redact" /\ UNCHANGED <<env, stores, down>>
      /\ run' = [run EXCEPT ![c] = next]
  BY <1>0 DEF Scan, RunOK, RunsOK
<1>2. /\ \A r \in found : r.item \in Precedents /\ Live(r.item) /\ r.row = Top(r.item)
      /\ \A r, q \in found : r.item = q.item => r = q
      /\ i # Source => found = {}
  BY DEF Quoting
<1>3. i = Source => \A p \in Precedents : Live(p) => \E r \in found : r.item = p
  <2> SUFFICES ASSUME i = Source, NEW p \in Precedents, Live(p)
               PROVE  \E r \in found : r.item = p
    OBVIOUS
  <2>1. [item |-> p, row |-> Top(p)] \in found
    BY DEF Quoting
  <2> QED
    BY <2>1
<1>4. next \in RunState
  <2>1. run'[c] = next
    BY <1>0, <1>1 DEF RunsOK
  <2> QED
    BY <1>0, <2>1 DEF RunsOK
<1> HIDE DEF found
<1>5. next.pc = "scrub" /\ next.op = "redact" /\ next.item = i /\ next.rest = {i} /\ next.todo = found
  BY <1>0, <1>1 DEF RunState
<1> HIDE DEF next
<1> QED
  BY <1>1, <1>2, <1>3, <1>4, <1>5

LEMMA ScrubSays ==
    ASSUME Inv, NEW c \in Callers, Scrub(c)
    PROVE  /\ run[c].pc = "scrub" /\ run[c].op = "redact"
           /\ UNCHANGED <<env, node, log, gone, ruled, down>>
           /\ \E r \in run[c].todo, next \in RunState :
                /\ r.item \in Precedents /\ r.row.life \in Stamps
                /\ run' = [run EXCEPT ![c] = next] /\ next.op = "redact" /\ next.rest = run[c].rest
                /\ next.todo = run[c].todo \ {r}
                /\ \/ /\ ~HoldsCopy(r.item) /\ next.pc = "scrub" /\ next.item = run[c].item
                      /\ UNCHANGED <<doc, vec>>
                   \/ /\ next.pc = "detach" /\ next.item = r.item /\ next.life = r.row.life
                      /\ \/ doc[r.item].state # "row" /\ UNCHANGED <<doc, vec>>
                         \/ /\ doc[r.item].state = "row" /\ MirrorSet(r.item, doc[r.item].life)
                            /\ \E row \in DocRows :
                                 /\ RowSet(r.item, row) /\ row.state = "row"
                                 /\ row.life = doc[r.item].life /\ ~row.copy
<1>0. StoresOK /\ RunsOK /\ RunOK(run[c]) /\ run[c] \in RunState /\ RunsOK'
  <2>1. Step(c)
    BY DEF Step
  <2> QED
    BY <2>1, StepLocal, Locals DEF Inv
<1>1. PICK r \in run[c].todo :
         IF HoldsCopy(r.item) \/ (~Live(r.item) /\ r.row.copy)
         THEN /\ IF doc[r.item].state = "row" THEN PutRow(r.item, [doc[r.item] EXCEPT !.copy = FALSE])
                 ELSE UNCHANGED <<doc, vec>>
              /\ run' = [run EXCEPT ![c].pc = "detach", ![c].todo = run[c].todo \ {r},
                                    ![c].item = r.item, ![c].life = r.row.life]
         ELSE UNCHANGED <<doc, vec>> /\ run' = [run EXCEPT ![c].todo = run[c].todo \ {r}]
  BY DEF Scrub
<1>2. /\ run[c].pc = "scrub" /\ run[c].op = "redact" /\ run[c].todo \in SUBSET Scans
      /\ UNCHANGED <<env, node, log, gone, ruled, down>>
  BY <1>0 DEF Scrub, RunOK, Scrubbing
<1>3. r.item \in Precedents /\ r.item \in Items /\ r.row.life \in Stamps
  BY <1>2, Kinds DEF Scans, Versions
<1> DEFINE next == [run[c] EXCEPT !.pc = "detach", !.todo = run[c].todo \ {r},
                                  !.item = r.item, !.life = r.row.life]
           stay == [run[c] EXCEPT !.todo = run[c].todo \ {r}]
           row == [doc[r.item] EXCEPT !.copy = FALSE]
<1>4. /\ next.pc = "detach" /\ next.op = "redact" /\ next.rest = run[c].rest
      /\ next.todo = run[c].todo \ {r} /\ next.item = r.item /\ next.life = r.row.life
      /\ stay.pc = "scrub" /\ stay.op = "redact" /\ stay.rest = run[c].rest
      /\ stay.todo = run[c].todo \ {r} /\ stay.item = run[c].item
  BY <1>0, <1>2 DEF RunState
<1>5. row \in DocRows /\ row.state = doc[r.item].state /\ row.life = doc[r.item].life /\ ~row.copy
  BY <1>0, <1>3 DEF StoresOK, DocRows
<1>6. doc[r.item].life \in Stamps
  BY <1>0, <1>3 DEF StoresOK, DocRows
<1>7. CASE run' = [run EXCEPT ![c] = stay] /\ UNCHANGED <<doc, vec>> /\ ~HoldsCopy(r.item)
  <2>1. stay \in RunState
    BY <1>0, <1>7 DEF RunsOK
  <2> HIDE DEF stay
  <2> QED
    BY <1>2, <1>3, <1>4, <1>7, <2>1
<1>8. CASE /\ run' = [run EXCEPT ![c] = next]
           /\ doc[r.item].state = "row" => PutRow(r.item, row)
           /\ doc[r.item].state # "row" => UNCHANGED <<doc, vec>>
  <2>1. next \in RunState
    BY <1>0, <1>8 DEF RunsOK
  <2> HIDE DEF next, row
  <2>2. doc[r.item].state = "row" => RowSet(r.item, row) /\ MirrorSet(r.item, doc[r.item].life)
    BY <1>0, <1>3, <1>5, <1>6, <1>8, PutSays
  <2> QED
    BY <1>2, <1>3, <1>4, <1>5, <1>8, <2>1, <2>2
<1>9. \/ run' = [run EXCEPT ![c] = stay] /\ UNCHANGED <<doc, vec>> /\ ~HoldsCopy(r.item)
      \/ /\ run' = [run EXCEPT ![c] = next]
         /\ doc[r.item].state = "row" => PutRow(r.item, row)
         /\ doc[r.item].state # "row" => UNCHANGED <<doc, vec>>
  BY <1>0, <1>1 DEF RunsOK
<1> QED
  BY <1>7, <1>8, <1>9

LEMMA PurgeSays ==
    ASSUME Inv, NEW c \in Callers, NEW i \in Items, i = run[c].item, Purge(c)
    PROVE  /\ run[c].pc = "purge" /\ run[c].op = "redact" /\ i \in Precedents
           /\ UNCHANGED <<env, doc, vec, log, gone, ruled, down>>
           /\ Purged(i) /\ Goes(c, IF Live(i) THEN "recreate" ELSE "scrub")
<1>0. StoresOK /\ RunsOK /\ RunOK(run[c])
  BY Locals DEF Inv
<1>1. Goes(c, IF Live(i) THEN "recreate" ELSE "scrub")
  BY <1>0, GotoSays DEF Purge, Stages
<1> QED
  BY <1>0, <1>1 DEF Purge, RunOK, Scrubbing, StoresOK, Purged

LEMMA RecreateSays ==
    ASSUME Inv, NEW c \in Callers, NEW i \in Items, i = run[c].item, Recreate(c)
    PROVE  /\ run[c].pc = "recreate" /\ run[c].op = "redact" /\ i \in Precedents
           /\ UNCHANGED <<env, doc, vec, log, gone, ruled, down>>
           /\ \E next \in RunState :
                /\ run' = [run EXCEPT ![c] = next] /\ next.op = "redact" /\ next.item = i
                /\ next.pc = IF doc[i].state = "row" THEN "embed" ELSE "scrub"
                /\ next.life = doc[i].life /\ ~next.copy /\ Grown(i, run[c].life, next.copy)
                /\ next.todo = run[c].todo /\ next.rest = run[c].rest
<1>0. /\ StoresOK /\ RunsOK /\ RunOK(run[c]) /\ run[c] \in RunState /\ RunsOK'
      /\ run[c].life \in Stamps
  <2>1. Step(c)
    BY DEF Step
  <2> QED
    BY <2>1, StepLocal, Locals DEF Inv
<1>1. /\ run[c].pc = "recreate" /\ run[c].op = "redact" /\ i \in Precedents
      /\ UNCHANGED <<env, doc, vec, log, gone, ruled, down>>
  BY <1>0 DEF Recreate, RunOK, Scrubbing
<1> DEFINE pc == IF doc[i].state = "row" THEN "embed" ELSE "scrub"
           next == [run[c] EXCEPT !.pc = pc, !.life = doc[i].life, !.copy = FALSE]
<1>3. run' = [run EXCEPT ![c] = next]
  BY <1>0 DEF Recreate, RunsOK
<1>4. /\ next.pc = pc /\ next.op = "redact" /\ next.item = i /\ next.life = doc[i].life
      /\ next.copy = FALSE /\ next.todo = run[c].todo /\ next.rest = run[c].rest
  BY <1>0, <1>1 DEF RunState
<1>5. next \in RunState
  BY <1>0, <1>3 DEF RunsOK
<1> HIDE DEF next
<1>2. Grown(i, run[c].life, next.copy)
  <2> DEFINE v == Version(run[c].life, FALSE, FALSE)
  <2>1. v \in Versions /\ v.life = run[c].life /\ v.copy = FALSE
    BY <1>0 DEF Version, Versions
  <2>2. node' = [node EXCEPT ![i] = Append(@, v)]
    BY DEF Recreate, Scrubbed
  <2> HIDE DEF v
  <2> QED
    BY <1>0, <1>4, <2>1, <2>2, GrownSays
<1> QED
  BY <1>1, <1>2, <1>3, <1>4, <1>5

LEMMA DropSays ==
    ASSUME Inv, NEW c \in Callers, Drop(c)
    PROVE  /\ run[c].pc = "scrub" /\ run[c].op = "redact" /\ run[c].todo = {}
           /\ UNCHANGED <<env, doc, vec, log, gone, ruled, down>>
           /\ \E i \in Items : /\ run[c].rest = {i} /\ Purged(i)
                               /\ \/ Live(i) /\ Goes(c, "report")
                                  \/ ~Live(i) /\ Ends(c)
<1>0. StoresOK /\ RunsOK /\ RunOK(run[c])
  BY Locals DEF Inv
<1>1. /\ run[c].pc = "scrub" /\ run[c].op = "redact" /\ run[c].todo = {}
      /\ UNCHANGED <<env, doc, vec, log, gone, ruled, down>>
      /\ \E i \in Items : run[c].rest = {i}
  BY <1>0 DEF Drop, RunOK, Scrubbing
<1>2. PICK i \in Items : run[c].rest = {i}
  BY <1>1
<1>3. TargetOf(run[c]) = i
  BY <1>2 DEF TargetOf
<1>4. node' = [node EXCEPT ![i] = <<>>] /\ IF Live(i) THEN Goto(c, "report") ELSE Done(c)
  BY <1>3 DEF Drop
<1>5. Purged(i)
  BY <1>0, <1>4 DEF Purged, StoresOK
<1> QED
  BY <1>0, <1>1, <1>2, <1>4, <1>5, GotoSays DEF Stages, Done, Ends

LEMMA ReportSays ==
    ASSUME Inv, NEW c \in Callers, Report(c)
    PROVE  /\ run[c].pc = "report" /\ run[c].op = "redact" /\ Ends(c)
           /\ UNCHANGED <<env, node, doc, vec, log, ruled, down>>
           /\ \E i \in Items : run[c].rest = {i} /\ gone' = gone \cup {i}
<1>0. StoresOK /\ RunsOK /\ RunOK(run[c])
  BY Locals DEF Inv
<1>1. /\ run[c].pc = "report" /\ run[c].op = "redact" /\ \E i \in Items : run[c].rest = {i}
  BY <1>0 DEF Report, RunOK, Scrubbing
<1>2. PICK i \in Items : run[c].rest = {i}
  BY <1>1
<1>3. TargetOf(run[c]) = i
  BY <1>2 DEF TargetOf
<1> QED
  BY <1>1, <1>2, <1>3 DEF Report, Done, Ends

-----------------------------------------------------------------------------
(* What each command starts from *)

\* A command that was let in found its caller idle, and every caller where
\* commands take turns.
Admitted(c, op) ==
    /\ op \in env /\ run[c].pc = "idle"
    /\ Turns => \A d \in Callers : run[d].pc = "idle"
Begins(c, op, pc, item) ==
    \E next \in RunState : /\ run' = [run EXCEPT ![c] = next]
                           /\ next.pc = pc /\ next.op = op /\ next.item = item

LEMMA EnterSays ==
    ASSUME NEW c \in Callers, NEW op \in Events, NEW self \in RunState, Enter(c, op, self)
    PROVE  /\ Admitted(c, op) /\ UNCHANGED <<env, stores, down>>
           /\ \E next \in RunState :
                /\ run' = [run EXCEPT ![c] = next] /\ next.op = op /\ next.pc = self.pc
                /\ next.item = self.item /\ next.life = self.life /\ next.copy = self.copy
                /\ next.strict = self.strict
                /\ next.todo = self.todo /\ next.rest = self.rest
<1> DEFINE next == [self EXCEPT !.op = op]
<1>1. /\ next \in RunState /\ next.op = op /\ next.pc = self.pc
      /\ next.item = self.item /\ next.life = self.life /\ next.copy = self.copy
      /\ next.strict = self.strict
      /\ next.todo = self.todo /\ next.rest = self.rest
  BY DEF RunState
<1>2. run' = [run EXCEPT ![c] = next]
  BY DEF Enter
<1>3. Admitted(c, op) /\ UNCHANGED <<env, stores, down>>
  BY DEF Enter, Admit, Admitted, Turns
<1> HIDE DEF next
<1> QED
  BY <1>1, <1>2, <1>3

LEMMA ApproveSays ==
    ASSUME Inv, NEW c \in Callers, NEW p \in Learned, Approve(c, p)
    PROVE  /\ p \notin gone /\ doc[p].state # "tomb"
           /\ Live(p) => State(p) = "current"
           /\ Admitted(c, "approve") /\ UNCHANGED <<env, stores, down>>
           /\ \E next \in RunState :
                /\ run' = [run EXCEPT ![c] = next] /\ next.op = "approve" /\ next.pc = "create"
                /\ next.item = p
                /\ next.copy => doc[Source].state = "row"
<1> DEFINE copy == doc[Source].state = "row" /\ doc[Source].life # "archived"
           self == [Idle EXCEPT !.pc = "create", !.item = p, !.copy = copy]
<1>1. copy \in BOOLEAN /\ p \in Items
  BY Kinds
<1>2. /\ Enter(c, "approve", self) /\ p \notin gone /\ doc[p].state # "tomb"
      /\ Live(p) => State(p) = "current"
  BY DEF Approve
<1>3. copy => doc[Source].state = "row"
  OBVIOUS
<1> HIDE DEF copy
<1>4. self \in RunState /\ self.pc = "create" /\ self.item = p /\ self.copy = copy
  BY <1>1, IdleFacts DEF RunState
<1> HIDE DEF self
<1>5. /\ Admitted(c, "approve") /\ UNCHANGED <<env, stores, down>>
      /\ \E next \in RunState :
           /\ run' = [run EXCEPT ![c] = next] /\ next.op = "approve" /\ next.pc = self.pc
           /\ next.item = self.item /\ next.copy = self.copy
  BY <1>2, <1>4, EnterSays DEF Events
<1> QED
  BY <1>2, <1>3, <1>4, <1>5

LEMMA DemoteSays ==
    ASSUME Inv, NEW c \in Callers, NEW p \in Precedents, Demote(c, p)
    PROVE  /\ Live(p) /\ State(p) = "current"
           /\ Admitted(c, "demote") /\ UNCHANGED <<env, stores, down>>
           /\ \E next \in RunState :
                /\ run' = [run EXCEPT ![c] = next] /\ next.op = "demote" /\ next.pc = "stamp"
                /\ next.item = p /\ next.life = "demoted"
<1> DEFINE self == [Idle EXCEPT !.pc = "stamp", !.item = p, !.life = "demoted"]
<1>1. Enter(c, "demote", self) /\ Live(p) /\ State(p) = "current"
  BY DEF Demote
<1>2. self \in RunState /\ self.pc = "stamp" /\ self.item = p /\ self.life = "demoted"
  BY Kinds, IdleFacts DEF RunState, Stamps
<1> HIDE DEF self
<1> QED
  BY <1>1, <1>2, EnterSays DEF Events

LEMMA ReinstateSays ==
    ASSUME Inv, NEW c \in Callers, NEW p \in Precedents, Reinstate(c, p)
    PROVE  /\ Live(p) /\ Admitted(c, "reinstate") /\ UNCHANGED <<env, stores, down>>
           /\ \E next \in RunState :
                /\ run' = [run EXCEPT ![c] = next] /\ next.op = "reinstate"
                /\ next.pc = IF RowOnly(p) THEN "restamp" ELSE "unmark"
                /\ next.item = p /\ next.life = "current" /\ next.strict = RowOnly(p)
<1> DEFINE pc == IF RowOnly(p) THEN "restamp" ELSE "unmark"
           strict == RowOnly(p)
           self == [Idle EXCEPT !.item = p, !.life = "current", !.strict = strict, !.pc = pc]
<1>1. Enter(c, "reinstate", self) /\ Live(p)
  BY DEF Reinstate
<1>2. pc \in {"restamp", "unmark"} /\ strict \in BOOLEAN
  BY DEF RowOnly
<1> HIDE DEF pc, strict
<1>3. /\ self \in RunState /\ self.pc = pc /\ self.item = p /\ self.life = "current"
      /\ self.strict = strict
  BY <1>2, Kinds, IdleFacts DEF RunState, Stamps
<1> HIDE DEF self
<1>4. /\ Admitted(c, "reinstate") /\ UNCHANGED <<env, stores, down>>
      /\ \E next \in RunState : /\ run' = [run EXCEPT ![c] = next] /\ next.op = "reinstate"
                                /\ next.pc = self.pc /\ next.item = self.item /\ next.life = self.life
                                /\ next.strict = self.strict
  BY <1>1, <1>3, EnterSays DEF Events
<1> QED
  BY <1>1, <1>3, <1>4 DEF pc, strict

LEMMA PruneSays ==
    ASSUME Inv, NEW c \in Callers, Prune(c)
    PROVE  /\ Admitted(c, "prune") /\ UNCHANGED <<env, stores, down>>
           /\ \E next \in RunState :
                /\ run' = [run EXCEPT ![c] = next] /\ next.op = "prune" /\ next.pc = "archive"
                /\ \A i \in next.rest : i \in Items /\ i \notin Learned /\ doc[i].life = "archived"
<1> DEFINE rest == {i \in Items : ArchivedAlready(i)}
<1>1. PICK picked \in SUBSET {i \in Items : Eligible(i)} :
         Enter(c, "prune", [Idle EXCEPT !.pc = "archive", !.todo = picked, !.rest = rest])
  BY DEF Prune
<1> DEFINE self == [Idle EXCEPT !.pc = "archive", !.todo = picked, !.rest = rest]
<1>2. picked \in SUBSET Items /\ rest \in SUBSET Items
      /\ \A i \in rest : i \in Items /\ i \notin Learned /\ doc[i].life = "archived"
  BY DEF ArchivedAlready
<1> HIDE DEF rest
<1>3. self \in RunState /\ self.pc = "archive" /\ self.rest = rest
  BY <1>2, IdleFacts DEF RunState
<1>4. Enter(c, "prune", self)
  BY <1>1
<1> HIDE DEF self
<1>5. /\ Admitted(c, "prune") /\ UNCHANGED <<env, stores, down>>
      /\ \E next \in RunState : /\ run' = [run EXCEPT ![c] = next] /\ next.op = "prune"
                                /\ next.pc = self.pc /\ next.rest = self.rest
  BY <1>3, <1>4, EnterSays DEF Events
<1> QED
  BY <1>2, <1>3, <1>5

LEMMA RestoreRowSays ==
    ASSUME Inv, NEW c \in Callers, NEW i \in Items, RestoreRow(c, i)
    PROVE  /\ doc[i].state = "row" /\ doc[i].life = "archived" /\ i \notin Learned
           /\ Admitted(c, "restore") /\ UNCHANGED <<env, node, log, gone, ruled, down, run>>
           /\ RowSet(i, Row("current", doc[i].copy)) /\ MirrorSet(i, "current")
<1>0. StoresOK /\ doc[i].copy \in BOOLEAN
  BY DEF Inv, StoresOK, DocRows
<1>1. doc[i].state = "row" /\ doc[i].life = "archived" /\ PutRow(i, Row("current", doc[i].copy))
  BY DEF RestoreRow, Restorable
<1>2. Row("current", doc[i].copy).life = "current"
  BY DEF Row
<1>3. RowSet(i, Row("current", doc[i].copy)) /\ MirrorSet(i, "current")
  BY <1>0, <1>1, <1>2, PutSays DEF Stamps
<1> QED
  BY <1>0, <1>1, <1>3 DEF RestoreRow, StoresOK, NeverArchived, Admit, Admitted, Turns

LEMMA RestoreNodeSays ==
    ASSUME Inv, NEW c \in Callers, NEW i \in Items, RestoreNode(c, i)
    PROVE  /\ doc[i].state = "none" /\ Live(i) /\ i \notin Learned
           /\ i \in Precedents => Unarchived(i) # {}
           /\ Admitted(c, "restore") /\ UNCHANGED <<env, doc, vec, log, gone, ruled, down>>
           /\ \E life \in Stamps, next \in RunState :
                /\ i \in Precedents => life = PreArchival(i)
                /\ Grown(i, life, Top(i).copy)
                /\ run' = [run EXCEPT ![c] = next] /\ next.pc = "sync" /\ next.op = "restore"
                /\ next.item = i
<1>0. StoresOK
  BY DEF Inv
<1>1. PICK life \in Stamps :
         /\ i \in Precedents => life = PreArchival(i)
         /\ node' = Restamped(i, life)
         /\ run' = [run EXCEPT ![c] = [Idle EXCEPT !.pc = "sync", !.op = "restore",
                                                   !.item = i, !.life = life]]
  <2>1. i \in Precedents => PreArchival(i) \in Stamps
    BY <1>0, PreArchivalIs DEF RestoreNode
  <2> QED
    BY <2>1 DEF RestoreNode, Stamps
<1>2. /\ doc[i].state = "none" /\ Live(i) /\ Top(i).life = "archived"
      /\ i \in Precedents => Unarchived(i) # {}
      /\ Admitted(c, "restore") /\ UNCHANGED <<env, doc, vec, log, gone, ruled, down>>
  BY DEF RestoreNode, Admit, Admitted, Turns
<1>3. Grown(i, life, Top(i).copy)
  BY <1>0, <1>1, <1>2, RestampedSays
<1> DEFINE next == [Idle EXCEPT !.pc = "sync", !.op = "restore", !.item = i, !.life = life]
<1>4. next \in RunState /\ next.pc = "sync" /\ next.op = "restore" /\ next.item = i
  BY IdleFacts DEF RunState, Events
<1>5. run' = [run EXCEPT ![c] = next]
  BY <1>1
<1> HIDE DEF next
<1>6. i \notin Learned
  BY <1>0, <1>2 DEF StoresOK, NeverArchived
<1> QED
  BY <1>1, <1>2, <1>3, <1>4, <1>5, <1>6

LEMMA ConfirmSays ==
    ASSUME Inv, NEW c \in Callers, NEW i \in Mints, Confirm(c, i)
    PROVE  /\ Live(i) /\ i \in Items /\ i \notin Precedents \cup {Source}
           /\ Grown(i, Top(i).life, Top(i).copy)
           /\ Admitted(c, "confirm") /\ UNCHANGED <<env, doc, vec, log, gone, ruled, down, run>>
<1>0. StoresOK /\ i \in Items /\ i \notin Precedents \cup {Source}
  BY LifecycleAssumption, Kinds DEF Inv
<1>1. /\ Live(i) /\ node' = [node EXCEPT ![i] = Append(@, [Top(i) EXCEPT !.sure = TRUE])]
      /\ Admitted(c, "confirm") /\ UNCHANGED <<env, doc, vec, log, gone, ruled, down, run>>
  BY DEF Confirm, Admit, Admitted, Turns
<1> DEFINE v == [Top(i) EXCEPT !.sure = TRUE]
<1>2. v \in Versions /\ v.life = Top(i).life /\ v.copy = Top(i).copy
  BY <1>0, <1>1, TopType DEF Versions
<1>3. node' = [node EXCEPT ![i] = Append(@, v)]
  BY <1>1
<1> HIDE DEF v
<1> QED
  BY <1>0, <1>1, <1>2, <1>3, GrownSays

LEMMA RedactSays ==
    ASSUME Inv, NEW c \in Callers, NEW i \in Nodes, Redact(c, i)
    PROVE  /\ Live(i) /\ Admitted(c, "redact") /\ UNCHANGED <<env, stores, down>>
           /\ Begins(c, "redact", "unvector", i)
<1> DEFINE self == [Idle EXCEPT !.pc = "unvector", !.item = i]
<1>1. self \in RunState /\ self.pc = "unvector" /\ self.item = i
  BY Kinds, IdleFacts DEF RunState
<1>2. Enter(c, "redact", self) /\ Live(i)
  BY DEF Redact
<1> HIDE DEF self
<1> QED
  BY <1>1, <1>2, EnterSays DEF Events, Begins

-----------------------------------------------------------------------------
(* A demotion stands *)

ScrubbingAt(self) == self.pc \in Scrubbing \/ (self.pc = "embed" /\ self.op = "redact")

\* The last version that is not archived is demoted, if there is one: what an
\* archived precedent is restored to.
Stands(s) ==
    \A v \in 1..Len(s) : s[v].life \in {"demoted", "archived"}
                         \/ \E w \in (v+1)..Len(s) : s[w].life # "archived"

\* Where a ruled precedent has no node, a redaction is about to write it again
\* or to report it, or has reported it.
Leaving(self, p) == \/ self.pc = "recreate" /\ self.item = p
                    \/ self.pc = "report" /\ self.rest = {p}

\* A promotion that was let in finds the node it read, and the stamps a
\* redaction holds of ruled precedents withhold them.
KeepsIn(self, n, rl) ==
    /\ self.pc = "create" /\ self.item \in rl => n[self.item] # <<>>
    /\ ScrubbingAt(self) => \A r \in self.todo : r.item \in rl => r.row.life \in {"demoted", "archived"}
    /\ self.pc \in {"detach", "purge", "recreate"} /\ self.item \in rl
          => self.life \in {"demoted", "archived"}

Guarded == Calm \/ "redact" \notin env
RulingIn(p) == Stands(node[p]) /\ (Live(p) \/ p \in gone \/ \E c \in Callers : Leaving(run[c], p))

StandsNow ==
    /\ \A p \in ruled : RulingIn(p)
    /\ \A c \in Callers : KeepsIn(run[c], node, ruled)
StandInv == Guarded => StandsNow

\* A command runs under a name that may happen, and alone where they take turns.
NamesIn == \A c \in Callers : run[c].op \in env \cup {"none"}
Turned == NamesIn /\ (Turns => Alone(run))

LEMMA StandsDemoted ==
    ASSUME NEW s \in Seq(Versions), NEW v \in Versions, v.life = "demoted"
    PROVE  Stands(Append(s, v))
<1> DEFINE t == Append(s, v)
           m == Len(s) + 1
<1>1. Len(t) = m /\ t[m] = v /\ Len(s) \in Nat /\ m \in 1..Len(t)
  OBVIOUS
<1> HIDE DEF t
<1>2. ASSUME NEW u \in 1..Len(t)
      PROVE  t[u].life \in {"demoted", "archived"} \/ \E w \in (u+1)..Len(t) : t[w].life # "archived"
  <2>1. u = m \/ m \in (u+1)..Len(t)
    BY <1>1
  <2> QED
    BY <1>1, <2>1
<1> QED
  BY <1>2 DEF Stands, t

LEMMA StandsArchived ==
    ASSUME NEW s \in Seq(Versions), NEW v \in Versions, v.life = "archived", Stands(s)
    PROVE  Stands(Append(s, v))
<1> DEFINE t == Append(s, v)
           m == Len(s) + 1
<1>1. /\ Len(t) = m /\ t[m] = v /\ Len(s) \in Nat /\ m \in 1..Len(t)
      /\ \A u \in 1..Len(s) : t[u] = s[u]
  OBVIOUS
<1> HIDE DEF t
<1>2. ASSUME NEW u \in 1..Len(t)
      PROVE  t[u].life \in {"demoted", "archived"} \/ \E w \in (u+1)..Len(t) : t[w].life # "archived"
  <2>1. CASE u = m
    BY <1>1, <2>1
  <2>2. CASE u # m
    <3>1. u \in 1..Len(s)
      BY <1>1, <2>2
    <3>2. s[u].life \in {"demoted", "archived"} \/ \E w \in (u+1)..Len(s) : s[w].life # "archived"
      BY <3>1 DEF Stands
    <3>3. \A w \in (u+1)..Len(s) : w \in 1..Len(s) /\ w \in (u+1)..Len(t)
      BY <1>1, <3>1
    <3> QED
      BY <1>1, <3>1, <3>2, <3>3
  <2> QED
    BY <2>1, <2>2
<1> QED
  BY <1>2 DEF Stands, t

LEMMA StandsEmpty == Stands(<<>>)
BY DEF Stands

LEMMA StandsTop ==
    ASSUME StoresOK, NEW p \in Items, Live(p), Stands(node[p])
    PROVE  Top(p).life \in {"demoted", "archived"}
<1>1. node[p] \in Seq(Versions) /\ Len(node[p]) \in 1..Len(node[p]) /\ Len(node[p]) \in Nat
  BY DEF StoresOK, Live
<1>2. ~ \E w \in (Len(node[p]) + 1)..Len(node[p]) : TRUE
  BY <1>1
<1> QED
  BY <1>1, <1>2 DEF Stands, Top

\* A ruled precedent is restored as demoted.
LEMMA StandsRestored ==
    ASSUME StoresOK, NEW p \in Items, Unarchived(p) # {}, Stands(node[p])
    PROVE  PreArchival(p) = "demoted"
<1>1. node[p] \in Seq(Versions) /\ Len(node[p]) \in Nat
  BY DEF StoresOK
<1>2. Unarchived(p) \in SUBSET Nat /\ \A v \in Unarchived(p) : v <= Len(node[p])
  BY <1>1 DEF Unarchived
<1>3. \E v \in Unarchived(p) : \A w \in Unarchived(p) : w <= v
  BY <1>1, <1>2, GreatestBelow
<1>4. PICK v \in Unarchived(p) : /\ \A w \in Unarchived(p) : w <= v
                                 /\ PreArchival(p) = IF node[p][v].life = "unset" THEN "current"
                                                     ELSE node[p][v].life
  BY <1>3 DEF PreArchival
<1>5. v \in 1..Len(node[p]) /\ node[p][v].life # "archived"
  BY <1>4 DEF Unarchived
<1>6. ~ \E w \in (v+1)..Len(node[p]) : node[p][w].life # "archived"
  <2> SUFFICES ASSUME NEW w \in (v+1)..Len(node[p]), node[p][w].life # "archived" PROVE FALSE
    OBVIOUS
  <2>1. w \in 1..Len(node[p]) /\ w > v
    BY <1>1, <1>5
  <2>2. w \in Unarchived(p)
    BY <2>1 DEF Unarchived
  <2> QED
    BY <1>1, <1>4, <1>5, <2>1, <2>2
<1> QED
  BY <1>4, <1>5, <1>6 DEF Stands

LEMMA GrownStands ==
    ASSUME StoresOK, NEW i \in Items, NEW life, NEW copy, Grown(i, life, copy),
           life = "demoted" \/ (life = "archived" /\ Stands(node[i]))
    PROVE  Stands(node'[i])
<1>1. node[i] \in Seq(Versions)
  BY DEF StoresOK
<1> QED
  BY <1>1, StandsDemoted, StandsArchived DEF Grown

LEMMA IdleKeeps == ASSUME NEW self, self.pc = "idle", NEW n, NEW rl PROVE KeepsIn(self, n, rl)
BY DEF KeepsIn, ScrubbingAt, Scrubbing

\* The callers that do not move keep what they hold: in a redaction they are
\* idle, and otherwise nodes only grow and what is ruled has a node.
LEMMA OthersKeep ==
    ASSUME RunsOK, NEW c \in Callers, NEW next, run' = [run EXCEPT ![c] = next],
           \A e \in Callers \ {c} :
               \/ run[e].pc = "idle"
               \/ /\ run[e].op # "redact"
                  /\ \A i \in Items : Live(i) => node'[i] # <<>>
                  /\ \A p \in ruled' : p \in ruled \/ node'[p] # <<>>,
           \A e \in Callers : KeepsIn(run[e], node, ruled)
    PROVE  \A e \in Callers \ {c} : KeepsIn(run'[e], node', ruled')
<1> SUFFICES ASSUME NEW e \in Callers \ {c} PROVE KeepsIn(run'[e], node', ruled')
  OBVIOUS
<1>1. run'[e] = run[e] /\ RunOK(run[e]) /\ run[e].item \in Items
  BY Locals DEF RunsOK
<1>2. CASE run[e].pc = "idle"
  BY <1>1, <1>2, IdleKeeps
<1>3. CASE /\ run[e].op # "redact"
           /\ \A i \in Items : Live(i) => node'[i] # <<>>
           /\ \A p \in ruled' : p \in ruled \/ node'[p] # <<>>
  BY <1>1, <1>3 DEF KeepsIn, ScrubbingAt, Scrubbing, RunOK, Live
<1> QED
  BY <1>2, <1>3

\* Who moves, and under which name.
LEMMA StepMoves ==
    ASSUME Inv, NEW c \in Callers, Step(c)
    PROVE  /\ run[c].pc # "idle"
           /\ \E next : run' = [run EXCEPT ![c] = next] /\ next.op \in {run[c].op, "none"}
<1>0. PICK i \in Items : i = run[c].item
  BY Locals DEF Inv
<1>1. Idle.op = "none"
  BY DEF Idle
<1>2. CASE Create(c) \/ Load(c) \/ Put(c) \/ Embed(c) \/ Stamp(c) \/ Restamp(c)
  BY <1>0, <1>1, <1>2, CreateSays, LoadSays, PutStepSays, EmbedSays, StampSays, RestampSays
     DEF Goes, Moved, Ends
<1>3. CASE Mark(c) \/ Unmark(c) \/ Sync(c) \/ Announce(c) \/ Archive(c) \/ Resync(c)
  BY <1>0, <1>1, <1>3, MarkSays, UnmarkSays, SyncSays, AnnounceSays, ArchiveSays, ResyncSays
     DEF Goes, Moved, Ends
<1>4. CASE Unvector(c) \/ Blank(c) \/ Scan(c) \/ Scrub(c) \/ Detach(c)
  BY <1>0, <1>1, <1>4, UnvectorSays, BlankSays, ScanSays, ScrubSays, DetachSays
     DEF Goes, Moved, Ends
<1>5. CASE Purge(c)
  BY <1>0, <1>5, PurgeSays DEF Goes, Moved
<1>6. CASE Recreate(c)
  <2>1. run[c].pc = "recreate" /\ run[c].op = "redact"
        /\ \E next \in RunState : run' = [run EXCEPT ![c] = next] /\ next.op = "redact"
    BY <1>0, <1>6, RecreateSays
  <2> QED
    BY <2>1
<1>8. CASE Report(c)
  BY <1>1, <1>8, ReportSays DEF Ends
<1>7. CASE Drop(c)
  BY <1>1, <1>7, DropSays DEF Goes, Moved, Ends
<1> QED
  BY <1>2, <1>3, <1>4, <1>5, <1>6, <1>7, <1>8 DEF Step

LEMMA CommandMoves ==
    ASSUME Inv, NEW c \in Callers, Command(c)
    PROVE  /\ run[c].pc = "idle"
           /\ Turns => \A d \in Callers : run[d].pc = "idle"
           /\ \E next : run' = [run EXCEPT ![c] = next] /\ next.op \in env \cup {run[c].op}
<1>0. run' = run => run' = [run EXCEPT ![c] = run[c]]
  BY DEF Inv, RunsOK
<1>1. CASE \/ \E p \in Learned : Approve(c, p)
           \/ \E p \in Precedents : Demote(c, p) \/ Reinstate(c, p)
           \/ Prune(c)
  BY <1>0, <1>1, ApproveSays, DemoteSays, ReinstateSays, PruneSays DEF Admitted
<1>2. CASE \/ \E i \in Items : RestoreRow(c, i) \/ RestoreNode(c, i)
           \/ \E i \in Mints : Confirm(c, i)
           \/ \E i \in Nodes : Redact(c, i)
  BY <1>0, <1>2, RestoreRowSays, RestoreNodeSays, ConfirmSays, RedactSays DEF Admitted, Begins
<1> QED
  BY <1>1, <1>2 DEF Command

LEMMA InitTurned == Init => Turned
BY IdleOK DEF Init, Turned, NamesIn, Alone, Idle

LEMMA TurnedStep == Inv /\ Turned /\ [Next]_vars => Turned'
<1> SUFFICES ASSUME Inv, Turned, [Next]_vars PROVE Turned'
  OBVIOUS
<1>0. RunsOK /\ env' = env /\ NamesIn /\ (Turns' <=> Turns)
  BY EnvStays DEF Inv, Turned, Turns
<1>1. ASSUME NEW c \in Callers, NEW next, run' = [run EXCEPT ![c] = next],
             next.op \in env \cup {run[c].op, "none"},
             run[c].pc # "idle" \/ (Turns => \A e \in Callers : run[e].pc = "idle")
      PROVE  Turned'
  <2>1. \A e \in Callers : run'[e] = next \/ run'[e] = run[e]
    BY <1>0, <1>1 DEF RunsOK
  <2>2. NamesIn'
    BY <1>0, <1>1, <2>1 DEF NamesIn
  <2>3. Turns => Alone(run')
    BY <1>0, <1>1, MovesAlone DEF Turned
  <2> QED
    BY <1>0, <2>2, <2>3 DEF Turned
<1>2. ASSUME NEW c \in Callers, Step(c) PROVE Turned'
  BY <1>1, <1>2, StepMoves
<1>3. ASSUME NEW c \in Callers, Command(c) PROVE Turned'
  BY <1>1, <1>3, CommandMoves
<1>4. ASSUME NEW c \in Callers, Die(c) PROVE Turned'
  BY <1>1, <1>4 DEF Die, Done, Idle
<1>5. ASSUME Outage \/ Return \/ UNCHANGED vars PROVE Turned'
  <2>1. run' = run
    BY <1>5 DEF Outage, Return, vars
  <2> QED
    BY <1>0, <2>1 DEF Turned, NamesIn, Alone
<1> QED
  BY <1>2, <1>3, <1>4, <1>5 DEF Next

\* In a redaction no other command runs, where a demotion must stand.
LEMMA RedactAlone ==
    ASSUME Inv, Turned, Guarded, NEW c \in Callers, run[c].op = "redact", run[c].pc # "idle"
    PROVE  Turns /\ Calm /\ \A e \in Callers \ {c} : run[e].pc = "idle"
<1>1. "redact" \in env
  BY DEF Turned, NamesIn
<1>2. Calm /\ Turns
  BY <1>1 DEF Guarded, Calm, Turns
<1> QED
  BY <1>2 DEF Turned, Alone

\* An idle caller, or one that is not in a redaction, leaves no node behind.
LEMMA LeavingRedacts ==
    ASSUME RunsOK, NEW c \in Callers, NEW p, Leaving(run[c], p)
    PROVE  run[c].op = "redact" /\ run[c].pc \in {"recreate", "report"}
BY Locals DEF Leaving, RunOK, Scrubbing

LEMMA KindOfStep ==
    ASSUME Inv, NEW c \in Callers, Step(c)
    PROVE  \/ \/ Create(c) \/ Load(c) \/ Put(c) \/ Stamp(c) \/ Mark(c) \/ Sync(c) \/ Announce(c)
              \/ Unmark(c) \/ Restamp(c) \/ Archive(c) \/ Resync(c)
              \/ Embed(c) /\ run[c].op = "approve"
           \/ /\ run[c].op = "redact" /\ run[c].pc # "idle"
              /\ \/ Unvector(c) \/ Blank(c) \/ Scan(c) \/ Scrub(c) \/ Detach(c) \/ Purge(c)
                 \/ Recreate(c) \/ Drop(c) \/ Report(c)
                 \/ Embed(c) /\ run[c].op = "redact"
<1>0. PICK i \in Items : i = run[c].item
  BY Locals DEF Inv
<1>1. CASE Unvector(c) \/ Blank(c) \/ Scan(c) \/ Scrub(c) \/ Detach(c)
  BY <1>0, <1>1, UnvectorSays, BlankSays, ScanSays, ScrubSays, DetachSays
<1>2. CASE Purge(c) \/ Recreate(c) \/ Drop(c) \/ Report(c) \/ Embed(c)
  BY <1>0, <1>2, PurgeSays, RecreateSays, DropSays, ReportSays, EmbedSays
<1> QED
  BY <1>1, <1>2 DEF Step

LEMMA RulingKept ==
    ASSUME RunsOK, NEW c \in Callers, NEW next, run' = [run EXCEPT ![c] = next],
           NEW p, node'[p] = node[p], gone' = gone, RulingIn(p),
           \/ run[c].pc \notin {"recreate", "report"}
           \/ Leaving(next, p)
           \/ ~Leaving(run[c], p)
    PROVE  RulingIn(p)'
<1>1. Stands(node'[p]) /\ (Live(p) <=> Live(p)')
  BY DEF RulingIn, Live
<1>2. ASSUME NEW e \in Callers, Leaving(run[e], p)
      PROVE  \E f \in Callers : Leaving(run'[f], p)
  <2>1. CASE e = c
    <3>1. Leaving(next, p) /\ run'[c] = next
      BY <1>2, <2>1 DEF Leaving, RunsOK
    <3> QED
      BY <3>1
  <2>2. CASE e # c
    <3>1. run'[e] = run[e]
      BY <2>2 DEF RunsOK
    <3> QED
      BY <1>2, <3>1
  <2> QED
    BY <2>1, <2>2
<1> QED
  BY <1>1, <1>2 DEF RulingIn

\* Where the caller goes on, what the others hold stays true.
LEMMA StandsAfter ==
    ASSUME Inv, Turned, Guarded, \A e \in Callers : KeepsIn(run[e], node, ruled),
           NEW c \in Callers, NEW next, run' = [run EXCEPT ![c] = next],
           run[c].pc # "idle" \/ (Turns => \A e \in Callers : run[e].pc = "idle"),
           \/ run[c].op = "redact" /\ run[c].pc # "idle"
           \/ /\ \A i \in Items : Live(i) => node'[i] # <<>>
              /\ \A p \in ruled' : p \in ruled \/ node'[p] # <<>>,
           KeepsIn(next, node', ruled')
    PROVE  \A e \in Callers : KeepsIn(run'[e], node', ruled')
<1>0. RunsOK
  BY DEF Inv
<1>1. CASE \A e \in Callers \ {c} : run[e].pc = "idle"
  <2>1. \A e \in Callers \ {c} : KeepsIn(run'[e], node', ruled')
    BY <1>0, <1>1, OthersKeep
  <2> QED
    BY <1>0, <2>1 DEF RunsOK
<1>2. CASE /\ \A i \in Items : Live(i) => node'[i] # <<>>
           /\ \A p \in ruled' : p \in ruled \/ node'[p] # <<>>
  <2>1. CASE \E e \in Callers : run[e].op = "redact" /\ run[e].pc # "idle"
    <3>1. PICK d \in Callers : run[d].op = "redact" /\ run[d].pc # "idle"
      BY <2>1
    <3>2. \A e \in Callers \ {d} : run[e].pc = "idle"
      BY <3>1, RedactAlone
    <3>3. c = d
      BY <3>1, <3>2, RedactAlone
    <3> QED
      BY <1>1, <3>2, <3>3
  <2>2. CASE \A e \in Callers : run[e].op = "redact" => run[e].pc = "idle"
    <3>1. \A e \in Callers \ {c} : KeepsIn(run'[e], node', ruled')
      BY <1>0, <1>2, <2>2, OthersKeep
    <3> QED
      BY <1>0, <3>1 DEF RunsOK
  <2> QED
    BY <2>1, <2>2
<1> QED
  BY <1>1, <1>2, RedactAlone

\* A step that leaves the nodes, the rulings and the reports alone.
LEMMA RulingsKept ==
    ASSUME Inv, Turned, Guarded, StandsNow,
           NEW c \in Callers, NEW next, run' = [run EXCEPT ![c] = next],
           run[c].pc # "idle" \/ (Turns => \A e \in Callers : run[e].pc = "idle"),
           UNCHANGED <<node, ruled, gone>>, KeepsIn(next, node, ruled),
           run[c].pc \notin {"recreate", "report"}
    PROVE  StandsNow'
<1>0. RunsOK
  BY DEF Inv
<1>1. \A p \in ruled' : RulingIn(p)'
  BY <1>0, RulingKept DEF StandsNow
<1>2. KeepsIn(next, node', ruled')
  OBVIOUS
<1>3. \A e \in Callers : KeepsIn(run'[e], node', ruled')
  BY <1>2, StandsAfter DEF StandsNow, Live
<1> QED
  BY <1>1, <1>3 DEF StandsNow

\* A version is appended to one node, by a step that is no redaction's.
LEMMA RulingsGrow ==
    ASSUME Inv, Turned, Guarded, StandsNow,
           NEW c \in Callers, NEW next, run' = [run EXCEPT ![c] = next],
           run[c].pc # "idle" \/ (Turns => \A e \in Callers : run[e].pc = "idle"),
           NEW i \in Items, NEW life, NEW copy, Grown(i, life, copy), gone' = gone,
           ruled' \in {ruled, ruled \cup {i}, ruled \ {i}},
           i \in ruled' => Stands(node'[i]),
           KeepsIn(next, node', ruled'), run[c].pc \notin {"recreate", "report"}
    PROVE  StandsNow'
<1>0. RunsOK /\ ruled \in SUBSET Precedents /\ \A p \in Precedents : p \in Items
  BY Kinds DEF Inv, StoresOK
<1>1. \A p \in ruled' : RulingIn(p)'
  <2> SUFFICES ASSUME NEW p \in ruled' PROVE RulingIn(p)'
    OBVIOUS
  <2>1. CASE p = i
    BY <2>1 DEF RulingIn, Grown
  <2>2. CASE p # i
    <3>1. p \in ruled /\ node'[p] = node[p] /\ RulingIn(p)
      BY <1>0, <2>2 DEF Grown, StandsNow
    <3> QED
      BY <1>0, <3>1, RulingKept
  <2> QED
    BY <2>1, <2>2
<1>2. /\ \A j \in Items : Live(j) => node'[j] # <<>>
      /\ \A p \in ruled' : p \in ruled \/ node'[p] # <<>>
  BY DEF Grown, Live
<1>3. \A e \in Callers : KeepsIn(run'[e], node', ruled')
  BY <1>2, StandsAfter DEF StandsNow
<1> QED
  BY <1>1, <1>3 DEF StandsNow

LEMMA StepStands ==
    ASSUME Inv, Turned, Guarded, StandsNow, NEW c \in Callers, Step(c)
    PROVE  StandsNow'
<1> DEFINE me == run[c]
<1>p. PICK i \in Items : i = run[c].item
  BY Locals DEF Inv
<1>0. /\ StoresOK /\ RunsOK /\ i \in Items /\ i = me.item /\ RunOK(me) /\ KeepsIn(me, node, ruled)
      /\ ruled \in SUBSET Precedents /\ (\A p \in Precedents : p \in Items) /\ Idle.pc = "idle"
  BY <1>p, Locals, Kinds, IdleOK DEF Inv, StandsNow, StoresOK
<1>i. KeepsIn(Idle, node', ruled') /\ KeepsIn(Idle, node, ruled)
  BY <1>0, IdleKeeps
<1>1. CASE Create(c)
  <2>1. i \in ruled => ~Replaceable(i)
    <3> SUFFICES ASSUME i \in ruled PROVE ~Replaceable(i)
      OBVIOUS
    <3>1. Live(i) /\ Stands(node[i])
      BY <1>0, <1>1, CreateSays DEF KeepsIn, StandsNow, RulingIn, Live
    <3>2. Top(i).life \in {"demoted", "archived"}
      BY <1>0, <3>1, StandsTop
    <3> QED
      BY <3>1, <3>2 DEF Replaceable, State, Reads
  <2>2. CASE Replaceable(i)
    <3>1. /\ Grown(i, "unset", me.copy) /\ UNCHANGED <<gone, ruled>> /\ me.pc = "create"
          /\ Goes(c, "load")
      BY <1>0, <1>1, <2>2, CreateSays
    <3>2. PICK next \in RunState : run' = [run EXCEPT ![c] = next] /\ next.pc = "load"
      BY <3>1 DEF Goes, Moved
    <3>3. KeepsIn(next, node', ruled')
      BY <3>2 DEF KeepsIn, ScrubbingAt, Scrubbing
    <3> QED
      BY <1>0, <2>1, <2>2, <3>1, <3>2, <3>3, RulingsGrow
  <2>3. CASE ~Replaceable(i)
    <3>1. UNCHANGED <<node, gone, ruled>> /\ me.pc = "create" /\ Ends(c)
      BY <1>0, <1>1, <2>3, CreateSays
    <3> QED
      BY <1>i, <3>1, RulingsKept DEF Ends
  <2> QED
    BY <2>2, <2>3
<1>2. CASE \/ Load(c) \/ Put(c) \/ Stamp(c) \/ Sync(c) \/ Announce(c) \/ Restamp(c)
           \/ Resync(c) \/ (Embed(c) /\ me.op = "approve")
  <2>1. /\ UNCHANGED <<node, gone, ruled>> /\ me.pc \notin {"idle", "recreate", "report"}
        /\ \E next : /\ run' = [run EXCEPT ![c] = next]
                     /\ next.pc \in {"idle", "put", "announce", "embed", "mark", "sync"}
                     /\ next.pc = "embed" => next.op # "redact"
    <3>1. CASE Load(c) \/ Put(c) \/ Stamp(c)
      BY <1>0, <3>1, LoadSays, PutStepSays, StampSays DEF Goes, Moved, Ends, stores
    <3>2. CASE Sync(c) \/ Announce(c) \/ Restamp(c)
      BY <1>0, <3>2, SyncSays, AnnounceSays, RestampSays DEF Goes, Moved, Ends
    <3>3. CASE Resync(c) \/ (Embed(c) /\ me.op = "approve")
      BY <1>0, <3>3, ResyncSays, EmbedSays DEF Goes, Moved, Ends
    <3> QED
      BY <1>2, <3>1, <3>2, <3>3
  <2>2. PICK next : /\ run' = [run EXCEPT ![c] = next]
                    /\ next.pc \in {"idle", "put", "announce", "embed", "mark", "sync"}
                    /\ next.pc = "embed" => next.op # "redact"
    BY <2>1
  <2>3. KeepsIn(next, node, ruled)
    BY <2>2 DEF KeepsIn, ScrubbingAt, Scrubbing
  <2> QED
    BY <2>1, <2>2, <2>3, RulingsKept
<1>3. CASE Mark(c) \/ Unmark(c)
  <2>1. CASE Live(i)
    <3>1. /\ gone' = gone /\ me.pc \in {"mark", "unmark"}
          /\ \/ Grown(i, "demoted", Top(i).copy) /\ ruled' = ruled \cup {i} /\ Goes(c, "sync")
             \/ Grown(i, "current", Top(i).copy) /\ ruled' = ruled \ {i} /\ Goes(c, "restamp")
      BY <1>0, <1>3, <2>1, MarkSays, UnmarkSays
    <3>2. PICK next \in RunState : run' = [run EXCEPT ![c] = next] /\ next.pc \in {"sync", "restamp"}
      BY <3>1 DEF Goes, Moved
    <3>3. KeepsIn(next, node', ruled')
      BY <3>2 DEF KeepsIn, ScrubbingAt, Scrubbing
    <3>4. CASE Grown(i, "demoted", Top(i).copy) /\ ruled' = ruled \cup {i}
      <4>1. Stands(node'[i])
        BY <1>0, <3>4, GrownStands
      <4> QED
        BY <1>0, <3>1, <3>2, <3>3, <3>4, <4>1, RulingsGrow
    <3>5. CASE Grown(i, "current", Top(i).copy) /\ ruled' = ruled \ {i}
      BY <1>0, <3>1, <3>2, <3>3, <3>5, RulingsGrow
    <3> QED
      BY <3>1, <3>4, <3>5
  <2>2. CASE ~Live(i)
    <3>1. UNCHANGED <<node, gone, ruled>> /\ me.pc \in {"mark", "unmark"} /\ Ends(c)
      BY <1>0, <1>3, <2>2, MarkSays, UnmarkSays
    <3> QED
      BY <1>i, <3>1, RulingsKept DEF Ends
  <2> QED
    BY <2>1, <2>2
<1>4. CASE Archive(c)
  <2>1. PICK j \in Items, next \in RunState :
           /\ node' = node \/ (Live(j) /\ Grown(j, "archived", Top(j).copy))
           /\ run' = [run EXCEPT ![c] = next] /\ next.pc = "archive"
    BY <1>4, ArchiveSays
  <2>2. me.pc = "archive" /\ UNCHANGED <<gone, ruled>>
    BY <1>4, ArchiveSays
  <2>3. KeepsIn(next, node', ruled') /\ KeepsIn(next, node, ruled)
    BY <2>1 DEF KeepsIn, ScrubbingAt, Scrubbing
  <2>4. CASE node' = node
    BY <2>1, <2>2, <2>3, <2>4, RulingsKept
  <2>5. CASE Grown(j, "archived", Top(j).copy)
    <3>1. j \in ruled => Stands(node'[j])
      BY <1>0, <2>5, GrownStands DEF StandsNow, RulingIn
    <3> QED
      BY <1>0, <2>1, <2>2, <2>3, <2>5, <3>1, RulingsGrow
  <2> QED
    BY <2>1, <2>4, <2>5
<1>5. CASE Unvector(c) \/ Blank(c) \/ Detach(c) \/ (Embed(c) /\ me.op = "redact")
  <2>1. UNCHANGED <<node, gone, ruled>> /\ me.pc \in {"unvector", "blank", "detach", "embed"}
    BY <1>0, <1>5, UnvectorSays, BlankSays, DetachSays, EmbedSays
  <2>2. \/ Ends(c)
        \/ me.pc = "unvector" /\ Goes(c, "blank")
        \/ me.pc = "blank" /\ Goes(c, "scan")
        \/ me.pc = "detach" /\ Goes(c, "purge")
        \/ me.pc = "embed" /\ me.op = "redact" /\ Goes(c, "scrub")
    BY <1>0, <1>5, UnvectorSays, BlankSays, DetachSays, EmbedSays
  <2>3. PICK next : /\ run' = [run EXCEPT ![c] = next]
                    /\ \/ next.pc \in {"idle", "blank", "scan"}
                       \/ me.pc = "detach" /\ Moved(me, next, "purge")
                       \/ me.pc = "embed" /\ me.op = "redact" /\ Moved(me, next, "scrub")
    BY <1>0, <2>2 DEF Ends, Goes, Moved
  <2>4. KeepsIn(next, node, ruled)
    BY <1>0, <2>3 DEF KeepsIn, ScrubbingAt, Scrubbing, Moved
  <2> QED
    BY <2>1, <2>3, <2>4, RulingsKept
<1>6. CASE Scan(c)
  <2>1. me.pc = "scan" /\ UNCHANGED <<node, gone, ruled>>
    BY <1>0, <1>6, ScanSays DEF stores
  <2>2. PICK next \in RunState :
           /\ run' = [run EXCEPT ![c] = next] /\ next.pc = "scrub"
           /\ \A r \in next.todo : r.item \in Precedents /\ Live(r.item) /\ r.row = Top(r.item)
    BY <1>0, <1>6, ScanSays
  <2>3. \A r \in next.todo : r.item \in ruled => r.row.life \in {"demoted", "archived"}
    BY <1>0, <2>2, StandsTop DEF StandsNow, RulingIn
  <2>4. KeepsIn(next, node, ruled)
    BY <2>2, <2>3 DEF KeepsIn
  <2> QED
    BY <2>1, <2>2, <2>4, RulingsKept
<1>7. CASE Scrub(c)
  <2>1. me.pc = "scrub" /\ UNCHANGED <<node, gone, ruled>>
    BY <1>7, ScrubSays
  <2>2. PICK r \in me.todo, next \in RunState :
           /\ run' = [run EXCEPT ![c] = next] /\ next.todo = me.todo \ {r}
           /\ \/ next.pc = "scrub"
              \/ next.pc = "detach" /\ next.item = r.item /\ next.life = r.row.life
    BY <1>7, ScrubSays
  <2>3. \A q \in me.todo : q.item \in ruled => q.row.life \in {"demoted", "archived"}
    BY <1>0, <2>1 DEF KeepsIn, ScrubbingAt, Scrubbing
  <2>4. KeepsIn(next, node, ruled)
    BY <2>2, <2>3 DEF KeepsIn
  <2> QED
    BY <2>1, <2>2, <2>4, RulingsKept
<1>8. CASE Purge(c)
  <2>1. /\ me.pc = "purge" /\ me.op = "redact" /\ UNCHANGED <<gone, ruled>> /\ Purged(i)
        /\ Goes(c, IF Live(i) THEN "recreate" ELSE "scrub")
    BY <1>0, <1>8, PurgeSays
  <2>2. PICK next \in RunState :
           run' = [run EXCEPT ![c] = next] /\ Moved(me, next, IF Live(i) THEN "recreate" ELSE "scrub")
    BY <2>1 DEF Goes
  <2>3. KeepsIn(next, node', ruled')
    BY <1>0, <2>1, <2>2 DEF KeepsIn, ScrubbingAt, Scrubbing, Moved
  <2>4. \A e \in Callers : KeepsIn(run'[e], node', ruled')
    BY <2>1, <2>2, <2>3, StandsAfter DEF StandsNow
  <2>5. ASSUME NEW p \in ruled'
        PROVE  RulingIn(p)'
    <3>1. p \in ruled /\ RulingIn(p)
      BY <2>1, <2>5 DEF StandsNow
    <3>2. CASE p # i \/ ~Live(i)
      <4>1. node'[p] = node[p]
        BY <1>0, <2>1, <3>1, <3>2 DEF Purged, Live
      <4> QED
        BY <1>0, <2>1, <2>2, <3>1, <4>1, RulingKept
    <3>3. CASE p = i /\ Live(i)
      <4>1. Leaving(next, p) /\ run'[c] = next /\ node'[p] = <<>>
        BY <1>0, <2>1, <2>2, <3>3 DEF Leaving, Moved, Purged, RunsOK
      <4>2. Stands(node'[p])
        BY <4>1, StandsEmpty
      <4> QED
        BY <4>1, <4>2 DEF RulingIn
    <3> QED
      BY <3>2, <3>3
  <2> QED
    BY <2>4, <2>5 DEF StandsNow
<1>9. CASE Recreate(c)
  <2>1. me.pc = "recreate" /\ me.op = "redact" /\ UNCHANGED <<gone, ruled>>
    BY <1>0, <1>9, RecreateSays
  <2>2. PICK next \in RunState :
           /\ run' = [run EXCEPT ![c] = next] /\ next.pc \in {"embed", "scrub"}
           /\ next.todo = me.todo /\ Grown(i, me.life, next.copy)
    BY <1>0, <1>9, RecreateSays
  <2>3. KeepsIn(next, node', ruled')
    BY <1>0, <2>1, <2>2 DEF KeepsIn, ScrubbingAt, Scrubbing
  <2>4. \A e \in Callers : KeepsIn(run'[e], node', ruled')
    BY <2>1, <2>2, <2>3, StandsAfter DEF StandsNow
  <2>5. ASSUME NEW p \in ruled'
        PROVE  RulingIn(p)'
    <3>1. p \in ruled /\ RulingIn(p)
      BY <2>1, <2>5 DEF StandsNow
    <3>2. CASE p # i
      <4>1. node'[p] = node[p] /\ ~Leaving(me, p)
        BY <1>0, <2>1, <2>2, <3>1, <3>2 DEF Grown, Leaving
      <4> QED
        BY <1>0, <2>1, <2>2, <3>1, <4>1, RulingKept
    <3>3. CASE p = i
      <4>1. me.life \in {"demoted", "archived"} /\ Stands(node[i])
        BY <1>0, <2>1, <3>1, <3>3 DEF KeepsIn, RulingIn
      <4>2. Stands(node'[i])
        BY <1>0, <2>2, <4>1, GrownStands
      <4>3. Live(i)'
        BY <2>2 DEF Grown
      <4> QED
        BY <3>3, <4>2, <4>3 DEF RulingIn
    <3> QED
      BY <3>2, <3>3
  <2> QED
    BY <2>4, <2>5 DEF StandsNow
<1>10. CASE Drop(c)
  <2>1. me.pc = "scrub" /\ me.op = "redact" /\ me.todo = {} /\ UNCHANGED <<gone, ruled>>
    BY <1>10, DropSays
  <2>2. PICK j \in Items : /\ me.rest = {j} /\ Purged(j)
                           /\ (Live(j) /\ Goes(c, "report")) \/ (~Live(j) /\ Ends(c))
    BY <1>10, DropSays
  <2>3. PICK next \in RunState :
           /\ run' = [run EXCEPT ![c] = next]
           /\ \/ Live(j) /\ Moved(me, next, "report")
              \/ ~Live(j) /\ next = Idle
    BY <2>2, IdleFacts DEF Goes, Ends
  <2>4. KeepsIn(next, node', ruled')
    BY <1>i, <2>1, <2>3 DEF KeepsIn, Moved
  <2>5. \A e \in Callers : KeepsIn(run'[e], node', ruled')
    BY <2>1, <2>3, <2>4, StandsAfter DEF StandsNow
  <2>6. ASSUME NEW p \in ruled'
        PROVE  RulingIn(p)'
    <3>1. p \in ruled /\ RulingIn(p)
      BY <2>1, <2>6 DEF StandsNow
    <3>2. CASE p # j \/ ~Live(j)
      <4>1. node'[p] = node[p]
        BY <1>0, <2>2, <3>1, <3>2 DEF Purged, Live
      <4> QED
        BY <1>0, <2>1, <2>3, <3>1, <4>1, RulingKept
    <3>3. CASE p = j /\ Live(j)
      <4>1. Leaving(next, p) /\ run'[c] = next /\ node'[p] = <<>>
        BY <1>0, <2>2, <2>3, <3>3 DEF Leaving, Moved, Purged, RunsOK
      <4>2. Stands(node'[p])
        BY <4>1, StandsEmpty
      <4> QED
        BY <4>1, <4>2 DEF RulingIn
    <3> QED
      BY <3>2, <3>3
  <2> QED
    BY <2>5, <2>6 DEF StandsNow
<1>11. CASE Report(c)
  <2>1. /\ me.pc = "report" /\ me.op = "redact" /\ UNCHANGED <<node, ruled>>
        /\ run' = [run EXCEPT ![c] = Idle]
    BY <1>11, ReportSays DEF Ends
  <2>2. PICK j \in Items : me.rest = {j} /\ gone' = gone \cup {j}
    BY <1>11, ReportSays
  <2>3. \A e \in Callers : KeepsIn(run'[e], node', ruled')
    BY <1>i, <2>1, StandsAfter DEF StandsNow
  <2>4. ASSUME NEW p \in ruled'
        PROVE  RulingIn(p)'
    <3>1. RulingIn(p) /\ Stands(node'[p]) /\ (Live(p) <=> Live(p)')
      BY <2>1, <2>4 DEF StandsNow, RulingIn, Live
    <3>2. ASSUME NEW e \in Callers, Leaving(run[e], p)
          PROVE  p \in gone' \/ Leaving(run'[e], p)
      <4>1. CASE e = c
        BY <2>1, <2>2, <3>2, <4>1 DEF Leaving
      <4>2. CASE e # c
        BY <1>0, <2>1, <3>2, <4>2 DEF RunsOK
      <4> QED
        BY <4>1, <4>2
    <3>3. p \in gone => p \in gone'
      BY <2>2
    <3> QED
      BY <3>1, <3>2, <3>3 DEF RulingIn
  <2> QED
    BY <2>3, <2>4 DEF StandsNow
<1> QED
  BY <1>1, <1>2, <1>3, <1>4, <1>5, <1>6, <1>7, <1>8, <1>9, <1>10, <1>11, KindOfStep

LEMMA CommandStands ==
    ASSUME Inv, Turned, Guarded, StandsNow, NEW c \in Callers, Command(c)
    PROVE  StandsNow'
<1>0. /\ StoresOK /\ RunsOK /\ ruled \in SUBSET Precedents /\ (\A p \in Precedents : p \in Items)
      /\ run[c].pc = "idle"
      /\ Turns => \A e \in Callers : run[e].pc = "idle"
  BY CommandMoves, Kinds DEF Inv, StoresOK
<1>1. ASSUME NEW p \in Learned, Approve(c, p)
      PROVE  StandsNow'
  <2>1. p \notin gone /\ UNCHANGED <<node, ruled, gone>>
    BY <1>1, ApproveSays DEF stores
  <2>2. PICK next \in RunState : run' = [run EXCEPT ![c] = next] /\ next.pc = "create" /\ next.item = p
    BY <1>1, ApproveSays
  <2>3. p \in ruled => Live(p)
    <3>1. ASSUME NEW e \in Callers, Leaving(run[e], p)
          PROVE  FALSE
      BY <1>0, <3>1, LeavingRedacts, RedactAlone
    <3> QED
      BY <2>1, <3>1 DEF StandsNow, RulingIn
  <2>4. KeepsIn(next, node, ruled)
    BY <2>2, <2>3 DEF KeepsIn, ScrubbingAt, Scrubbing, Live
  <2> QED
    BY <1>0, <2>1, <2>2, <2>4, RulingsKept
<1>2. CASE \/ \E p \in Precedents : Demote(c, p) \/ Reinstate(c, p)
           \/ Prune(c)
           \/ \E i \in Items : RestoreRow(c, i)
           \/ \E i \in Nodes : Redact(c, i)
  <2>1. /\ UNCHANGED <<node, ruled, gone>>
        /\ \E next : /\ run' = [run EXCEPT ![c] = next]
                     /\ next.pc \in {"idle", "stamp", "restamp", "unmark", "archive", "unvector"}
    <3>1. CASE \E p \in Precedents : Demote(c, p) \/ Reinstate(c, p)
      BY <3>1, DemoteSays, ReinstateSays DEF stores
    <3>2. CASE Prune(c) \/ \E i \in Nodes : Redact(c, i)
      BY <3>2, PruneSays, RedactSays DEF stores, Begins
    <3>3. CASE \E i \in Items : RestoreRow(c, i)
      <4>1. UNCHANGED <<node, ruled, gone, run>>
        BY <3>3, RestoreRowSays
      <4> QED
        BY <1>0, <4>1 DEF RunsOK
    <3> QED
      BY <1>2, <3>1, <3>2, <3>3
  <2>2. PICK next : /\ run' = [run EXCEPT ![c] = next]
                    /\ next.pc \in {"idle", "stamp", "restamp", "unmark", "archive", "unvector"}
    BY <2>1
  <2>3. KeepsIn(next, node, ruled)
    BY <2>2 DEF KeepsIn, ScrubbingAt, Scrubbing
  <2> QED
    BY <1>0, <2>1, <2>2, <2>3, RulingsKept
<1>3. ASSUME NEW i \in Items, RestoreNode(c, i)
      PROVE  StandsNow'
  <2>1. /\ i \in Precedents => Unarchived(i) # {}
        /\ UNCHANGED <<gone, ruled>>
    BY <1>3, RestoreNodeSays
  <2>2. PICK life \in Stamps, next \in RunState :
           /\ i \in Precedents => life = PreArchival(i)
           /\ Grown(i, life, Top(i).copy)
           /\ run' = [run EXCEPT ![c] = next] /\ next.pc = "sync"
    BY <1>3, RestoreNodeSays
  <2>3. i \in ruled => Stands(node'[i])
    <3> SUFFICES ASSUME i \in ruled PROVE Stands(node'[i])
      OBVIOUS
    <3>1. Stands(node[i]) /\ life = PreArchival(i)
      BY <1>0, <2>2 DEF StandsNow, RulingIn
    <3>2. life = "demoted"
      BY <1>0, <2>1, <3>1, StandsRestored
    <3> QED
      BY <1>0, <2>2, <3>2, GrownStands
  <2>4. KeepsIn(next, node', ruled')
    BY <2>2 DEF KeepsIn, ScrubbingAt, Scrubbing
  <2> QED
    BY <1>0, <2>1, <2>2, <2>3, <2>4, RulingsGrow
<1>4. ASSUME NEW i \in Mints, Confirm(c, i)
      PROVE  StandsNow'
  <2>1. /\ i \in Items /\ i \notin ruled' /\ Grown(i, Top(i).life, Top(i).copy)
        /\ UNCHANGED <<gone, ruled, run>>
    BY <1>0, <1>4, ConfirmSays
  <2>2. run' = [run EXCEPT ![c] = run[c]] /\ KeepsIn(run[c], node', ruled')
    BY <1>0, <2>1, IdleKeeps DEF RunsOK
  <2> QED
    BY <1>0, <2>1, <2>2, RulingsGrow
<1> QED
  BY <1>1, <1>2, <1>3, <1>4 DEF Command

LEMMA InitStands == Init => StandInv
<1> SUFFICES ASSUME Init PROVE StandInv
  OBVIOUS
<1>1. ruled = {} /\ \A c \in Callers : run[c].pc = "idle"
  BY IdleOK DEF Init
<1> QED
  BY <1>1, IdleKeeps DEF StandInv, StandsNow

LEMMA StandStep == Inv /\ Turned /\ StandInv /\ [Next]_vars => StandInv'
<1> SUFFICES ASSUME Inv, Turned, StandInv, [Next]_vars, Guarded' PROVE StandsNow'
  BY DEF StandInv
<1>0. Guarded /\ StandsNow /\ RunsOK
  BY EnvStays DEF Guarded, Calm, StandInv, Inv
<1>1. ASSUME NEW c \in Callers, Step(c) \/ Command(c) PROVE StandsNow'
  BY <1>0, <1>1, StepStands, CommandStands
<1>2. ASSUME NEW c \in Callers, Die(c)
      PROVE  StandsNow'
  <2>1. /\ "death" \in env /\ run[c].pc # "idle" /\ UNCHANGED <<node, ruled, gone>>
        /\ run' = [run EXCEPT ![c] = Idle] /\ KeepsIn(Idle, node, ruled)
    BY <1>2, IdleOK, IdleKeeps DEF Die, Done, stores
  <2>2. "redact" \notin env
    BY <1>0, <2>1 DEF Guarded, Calm
  <2>3. run[c].pc \notin {"recreate", "report"}
    BY <1>0, <2>2, Locals DEF Turned, NamesIn, RunOK, Scrubbing
  <2> QED
    BY <1>0, <2>1, <2>3, RulingsKept
<1>3. ASSUME Outage \/ Return \/ UNCHANGED vars PROVE StandsNow'
  <2>1. UNCHANGED <<node, ruled, gone, run>>
    BY <1>3 DEF Outage, Return, vars, stores
  <2> QED
    BY <1>0, <2>1 DEF StandsNow, RulingIn, Live
<1> QED
  BY <1>1, <1>2, <1>3 DEF Next

LEMMA StandSaid == Inv /\ StandInv => DemotionStands
<1> SUFFICES ASSUME Inv, StandInv, Guarded, NEW p \in ruled, Live(p) PROVE State(p) # "current"
  BY DEF DemotionStands, Guarded
<1>1. StoresOK /\ p \in Items /\ Stands(node[p])
  BY Kinds DEF Inv, StoresOK, StandInv, StandsNow, RulingIn
<1>2. Top(p).life \in {"demoted", "archived"}
  BY <1>1, StandsTop
<1> QED
  BY <1>2 DEF State, Reads

\* A demotion stands until a person reinstates: no approval, archival and
\* restore, or scrub brings a demoted precedent back as current, whatever
\* overlaps where nothing is redacted, and in any order of undisturbed commands
\* where something is.
THEOREM DemotionsStand == Spec => []DemotionStands
<1>1. Inv /\ Turned /\ StandInv /\ [Next]_vars => (Inv /\ Turned /\ StandInv)'
  BY InvStep, TurnedStep, StandStep
<1>2. Init => Inv /\ Turned /\ StandInv
  BY InitInv, InitTurned, InitStands
<1> QED
  BY <1>1, <1>2, StandSaid, PTL DEF Spec

-----------------------------------------------------------------------------
(* No text after a purge *)

\* A copy in a row or a snapshot is in a version of the node too, so that a
\* redaction that runs again finds it.
CopyInNode(p) ==
    (doc[p].state = "row" /\ doc[p].copy) \/ (vec[p].state = "row" /\ vec[p].copy) => HoldsCopy(p)
Cleared(i) == doc[i].state # "row" /\ vec[i].state = "none"

\* What a command has made sure of: what it is about to write copies nothing
\* the node does not hold; a redaction of the source has cleared the source, and
\* still has to scrub every precedent that holds a copy.
TextIn(self) ==
    /\ self.pc = "create" /\ ~Live(Source) => ~self.copy
    /\ self.pc \in {"put", "embed"} /\ self.copy => HoldsCopy(self.item)
    /\ self.pc = "embed" => self.item \in Precedents
    /\ self.pc \in {"blank", "scan"} => vec[self.item].state = "none"
    /\ self.pc = "scan" => doc[self.item].state # "row"
    /\ self.pc \in {"detach", "purge"} /\ doc[self.item].state = "row" => ~doc[self.item].copy
    /\ self.pc = "purge" => vec[self.item].state = "none"
    /\ self.pc = "recreate" => ~HoldsCopy(self.item)
    /\ ScrubbingAt(self) => \A j \in self.rest : Cleared(j)
    /\ ScrubbingAt(self) /\ Source \in self.rest =>
          \A p \in Precedents : HoldsCopy(p) => \/ \E r \in self.todo : r.item = p
                                                \/ self.pc \in {"detach", "purge"} /\ p = self.item
    /\ ScrubbingAt(self) /\ Source \notin self.rest => self.todo = {} /\ self.pc \in {"scrub", "report"}

\* The stores, between two steps.
NoTextLost == \A p \in Precedents : CopyInNode(p)
SourceGone == ~Live(Source) => Cleared(Source) /\ \A p \in Precedents : ~HoldsCopy(p)

TextNow == NoTextLost /\ SourceGone /\ \A c \in Callers : TextIn(run[c])
TextInv == Turns => TextNow

LEMMA IdleText == ASSUME NEW self, self.pc = "idle" PROVE TextIn(self) /\ TextIn(self)'
BY DEF TextIn, ScrubbingAt, Scrubbing

LEMMA CopiesLive ==
    ASSUME StoresOK, NEW i \in Items
    PROVE  /\ HoldsCopy(i) => Live(i)
           /\ Live(i) /\ Top(i).copy => HoldsCopy(i)
<1>1. node[i] \in Seq(Versions)
  BY DEF StoresOK
<1>2. HoldsCopy(i) => Live(i)
  BY <1>1 DEF HoldsCopy, Live
<1>3. Live(i) => Len(node[i]) \in 1..Len(node[i])
  BY <1>1 DEF Live
<1> QED
  BY <1>2, <1>3 DEF HoldsCopy, Top

LEMMA GrownHolds ==
    ASSUME NEW i \in Items, NEW life, NEW copy, Grown(i, life, copy)
    PROVE  \A p \in Items : /\ HoldsCopy(p)' <=> (HoldsCopy(p) \/ (p = i /\ copy))
                            /\ Live(p)' <=> (Live(p) \/ p = i)
<1> SUFFICES ASSUME NEW p \in Items
             PROVE  /\ HoldsCopy(p)' <=> (HoldsCopy(p) \/ (p = i /\ copy))
                    /\ Live(p)' <=> (Live(p) \/ p = i)
  OBVIOUS
<1>1. CASE p = i
  BY <1>1 DEF Grown
<1>2. CASE p # i
  <2>1. node'[p] = node[p]
    BY <1>2 DEF Grown
  <2> QED
    BY <1>2, <2>1 DEF HoldsCopy, Live
<1> QED
  BY <1>1, <1>2

LEMMA PurgedHolds ==
    ASSUME NEW i \in Items, Purged(i)
    PROVE  \A p \in Items : /\ HoldsCopy(p)' <=> (HoldsCopy(p) /\ p # i)
                            /\ Live(p)' <=> (Live(p) /\ p # i)
<1> SUFFICES ASSUME NEW p \in Items
             PROVE  /\ HoldsCopy(p)' <=> (HoldsCopy(p) /\ p # i)
                    /\ Live(p)' <=> (Live(p) /\ p # i)
  OBVIOUS
<1>1. CASE p = i
  BY <1>1 DEF Purged, HoldsCopy, Live
<1>2. CASE p # i
  <2>1. node'[p] = node[p]
    BY <1>2 DEF Purged
  <2> QED
    BY <1>2, <2>1 DEF HoldsCopy, Live
<1> QED
  BY <1>1, <1>2

LEMMA SameHolds ==
    ASSUME node' = node
    PROVE  \A p \in Items : (HoldsCopy(p)' <=> HoldsCopy(p)) /\ (Live(p)' <=> Live(p))
BY DEF HoldsCopy, Live

\* The nodes a restamp leaves hold what they held.
LEMMA RestampHolds ==
    ASSUME StoresOK, NEW i \in Items, Live(i), NEW life, Grown(i, life, Top(i).copy)
    PROVE  \A p \in Items : (HoldsCopy(p)' <=> HoldsCopy(p)) /\ (Live(p)' <=> Live(p))
BY GrownHolds, CopiesLive

\* Where no node gains or loses a copy, and no row or snapshot gains one, the
\* stores stay as they were.
LEMMA StoresKept ==
    ASSUME NoTextLost, SourceGone,
           \A p \in Items : (HoldsCopy(p)' <=> HoldsCopy(p)) /\ (Live(p)' <=> Live(p)),
           \A p \in Precedents : \/ doc'[p].state = doc[p].state /\ doc'[p].copy = doc[p].copy
                                 \/ doc'[p].state = "row" /\ doc'[p].copy => HoldsCopy(p),
           \A p \in Precedents : \/ vec'[p].state = vec[p].state /\ vec'[p].copy = vec[p].copy
                                 \/ vec'[p].state = "row" /\ vec'[p].copy => HoldsCopy(p),
           Cleared(Source) => Cleared(Source)'
    PROVE  NoTextLost' /\ SourceGone'
<1>1. \A p \in Precedents : p \in Items
  BY Kinds
<1>2. NoTextLost'
  BY <1>1 DEF NoTextLost, CopyInNode
<1>3. SourceGone'
  BY <1>1, Kinds DEF SourceGone
<1> QED
  BY <1>2, <1>3

\* No step of a command brings a copy back: a copy that is written is one the
\* node holds, and a redaction clears what it has scanned before it purges.
LEMMA StepKeepsText ==
    ASSUME Inv, NEW c \in Callers, Step(c), NoTextLost, SourceGone, TextIn(run[c])
    PROVE  /\ NoTextLost' /\ SourceGone'
           /\ \E next : run' = [run EXCEPT ![c] = next] /\ TextIn(next)'
<1> DEFINE me == run[c]
           Held == \E next : run' = [run EXCEPT ![c] = next] /\ TextIn(next)'
<1>p. PICK i \in Items : i = run[c].item
  BY Locals DEF Inv
<1>0. /\ StoresOK /\ RunsOK /\ i = me.item /\ RunOK(me) /\ me.copy \in BOOLEAN /\ me.life \in Stamps
      /\ (\A p \in Precedents : p \in Items /\ p # Source) /\ Source \in Items
  BY <1>p, Locals, Kinds, LifecycleAssumption DEF Inv
<1>i. Ends(c) => Held
  BY IdleOK, IdleText DEF Ends
<1>r. \A life, copy : Row(life, copy).state = "row" /\ Row(life, copy).copy = copy
  BY DEF Row
<1>1. CASE Create(c)
  <2>1. CASE Replaceable(i)
    <3>1. /\ Grown(i, "unset", me.copy) /\ UNCHANGED <<doc, vec>> /\ me.pc = "create"
          /\ i \in Learned /\ Goes(c, "load")
      BY <1>0, <1>1, <2>1, CreateSays
    <3>2. PICK next \in RunState : run' = [run EXCEPT ![c] = next] /\ next.pc = "load"
      BY <3>1 DEF Goes, Moved
    <3>3. \A p \in Items : /\ HoldsCopy(p)' <=> (HoldsCopy(p) \/ (p = i /\ me.copy))
                           /\ Live(p)' <=> (Live(p) \/ p = i)
      BY <3>1, GrownHolds
    <3>4. NoTextLost'
      BY <1>0, <3>1, <3>3 DEF NoTextLost, CopyInNode
    <3>5. SourceGone'
      BY <1>0, <3>1, <3>3, Kinds DEF SourceGone, TextIn, Cleared
    <3>6. TextIn(next)'
      BY <3>2 DEF TextIn, ScrubbingAt, Scrubbing
    <3> QED
      BY <3>2, <3>4, <3>5, <3>6
  <2>2. CASE ~Replaceable(i)
    <3>1. UNCHANGED <<node, doc, vec>> /\ Ends(c)
      BY <1>0, <1>1, <2>2, CreateSays
    <3> QED
      BY <1>i, <3>1, SameHolds, StoresKept DEF Cleared
  <2> QED
    BY <2>1, <2>2
<1>2. CASE Load(c)
  <2>1. UNCHANGED <<node, doc, vec>>
    BY <1>0, <1>2, LoadSays
  <2>2. PICK next \in RunState :
           /\ run' = [run EXCEPT ![c] = next] /\ next.item = i
           /\ next.pc = IF Live(i) THEN "put" ELSE "announce"
           /\ Live(i) => next.copy = Top(i).copy
    BY <1>0, <1>2, LoadSays
  <2>3. \A p \in Items : (HoldsCopy(p)' <=> HoldsCopy(p)) /\ (Live(p)' <=> Live(p))
    BY <2>1, SameHolds
  <2>4. TextIn(next)'
    BY <1>0, <2>2, <2>3, CopiesLive DEF TextIn, ScrubbingAt, Scrubbing
  <2> QED
    BY <2>1, <2>2, <2>3, <2>4, StoresKept DEF Cleared
<1>3. CASE Put(c)
  <2>1. node' = node /\ me.pc = "put" /\ me.op = "approve" /\ i \in Learned /\ i \in Precedents
    BY <1>0, <1>3, PutStepSays, Kinds
  <2>2. \A p \in Items : (HoldsCopy(p)' <=> HoldsCopy(p)) /\ (Live(p)' <=> Live(p))
    BY <2>1, SameHolds
  <2>3. CASE UNCHANGED <<doc, vec>> /\ Ends(c)
    BY <1>i, <2>2, <2>3, StoresKept DEF Cleared
  <2>4. CASE /\ Goes(c, "embed") /\ MirrorSet(i, me.life) /\ RowSet(i, Row(me.life, me.copy))
    <3>1. PICK next \in RunState : run' = [run EXCEPT ![c] = next] /\ Moved(me, next, "embed")
      BY <2>4 DEF Goes
    <3>2. me.copy => HoldsCopy(i)
      BY <1>0, <2>1 DEF TextIn
    <3>3. TextIn(next)'
      BY <1>0, <2>1, <2>2, <3>1, <3>2 DEF TextIn, ScrubbingAt, Scrubbing, Moved
    <3>4. /\ \A p \in Precedents : \/ doc'[p].state = doc[p].state /\ doc'[p].copy = doc[p].copy
                                   \/ doc'[p].state = "row" /\ doc'[p].copy => HoldsCopy(p)
          /\ \A p \in Precedents : vec'[p].state = vec[p].state /\ vec'[p].copy = vec[p].copy
          /\ Cleared(Source) => Cleared(Source)'
      BY <1>0, <1>r, <2>1, <2>4, <3>2 DEF MirrorSet, RowSet, Cleared
    <3> QED
      BY <2>2, <3>1, <3>3, <3>4, StoresKept
  <2> QED
    BY <1>0, <1>3, <2>3, <2>4, PutStepSays
<1>4. CASE Embed(c)
  <2>1. /\ UNCHANGED <<node, doc>> /\ me.pc = "embed" /\ i \in Precedents
        /\ me.copy => HoldsCopy(i)
    BY <1>0, <1>4, EmbedSays DEF TextIn
  <2>2. \A p \in Items : (HoldsCopy(p)' <=> HoldsCopy(p)) /\ (Live(p)' <=> Live(p))
    BY <2>1, SameHolds
  <2>3. /\ \A p \in Precedents : \/ vec'[p].state = vec[p].state /\ vec'[p].copy = vec[p].copy
                                 \/ vec'[p].state = "row" /\ vec'[p].copy => HoldsCopy(p)
        /\ \A j \in Items : j \notin Precedents => vec'[j] = vec[j]
    <3>1. CASE vec' = vec
      BY <3>1
    <3>2. CASE VecSet(i, Row(me.life, me.copy))
      BY <1>0, <1>r, <2>1, <3>2 DEF VecSet
    <3> QED
      BY <1>0, <1>4, <3>1, <3>2, EmbedSays
  <2>4. Cleared(Source) => Cleared(Source)'
    BY <1>0, <2>1, <2>3 DEF Cleared
  <2>5. Held
    <3>1. CASE me.op = "redact" /\ Goes(c, "scrub")
      <4>1. PICK next \in RunState : run' = [run EXCEPT ![c] = next] /\ Moved(me, next, "scrub")
        BY <3>1 DEF Goes
      <4>2. me.rest = {Source}
        <5>1. ScrubbingAt(me) /\ Source \in me.rest
          BY <1>0, <2>1, <3>1 DEF TextIn, ScrubbingAt
        <5> QED
          BY <1>0, <5>1 DEF RunOK, ScrubbingAt
      <4>3. Cleared(Source)
        BY <2>1, <3>1, <4>2 DEF TextIn, ScrubbingAt
      <4>4. \A p \in Precedents : HoldsCopy(p) => \E r \in me.todo : r.item = p
        BY <2>1, <3>1, <4>2 DEF TextIn, ScrubbingAt
      <4>5. TextIn(next)'
        BY <1>0, <2>2, <2>4, <4>1, <4>2, <4>3, <4>4 DEF TextIn, ScrubbingAt, Scrubbing, Moved
      <4> QED
        BY <4>1, <4>5
    <3>2. CASE Goes(c, "announce")
      <4>1. PICK next \in RunState : run' = [run EXCEPT ![c] = next] /\ next.pc = "announce"
        BY <3>2 DEF Goes, Moved
      <4> QED
        BY <4>1 DEF TextIn, ScrubbingAt, Scrubbing
    <3> QED
      BY <1>0, <1>4, <3>1, <3>2, EmbedSays
  <2> QED
    BY <2>1, <2>2, <2>3, <2>4, <2>5, StoresKept
<1>5. CASE Stamp(c) \/ Restamp(c)
  <2>1. /\ node' = node
        /\ (\E pc \in {"mark", "sync"} : Goes(c, pc)) \/ Ends(c)
        /\ \/ UNCHANGED <<doc, vec>>
           \/ \E life \in Stamps, row \in DocRows :
                 /\ MirrorSet(i, life) /\ RowSet(i, row) /\ doc[i].state = "row"
                 /\ row.state = "row" /\ row.copy = doc[i].copy
    <3>1. CASE Stamp(c)
      BY <1>0, <3>1, StampSays DEF Stamps
    <3>2. CASE Restamp(c)
      BY <1>0, <3>2, RestampSays DEF Stamps
    <3> QED
      BY <1>5, <3>1, <3>2
  <2>2. \A p \in Items : (HoldsCopy(p)' <=> HoldsCopy(p)) /\ (Live(p)' <=> Live(p))
    BY <2>1, SameHolds
  <2>3. /\ \A p \in Items : doc'[p].state = doc[p].state /\ doc'[p].copy = doc[p].copy
        /\ \A p \in Items : vec'[p].state = vec[p].state /\ vec'[p].copy = vec[p].copy
    BY <2>1 DEF MirrorSet, RowSet
  <2>4. PICK next \in RunState : /\ run' = [run EXCEPT ![c] = next]
                                 /\ next.pc \in {"mark", "sync", "idle"}
    BY <2>1, IdleFacts, IdleOK DEF Goes, Moved, Ends
  <2>5. TextIn(next)'
    BY <2>4 DEF TextIn, ScrubbingAt, Scrubbing
  <2> QED
    BY <1>0, <2>2, <2>3, <2>4, <2>5, StoresKept DEF Cleared
<1>6. CASE Mark(c) \/ Unmark(c)
  <2>1. UNCHANGED <<doc, vec>>
    BY <1>0, <1>6, MarkSays, UnmarkSays
  <2>2. \A p \in Items : (HoldsCopy(p)' <=> HoldsCopy(p)) /\ (Live(p)' <=> Live(p))
    <3>1. \/ node' = node
          \/ Live(i) /\ \E life \in Stamps : Grown(i, life, Top(i).copy)
      BY <1>0, <1>6, MarkSays, UnmarkSays DEF Stamps
    <3> QED
      BY <1>0, <3>1, SameHolds, RestampHolds
  <2>3. Held
    <3>1. Ends(c) \/ \E pc \in {"sync", "restamp"} : Goes(c, pc)
      BY <1>0, <1>6, MarkSays, UnmarkSays
    <3>2. CASE \E pc \in {"sync", "restamp"} : Goes(c, pc)
      <4>1. PICK next \in RunState : run' = [run EXCEPT ![c] = next] /\ next.pc \in {"sync", "restamp"}
        BY <3>2 DEF Goes, Moved
      <4> QED
        BY <4>1 DEF TextIn, ScrubbingAt, Scrubbing
    <3> QED
      BY <1>i, <3>1, <3>2
  <2> QED
    BY <2>1, <2>2, <2>3, StoresKept DEF Cleared
<1>7. CASE Sync(c)
  <2>1. UNCHANGED <<node, doc>> /\ MirrorSet(i, me.life)
    BY <1>0, <1>7, SyncSays
  <2>2. \A p \in Items : (HoldsCopy(p)' <=> HoldsCopy(p)) /\ (Live(p)' <=> Live(p))
    BY <2>1, SameHolds
  <2>3. \A p \in Items : vec'[p].state = vec[p].state /\ vec'[p].copy = vec[p].copy
    BY <2>1 DEF MirrorSet
  <2>4. Held
    <3>1. CASE Goes(c, "announce")
      <4>1. PICK next \in RunState : run' = [run EXCEPT ![c] = next] /\ next.pc = "announce"
        BY <3>1 DEF Goes, Moved
      <4> QED
        BY <4>1 DEF TextIn, ScrubbingAt, Scrubbing
    <3> QED
      BY <1>0, <1>7, <1>i, <3>1, SyncSays
  <2> QED
    BY <1>0, <2>1, <2>2, <2>3, <2>4, StoresKept DEF Cleared
<1>8. CASE Announce(c) \/ Report(c)
  <2>1. UNCHANGED <<node, doc, vec>> /\ Ends(c)
    BY <1>0, <1>8, AnnounceSays, ReportSays
  <2> QED
    BY <1>i, <2>1, SameHolds, StoresKept DEF Cleared
<1>9. CASE Archive(c)
  <2>1. PICK j \in Items \ Learned, next \in RunState :
           /\ \/ /\ j \in Noisy /\ node' = node /\ MirrorSet(j, "archived")
                 /\ \E row \in DocRows : RowSet(j, row)
              \/ /\ UNCHANGED <<doc, vec>>
                 /\ node' = node \/ (Live(j) /\ Grown(j, "archived", Top(j).copy))
           /\ run' = [run EXCEPT ![c] = next] /\ next.pc = "archive"
    BY <1>9, ArchiveSays
  <2>2. j \in Noisy => j \notin Precedents /\ j # Source
    BY LifecycleAssumption, Kinds DEF Nodes
  <2>3. \A p \in Items : (HoldsCopy(p)' <=> HoldsCopy(p)) /\ (Live(p)' <=> Live(p))
    BY <1>0, <2>1, SameHolds, RestampHolds
  <2>4. /\ \A p \in Precedents : doc'[p] = doc[p] /\ vec'[p] = vec[p]
        /\ Cleared(Source) => Cleared(Source)'
    BY <1>0, <2>1, <2>2 DEF MirrorSet, RowSet, Cleared
  <2>5. TextIn(next)'
    BY <2>1 DEF TextIn, ScrubbingAt, Scrubbing
  <2> QED
    BY <2>1, <2>3, <2>4, <2>5, StoresKept
<1>10. CASE Resync(c)
  <2>1. /\ UNCHANGED <<node, doc>> /\ Ends(c)
        /\ \A p \in Items : vec'[p].state = vec[p].state /\ vec'[p].copy = vec[p].copy
    BY <1>10, ResyncSays
  <2> QED
    BY <1>0, <1>i, <2>1, SameHolds, StoresKept DEF Cleared
<1>11. CASE Unvector(c) \/ Detach(c)
  <2>1. UNCHANGED <<node, doc>> /\ (vec' = vec \/ VecSet(i, NoRow))
    BY <1>0, <1>11, UnvectorSays, DetachSays
  <2>2. \A p \in Items : (HoldsCopy(p)' <=> HoldsCopy(p)) /\ (Live(p)' <=> Live(p))
    BY <2>1, SameHolds
  <2>3. \A p \in Items : vec'[p] = vec[p] \/ vec'[p].state = "none"
    BY <2>1 DEF VecSet, NoRow
  <2>4. Held
    <3>1. CASE Unvector(c) /\ ~Ends(c)
      <4>1. VecSet(i, NoRow) /\ Goes(c, "blank")
        BY <1>0, <3>1, UnvectorSays
      <4>2. PICK next \in RunState : run' = [run EXCEPT ![c] = next] /\ next.pc = "blank" /\ next.item = i
        BY <1>0, <4>1 DEF Goes, Moved
      <4>3. TextIn(next)'
        BY <4>1, <4>2 DEF TextIn, ScrubbingAt, Scrubbing, VecSet, NoRow
      <4> QED
        BY <4>2, <4>3
    <3>2. CASE Detach(c) /\ ~Ends(c)
      <4>1. VecSet(i, NoRow) /\ Goes(c, "purge") /\ me.pc = "detach" /\ i \in Precedents
        BY <1>0, <3>2, DetachSays
      <4>2. PICK next \in RunState : run' = [run EXCEPT ![c] = next] /\ Moved(me, next, "purge")
        BY <4>1 DEF Goes
      <4>3. me.rest = {Source}
        <5>1. ScrubbingAt(me) /\ Source \in me.rest
          BY <4>1 DEF TextIn, ScrubbingAt, Scrubbing
        <5> QED
          BY <1>0, <5>1 DEF RunOK, ScrubbingAt
      <4>4. Cleared(Source)'
        BY <1>0, <2>1, <2>3, <4>1, <4>3 DEF TextIn, ScrubbingAt, Scrubbing, Cleared
      <4>5. \A p \in Precedents : HoldsCopy(p) => (\E r \in me.todo : r.item = p) \/ p = i
        BY <1>0, <4>1, <4>3 DEF TextIn, ScrubbingAt, Scrubbing
      <4>6. (doc[i].state = "row" => ~doc[i].copy) /\ vec'[i].state = "none"
        BY <1>0, <4>1 DEF TextIn, VecSet, NoRow
      <4>7. TextIn(next)'
        BY <1>0, <2>1, <2>2, <4>2, <4>3, <4>4, <4>5, <4>6 DEF TextIn, ScrubbingAt, Scrubbing, Moved
      <4> QED
        BY <4>2, <4>7
    <3> QED
      BY <1>11, <1>i, <3>1, <3>2
  <2> QED
    BY <1>0, <2>1, <2>2, <2>3, <2>4, StoresKept DEF Cleared
<1>12. CASE Blank(c)
  <2>1. me.pc = "blank" /\ node' = node
        /\ \/ UNCHANGED <<doc, vec>>
           \/ RowSet(i, Tombstone) /\ VecSet(i, NoRow)
    BY <1>0, <1>12, BlankSays
  <2>2. \A p \in Items : (HoldsCopy(p)' <=> HoldsCopy(p)) /\ (Live(p)' <=> Live(p))
    BY <2>1, SameHolds
  <2>3. /\ \A p \in Items : vec'[p] = vec[p] \/ vec'[p].state = "none"
        /\ \A p \in Items : doc'[p] = doc[p] \/ doc'[p].state = "tomb"
    BY <2>1 DEF VecSet, RowSet, NoRow, Tombstone
  <2>4. Held
    <3>1. CASE Goes(c, "scan")
      <4>1. PICK next \in RunState : run' = [run EXCEPT ![c] = next] /\ next.pc = "scan" /\ next.item = i
        BY <1>0, <3>1 DEF Goes, Moved
      <4>2. (doc[i].state = "none" /\ doc' = doc) \/ RowSet(i, Tombstone) \/ Ends(c)
        BY <1>0, <1>12, BlankSays
      <4>3. ~Ends(c) => Cleared(i)'
        BY <1>0, <2>1, <2>3, <4>2 DEF TextIn, Cleared, RowSet, Tombstone
      <4>4. Cleared(i)' => TextIn(next)'
        BY <4>1 DEF TextIn, ScrubbingAt, Scrubbing, Cleared
      <4> QED
        BY <1>i, <4>1, <4>3, <4>4
    <3> QED
      BY <1>0, <1>12, <1>i, <3>1, BlankSays
  <2> QED
    BY <1>0, <2>2, <2>3, <2>4, StoresKept DEF Cleared
<1>13. CASE Scan(c)
  <2>1. me.pc = "scan" /\ UNCHANGED <<node, doc, vec>>
    BY <1>0, <1>13, ScanSays DEF stores
  <2>2. PICK next \in RunState :
           /\ run' = [run EXCEPT ![c] = next] /\ next.pc = "scrub" /\ next.rest = {i}
           /\ i = Source => \A p \in Precedents : Live(p) => \E r \in next.todo : r.item = p
           /\ i # Source => next.todo = {}
    BY <1>0, <1>13, ScanSays
  <2>3. \A p \in Items : (HoldsCopy(p)' <=> HoldsCopy(p)) /\ (Live(p)' <=> Live(p))
    BY <2>1, SameHolds
  <2>4. Cleared(i)'
    BY <1>0, <2>1 DEF TextIn, Cleared
  <2>5. \A p \in Precedents : HoldsCopy(p) => Live(p)
    BY <1>0, CopiesLive
  <2>6. TextIn(next)'
    BY <1>0, <2>2, <2>3, <2>4, <2>5 DEF TextIn, ScrubbingAt, Scrubbing
  <2> QED
    BY <2>1, <2>2, <2>3, <2>6, StoresKept DEF Cleared
<1>14. CASE Scrub(c)
  <2>1. me.pc = "scrub" /\ node' = node /\ me.op = "redact"
    BY <1>14, ScrubSays
  <2>2. PICK r \in me.todo, next \in RunState :
           /\ r.item \in Precedents
           /\ run' = [run EXCEPT ![c] = next] /\ next.rest = me.rest /\ next.todo = me.todo \ {r}
           /\ \/ /\ ~HoldsCopy(r.item) /\ next.pc = "scrub" /\ UNCHANGED <<doc, vec>>
              \/ /\ next.pc = "detach" /\ next.item = r.item
                 /\ \/ doc[r.item].state # "row" /\ UNCHANGED <<doc, vec>>
                    \/ /\ doc[r.item].state = "row" /\ MirrorSet(r.item, doc[r.item].life)
                       /\ \E row \in DocRows : RowSet(r.item, row) /\ row.state = "row" /\ ~row.copy
    BY <1>14, ScrubSays
  <2>3. \A p \in Items : (HoldsCopy(p)' <=> HoldsCopy(p)) /\ (Live(p)' <=> Live(p))
    BY <2>1, SameHolds
  <2>4. me.rest = {Source}
    <3>1. ScrubbingAt(me) /\ Source \in me.rest
      BY <2>1, <2>2 DEF TextIn, ScrubbingAt, Scrubbing
    <3> QED
      BY <1>0, <3>1 DEF RunOK, ScrubbingAt
  <2>5. /\ \A p \in Precedents : \/ doc'[p].state = doc[p].state /\ doc'[p].copy = doc[p].copy
                                 \/ doc'[p].state = "row" /\ ~doc'[p].copy
        /\ \A p \in Precedents : vec'[p].state = vec[p].state /\ vec'[p].copy = vec[p].copy
        /\ Cleared(Source) => Cleared(Source)'
        /\ next.pc = "detach" /\ doc'[r.item].state = "row" => ~doc'[r.item].copy
    BY <1>0, <2>2 DEF MirrorSet, RowSet, Cleared
  <2>6. Cleared(Source)'
    BY <2>1, <2>4, <2>5 DEF TextIn, ScrubbingAt, Scrubbing
  <2>7. \A p \in Precedents : HoldsCopy(p) => \E q \in me.todo : q.item = p
    BY <2>1, <2>4 DEF TextIn, ScrubbingAt, Scrubbing
  <2>8. \A p \in Precedents : HoldsCopy(p) => \/ \E q \in next.todo : q.item = p
                                              \/ next.pc = "detach" /\ p = next.item
    <3> SUFFICES ASSUME NEW p \in Precedents, HoldsCopy(p),
                        ~(next.pc = "detach" /\ p = next.item)
                 PROVE  \E q \in next.todo : q.item = p
      OBVIOUS
    <3>1. PICK q \in me.todo : q.item = p
      BY <2>7
    <3>2. q # r
      BY <2>2, <3>1
    <3> QED
      BY <2>2, <3>1, <3>2
  <2>9. next.pc \in {"scrub", "detach"}
    BY <2>2
  <2>10. TextIn(next)'
    BY <1>0, <2>2, <2>3, <2>4, <2>5, <2>6, <2>8, <2>9 DEF TextIn, ScrubbingAt, Scrubbing
  <2> QED
    BY <2>2, <2>3, <2>5, <2>10, StoresKept
<1>15. CASE Purge(c)
  <2>1. /\ me.pc = "purge" /\ i \in Precedents /\ UNCHANGED <<doc, vec>> /\ Purged(i)
        /\ \E pc \in {"recreate", "scrub"} : Goes(c, pc)
    BY <1>0, <1>15, PurgeSays
  <2>2. \A p \in Items : /\ HoldsCopy(p)' <=> (HoldsCopy(p) /\ p # i)
                         /\ Live(p)' <=> (Live(p) /\ p # i)
    BY <2>1, PurgedHolds
  <2>3. NoTextLost'
    BY <1>0, <2>1, <2>2 DEF NoTextLost, CopyInNode, TextIn
  <2>4. SourceGone'
    BY <1>0, <2>1, <2>2 DEF SourceGone, Cleared
  <2>5. me.rest = {Source}
    <3>1. ScrubbingAt(me) /\ Source \in me.rest
      BY <2>1 DEF TextIn, ScrubbingAt, Scrubbing
    <3> QED
      BY <1>0, <3>1 DEF RunOK, ScrubbingAt
  <2>6. PICK next \in RunState : /\ run' = [run EXCEPT ![c] = next]
                                 /\ \E pc \in {"recreate", "scrub"} : Moved(me, next, pc)
    BY <2>1 DEF Goes
  <2>7. /\ Cleared(Source)'
        /\ \A p \in Precedents : HoldsCopy(p)' => \E r \in me.todo : r.item = p
    BY <1>0, <2>1, <2>2, <2>5 DEF TextIn, ScrubbingAt, Scrubbing, Cleared
  <2>8. TextIn(next)'
    BY <1>0, <2>1, <2>2, <2>5, <2>6, <2>7 DEF TextIn, ScrubbingAt, Scrubbing, Moved
  <2> QED
    BY <2>3, <2>4, <2>6, <2>8
<1>16. CASE Recreate(c)
  <2>1. /\ me.pc = "recreate" /\ i \in Precedents /\ UNCHANGED <<doc, vec>>
    BY <1>0, <1>16, RecreateSays
  <2>2. PICK next \in RunState :
           /\ run' = [run EXCEPT ![c] = next] /\ next.item = i /\ next.op = "redact"
           /\ next.pc \in {"embed", "scrub"}
           /\ ~next.copy /\ Grown(i, me.life, next.copy)
           /\ next.todo = me.todo /\ next.rest = me.rest
    BY <1>0, <1>16, RecreateSays
  <2>3. \A p \in Items : /\ HoldsCopy(p)' <=> HoldsCopy(p)
                         /\ Live(p)' <=> (Live(p) \/ p = i)
    BY <1>0, <2>2, GrownHolds
  <2>4. NoTextLost'
    BY <1>0, <2>1, <2>3 DEF NoTextLost, CopyInNode
  <2>5. SourceGone'
    BY <1>0, <2>1, <2>3 DEF SourceGone, Cleared
  <2>6. me.rest = {Source}
    <3>1. ScrubbingAt(me) /\ Source \in me.rest
      BY <2>1 DEF TextIn, ScrubbingAt, Scrubbing
    <3> QED
      BY <1>0, <3>1 DEF RunOK, ScrubbingAt
  <2>7. /\ Cleared(Source)'
        /\ \A p \in Precedents : HoldsCopy(p)' => \E r \in me.todo : r.item = p
    BY <1>0, <2>1, <2>3, <2>6 DEF TextIn, ScrubbingAt, Scrubbing, Cleared
  <2>8. TextIn(next)'
    BY <1>0, <2>1, <2>2, <2>3, <2>6, <2>7 DEF TextIn, ScrubbingAt, Scrubbing
  <2> QED
    BY <2>2, <2>4, <2>5, <2>8
<1>17. CASE Drop(c)
  <2>1. me.pc = "scrub" /\ me.todo = {} /\ UNCHANGED <<doc, vec>>
    BY <1>17, DropSays
  <2>2. PICK j \in Items : me.rest = {j} /\ Purged(j) /\ (Goes(c, "report") \/ Ends(c))
    BY <1>17, DropSays
  <2>3. \A p \in Items : /\ HoldsCopy(p)' <=> (HoldsCopy(p) /\ p # j)
                         /\ Live(p)' <=> (Live(p) /\ p # j)
    BY <2>2, PurgedHolds
  <2>4. Cleared(j) /\ Cleared(j)'
    BY <2>1, <2>2 DEF TextIn, ScrubbingAt, Scrubbing, Cleared
  <2>5. NoTextLost'
    BY <1>0, <2>1, <2>3, <2>4 DEF NoTextLost, CopyInNode, Cleared
  <2>6. j = Source => \A p \in Precedents : ~HoldsCopy(p)
    BY <2>1, <2>2 DEF TextIn, ScrubbingAt, Scrubbing
  <2>7. SourceGone'
    <3>1. CASE j = Source
      BY <1>0, <2>3, <2>4, <2>6, <3>1 DEF SourceGone
    <3>2. CASE j # Source
      BY <1>0, <2>1, <2>3, <3>2 DEF SourceGone, Cleared
    <3> QED
      BY <3>1, <3>2
  <2>8. Held
    <3>1. CASE Goes(c, "report")
      <4>1. PICK next \in RunState : run' = [run EXCEPT ![c] = next] /\ Moved(me, next, "report")
        BY <3>1 DEF Goes
      <4>2. TextIn(next)'
        BY <1>0, <2>1, <2>2, <2>3, <2>4, <2>6, <4>1 DEF TextIn, ScrubbingAt, Scrubbing, Moved
      <4> QED
        BY <4>1, <4>2
    <3> QED
      BY <1>i, <2>2, <3>1
  <2> QED
    BY <2>5, <2>7, <2>8
<1> QED
  BY <1>1, <1>2, <1>3, <1>4, <1>5, <1>6, <1>7, <1>8, <1>9, <1>10, <1>11, <1>12, <1>13, <1>14,
     <1>15, <1>16, <1>17 DEF Step

\* Nor does a command: it copies from a row that is served.
LEMMA CommandKeepsText ==
    ASSUME Inv, NEW c \in Callers, Command(c), NoTextLost, SourceGone, TextIn(run[c])
    PROVE  /\ NoTextLost' /\ SourceGone'
           /\ \E next : run' = [run EXCEPT ![c] = next] /\ TextIn(next)'
<1>0. /\ StoresOK /\ RunsOK /\ (\A p \in Precedents : p \in Items /\ p # Source) /\ Source \in Items
      /\ \A p \in Learned : p \in Precedents
  BY Kinds, LifecycleAssumption DEF Inv
<1>s. UNCHANGED stores => NoTextLost' /\ SourceGone'
  BY <1>0, SameHolds, StoresKept DEF stores, Cleared
<1>1. ASSUME NEW p \in Learned, Approve(c, p)
      PROVE  /\ NoTextLost' /\ SourceGone'
             /\ \E next : run' = [run EXCEPT ![c] = next] /\ TextIn(next)'
  <2>1. PICK next \in RunState : /\ run' = [run EXCEPT ![c] = next] /\ next.pc = "create"
                                 /\ next.copy => doc[Source].state = "row"
    BY <1>1, ApproveSays
  <2>2. UNCHANGED stores
    BY <1>1, ApproveSays
  <2>3. TextIn(next)'
    BY <2>1, <2>2 DEF TextIn, ScrubbingAt, Scrubbing, SourceGone, Cleared, stores, Live
  <2> QED
    BY <1>s, <2>1, <2>2, <2>3
<1>2. CASE \/ \E p \in Precedents : Demote(c, p) \/ Reinstate(c, p)
           \/ Prune(c)
  <2>1. UNCHANGED stores
    BY <1>2, DemoteSays, ReinstateSays, PruneSays
  <2>2. PICK next \in RunState : /\ run' = [run EXCEPT ![c] = next]
                                 /\ next.pc \in {"stamp", "restamp", "unmark", "archive"}
    BY <1>2, DemoteSays, ReinstateSays, PruneSays
  <2>3. TextIn(next)'
    BY <2>2 DEF TextIn, ScrubbingAt, Scrubbing
  <2> QED
    BY <1>s, <2>1, <2>2, <2>3
<1>3. ASSUME NEW i \in Nodes, Redact(c, i)
      PROVE  /\ NoTextLost' /\ SourceGone'
             /\ \E next : run' = [run EXCEPT ![c] = next] /\ TextIn(next)'
  <2>1. UNCHANGED stores
    BY <1>3, RedactSays
  <2>2. PICK next \in RunState : run' = [run EXCEPT ![c] = next] /\ next.pc = "unvector"
    BY <1>3, RedactSays DEF Begins
  <2>3. TextIn(next)'
    BY <2>2 DEF TextIn, ScrubbingAt, Scrubbing
  <2> QED
    BY <1>s, <2>1, <2>2, <2>3
<1>4. ASSUME NEW i \in Items, RestoreRow(c, i)
      PROVE  /\ NoTextLost' /\ SourceGone'
             /\ \E next : run' = [run EXCEPT ![c] = next] /\ TextIn(next)'
  <2>1. /\ doc[i].state = "row" /\ UNCHANGED <<node, run>> /\ run[c].pc = "idle"
        /\ RowSet(i, Row("current", doc[i].copy)) /\ MirrorSet(i, "current")
    BY <1>4, RestoreRowSays DEF Admitted
  <2>2. /\ \A j \in Items : doc'[j].state = doc[j].state /\ doc'[j].copy = doc[j].copy
        /\ \A j \in Items : vec'[j].state = vec[j].state /\ vec'[j].copy = vec[j].copy
    BY <2>1 DEF RowSet, MirrorSet, Row
  <2>3. NoTextLost' /\ SourceGone'
    BY <1>0, <2>1, <2>2, SameHolds, StoresKept DEF Cleared
  <2>4. run' = [run EXCEPT ![c] = run[c]] /\ TextIn(run[c])'
    BY <1>0, <2>1 DEF RunsOK, TextIn, ScrubbingAt, Scrubbing
  <2> QED
    BY <2>3, <2>4
<1>5. ASSUME NEW i \in Items, RestoreNode(c, i)
      PROVE  /\ NoTextLost' /\ SourceGone'
             /\ \E next : run' = [run EXCEPT ![c] = next] /\ TextIn(next)'
  <2>1. Live(i) /\ UNCHANGED <<doc, vec>>
    BY <1>5, RestoreNodeSays
  <2>2. PICK life \in Stamps, next \in RunState :
           /\ Grown(i, life, Top(i).copy)
           /\ run' = [run EXCEPT ![c] = next] /\ next.pc = "sync"
    BY <1>5, RestoreNodeSays
  <2>3. NoTextLost' /\ SourceGone'
    BY <1>0, <2>1, <2>2, RestampHolds, StoresKept DEF Cleared
  <2>4. TextIn(next)'
    BY <2>2 DEF TextIn, ScrubbingAt, Scrubbing
  <2> QED
    BY <2>2, <2>3, <2>4
<1>6. ASSUME NEW i \in Mints, Confirm(c, i)
      PROVE  /\ NoTextLost' /\ SourceGone'
             /\ \E next : run' = [run EXCEPT ![c] = next] /\ TextIn(next)'
  <2>1. /\ i \in Items /\ Live(i) /\ Grown(i, Top(i).life, Top(i).copy)
        /\ UNCHANGED <<doc, vec, run>> /\ run[c].pc = "idle"
    BY <1>6, ConfirmSays DEF Admitted
  <2>2. NoTextLost' /\ SourceGone'
    BY <1>0, <2>1, RestampHolds, StoresKept DEF Cleared
  <2>3. run' = [run EXCEPT ![c] = run[c]] /\ TextIn(run[c])'
    BY <1>0, <2>1 DEF RunsOK, TextIn, ScrubbingAt, Scrubbing
  <2> QED
    BY <2>2, <2>3
<1> QED
  BY <1>1, <1>2, <1>3, <1>4, <1>5, <1>6 DEF Command

LEMMA InitText == Init => TextInv
<1> SUFFICES ASSUME Init PROVE TextNow
  BY DEF TextInv
<1>1. PICK bare, full \in SUBSET Learned :
         /\ bare \cap full = {}
         /\ node = [i \in Items |->
              IF i \in Noisy \cup (Learned \ (bare \cup full)) THEN <<>>
              ELSE <<Version("unset", i \in Precedents \cup {Source}, FALSE)>>]
         /\ doc = [i \in Items |->
              IF i \in full \cup Noisy \cup {Source}
              THEN Row("unset", i \notin Noisy) ELSE NoRow]
         /\ vec = doc
  BY DEF Init
<1>2. \A c \in Callers : TextIn(run[c])
  BY IdleOK, IdleText DEF Init
<1>3. SourceGone
  BY <1>1, Kinds, LifecycleAssumption DEF SourceGone, Live, Nodes
<1>4. ASSUME NEW p \in Precedents, doc[p].state = "row" PROVE HoldsCopy(p)
  <2>1. p \in full
    BY <1>1, <1>4, Kinds, LifecycleAssumption DEF NoRow, Nodes
  <2> DEFINE v == Version("unset", p \in Precedents \cup {Source}, FALSE)
  <2>2. v.copy
    BY DEF Version
  <2> HIDE DEF v
  <2>3. node[p] = <<v>>
    BY <1>1, <2>1, Kinds DEF v
  <2>4. Len(node[p]) = 1 /\ node[p][1].copy
    BY <2>2, <2>3
  <2> QED
    BY <2>4 DEF HoldsCopy
<1> QED
  BY <1>1, <1>2, <1>3, <1>4 DEF TextNow, NoTextLost, CopyInNode

LEMMA TextStep == Inv /\ Turned /\ TextInv /\ [Next]_vars => TextInv'
<1> SUFFICES ASSUME Inv, Turned, TextInv, [Next]_vars, Turns' PROVE TextNow'
  BY DEF TextInv
<1>0. Turns /\ RunsOK /\ Alone(run) /\ NoTextLost /\ SourceGone /\ \A c \in Callers : TextIn(run[c])
  BY EnvStays DEF Turns, Inv, TextInv, TextNow, Turned
<1>1. ASSUME NEW c \in Callers, NEW next, run' = [run EXCEPT ![c] = next], TextIn(next)',
             run[c].pc # "idle" \/ \A e \in Callers : run[e].pc = "idle"
      PROVE  \A e \in Callers : TextIn(run[e])'
  <2>1. \A e \in Callers : run'[e] = next \/ run'[e].pc = "idle"
    BY <1>0, <1>1, MovesAlone
  <2> SUFFICES ASSUME NEW e \in Callers PROVE TextIn(run[e])'
    OBVIOUS
  <2>2. CASE run'[e] = next
    BY <1>1, <2>2 DEF TextIn, ScrubbingAt
  <2>3. CASE run'[e].pc = "idle"
    BY <2>3 DEF TextIn, ScrubbingAt, Scrubbing
  <2> QED
    BY <2>1, <2>2, <2>3
<1>2. ASSUME NEW c \in Callers, Step(c) \/ Command(c) PROVE TextNow'
  <2>1. /\ NoTextLost' /\ SourceGone'
        /\ \E next : run' = [run EXCEPT ![c] = next] /\ TextIn(next)'
    BY <1>0, <1>2, StepKeepsText, CommandKeepsText
  <2>2. run[c].pc # "idle" \/ \A e \in Callers : run[e].pc = "idle"
    BY <1>0, <1>2, StepMoves, CommandMoves
  <2> QED
    BY <1>1, <2>1, <2>2 DEF TextNow
<1>3. ASSUME NEW c \in Callers, Die(c) PROVE TextNow'
  <2>1. /\ UNCHANGED <<node, doc, vec>> /\ run' = [run EXCEPT ![c] = Idle] /\ run[c].pc # "idle"
    BY <1>3 DEF Die, Done, stores
  <2>2. TextIn(Idle)'
    BY IdleOK, IdleText
  <2>3. NoTextLost' /\ SourceGone'
    BY <1>0, <2>1, SameHolds, StoresKept DEF Cleared
  <2> QED
    BY <1>1, <2>1, <2>2, <2>3 DEF TextNow
<1>4. ASSUME Outage \/ Return \/ UNCHANGED vars PROVE TextNow'
  <2>1. UNCHANGED <<node, doc, vec, run>>
    BY <1>4 DEF Outage, Return, vars, stores
  <2> QED
    BY <1>0, <2>1 DEF TextNow, NoTextLost, CopyInNode, HoldsCopy, SourceGone, Live, Cleared, TextIn, ScrubbingAt
<1> QED
  BY <1>2, <1>3, <1>4 DEF Next

LEMMA TextSaid == Inv /\ TextInv => NoTextAfterPurge
<1> SUFFICES ASSUME Inv, TextNow, ~Live(Source)
             PROVE  /\ doc[Source].state # "row" /\ vec[Source].state = "none"
                    /\ \A p \in Precedents :
                         /\ \A v \in 1..Len(node[p]) : ~node[p][v].copy
                         /\ doc[p].state = "row" => ~doc[p].copy
                         /\ vec[p].state = "row" => ~vec[p].copy
  BY DEF NoTextAfterPurge, TextInv
<1>1. Cleared(Source) /\ \A p \in Precedents : ~HoldsCopy(p) /\ CopyInNode(p)
  BY DEF TextNow, SourceGone, NoTextLost
<1> QED
  BY <1>1 DEF Cleared, CopyInNode, HoldsCopy

\* Where commands take turns, and whoever dies or fails on the way: once the
\* source's node is purged nothing holds a copy of its text, in any version of
\* any precedent, in any row or in any vector.
THEOREM NoTextStays == Spec => []NoTextAfterPurge
<1>1. Inv /\ Turned /\ TextInv /\ [Next]_vars => (Inv /\ Turned /\ TextInv)'
  BY InvStep, TurnedStep, TextStep
<1>2. Init => Inv /\ Turned /\ TextInv
  BY InitInv, InitTurned, InitText
<1> QED
  BY <1>1, <1>2, TextSaid, PTL DEF Spec

-----------------------------------------------------------------------------
(* The planes agree between commands *)

\* What an item's planes say of each other, and a row of one stamp.
VecAgrees(i) == doc[i].state = "row" /\ vec[i].state = "row" => Reads(vec[i].life) = Reads(doc[i].life)
NodeAgrees(i) == doc[i].state = "row" /\ i \in Learned => Live(i) /\ State(i) = Reads(doc[i].life)
LogAgrees(p) == log[p] = "demoted" <=> p \in ruled
LifeAgrees(i, life) == doc[i].state = "row" => Reads(doc[i].life) = Reads(life)

\* The one item whose node and row, or whose last event, a command is between.
Rewriting(self, i) == self.item = i /\ self.pc \in {"mark", "restamp", "recreate"}
Deciding(self, p) ==
    /\ self.item = p
    /\ \/ self.pc \in {"load", "put", "restamp", "announce"}
       \/ self.pc = "embed" /\ self.op = "approve"
       \/ self.pc = "sync" /\ self.op # "restore"

\* What a command has made sure of, so that its next write makes the planes agree.
Outcome(self) ==
    /\ self.pc \in {"create", "load", "put"} => doc[self.item].state # "tomb"
    /\ self.pc = "create" /\ self.item \in ruled => Live(self.item)
    /\ self.op = "approve" /\ self.pc \in {"load", "put", "embed", "announce"}
          => Live(self.item) /\ self.item \notin ruled
    /\ self.pc = "put" => self.life = Top(self.item).life
    /\ self.pc = "embed" => self.life = doc[self.item].life
    /\ self.pc \in {"stamp", "mark", "unmark", "restamp"} => Live(self.item)
    /\ self.pc \in {"stamp", "mark"} => self.life = "demoted"
    /\ self.pc \in {"unmark", "restamp"} => self.life = "current"
    /\ self.pc = "mark" => LifeAgrees(self.item, "demoted")
    /\ self.pc = "restamp" => State(self.item) = "current"
    /\ self.pc \in {"unmark", "restamp"} /\ self.strict => doc[self.item].state = "row"
    /\ self.pc = "sync" => LifeAgrees(self.item, self.life)
    /\ self.op = "demote" /\ self.pc \in {"sync", "announce"} => self.item \in ruled
    /\ self.op = "reinstate" /\ self.pc \in {"restamp", "sync", "announce"} => self.item \notin ruled
    /\ self.pc = "archive" => \A j \in self.rest : doc[j].life = "archived"
    /\ self.pc = "scan" => doc[self.item].state # "row"
    /\ ScrubbingAt(self) => \A j \in self.rest : doc[j].state # "row"
    /\ ScrubbingAt(self) => \A r \in self.todo : Live(r.item) /\ State(r.item) = Reads(r.row.life)
    /\ ScrubbingAt(self) => \A r, q \in self.todo : r.item = q.item => r = q
    /\ self.pc \in {"detach", "purge", "recreate"} => \A r \in self.todo : r.item # self.item
    /\ self.pc \in {"detach", "purge", "recreate"} /\ self.item \in Learned
          => LifeAgrees(self.item, self.life)
    /\ self.pc \in {"detach", "purge"} => Live(self.item)
    /\ self.pc = "recreate" => LogAgrees(self.item)

VecsAgree == \A i \in Items : VecAgrees(i)
NodesAgree(self) == \A i \in Items : NodeAgrees(i) \/ Rewriting(self, i)
LogsAgree(self) == \A p \in Precedents : (Live(p) => LogAgrees(p)) \/ Deciding(self, p)
PlaneIn(self) == NodesAgree(self) /\ LogsAgree(self) /\ Outcome(self)

\* The stores, between two steps, when nothing overlaps and nothing fails.
PlaneNow ==
    /\ ~down /\ VecsAgree
    /\ \A i \in Items : NodeAgrees(i) \/ \E c \in Callers : Rewriting(run[c], i)
    /\ \A p \in Precedents : (Live(p) => LogAgrees(p)) \/ \E c \in Callers : Deciding(run[c], p)
    /\ \A c \in Callers : Outcome(run[c])
PlaneInv == Calm => PlaneNow

LEMMA IdleOutcome == ASSUME NEW self, self.pc = "idle" PROVE Outcome(self) /\ Outcome(self)'
BY DEF Outcome, ScrubbingAt, Scrubbing

LEMMA SameStates ==
    ASSUME node' = node
    PROVE  \A p \in Items : (Live(p)' <=> Live(p)) /\ State(p)' = State(p) /\ Top(p)' = Top(p)
BY DEF State, Top, Live

LEMMA GrownStates ==
    ASSUME NEW i \in Items, NEW life, NEW copy, Grown(i, life, copy)
    PROVE  /\ Live(i)' /\ State(i)' = Reads(life)
           /\ \A p \in Items : p # i => (Live(p)' <=> Live(p)) /\ State(p)' = State(p)
<1>1. Live(i)' /\ State(i)' = Reads(life)
  BY DEF Grown, State
<1>2. \A p \in Items : p # i => node'[p] = node[p]
  BY DEF Grown
<1>3. \A p \in Items : p # i => (Live(p)' <=> Live(p)) /\ State(p)' = State(p)
  BY <1>2 DEF Live, State, Top
<1> QED
  BY <1>1, <1>3

LEMMA PurgedStates ==
    ASSUME NEW i \in Items, Purged(i)
    PROVE  /\ ~Live(i)'
           /\ \A p \in Items : p # i => (Live(p)' <=> Live(p)) /\ State(p)' = State(p)
<1>1. \A p \in Items : p # i => node'[p] = node[p]
  BY DEF Purged
<1> QED
  BY <1>1 DEF Purged, Live, State, Top

\* A step that leaves the log, the rulings and the stamps of what is learned.
LEMMA PlanesKept ==
    ASSUME NEW self, NEW next, NodesAgree(self), LogsAgree(self), UNCHANGED <<log, ruled>>,
           \A p \in Items : Live(p)' <=> Live(p),
           \A p \in Learned : State(p)' = State(p),
           \A p \in Learned : doc'[p].state = "row" => doc[p].state = "row" /\ doc'[p].life = doc[p].life,
           self.pc \notin {"mark", "restamp", "recreate"},
           \A p \in Precedents : Deciding(self, p) => Deciding(next, p)
    PROVE  NodesAgree(next)' /\ LogsAgree(next)'
<1>1. NodesAgree(next)'
  BY Kinds DEF NodesAgree, NodeAgrees, Rewriting
<1>2. \A p \in Precedents : p \in Items /\ Deciding(next, p)' = Deciding(next, p)
  BY Kinds DEF Deciding
<1>3. LogsAgree(next)'
  BY <1>2 DEF LogsAgree, LogAgrees
<1> QED
  BY <1>1, <1>3

\* What is known when a step is taken, and what it leaves.
Before(self) == /\ Inv /\ Calm /\ ~down /\ VecsAgree /\ PlaneIn(self)
                /\ \A p \in ruled : Live(p) => State(p) # "current"
After(c) == VecsAgree' /\ \E next : run' = [run EXCEPT ![c] = next] /\ PlaneIn(next)'

LEMMA AfterMove ==
    ASSUME NEW c \in Callers, NEW next, run' = [run EXCEPT ![c] = next],
           VecsAgree', NodesAgree(next)', LogsAgree(next)', Outcome(next)'
    PROVE  After(c)
<1>1. PlaneIn(next)'
  BY DEF PlaneIn
<1> QED
  BY <1>1 DEF After

LEMMA AfterEnd ==
    ASSUME NEW c \in Callers, Ends(c), VecsAgree', NodesAgree(Idle)', LogsAgree(Idle)'
    PROVE  After(c)
<1>1. Outcome(Idle)'
  BY IdleOK, IdleOutcome
<1> QED
  BY <1>1, AfterMove DEF Ends

LEMMA PromotionAgrees ==
    ASSUME NEW c \in Callers, Before(run[c]), Create(c) \/ Load(c) \/ Put(c)
    PROVE  After(c)
<1> DEFINE me == run[c]
<1>p. PICK i \in Items : i = run[c].item
  BY Locals DEF Inv, Before
<1>0. /\ Inv /\ StoresOK /\ i = me.item /\ VecsAgree /\ NodesAgree(me) /\ LogsAgree(me) /\ Outcome(me) /\ ~down
      /\ \A p \in Precedents : p \in Items
      /\ \A p \in ruled : Live(p) => State(p) # "current"
  BY <1>p, Kinds DEF Before, PlaneIn, Inv
<1>1. CASE Create(c)
  <2>1. UNCHANGED <<doc, vec, log, ruled>> /\ me.pc = "create" /\ i \in Learned /\ me.op = "approve"
    BY <1>0, <1>1, CreateSays
  <2>2. VecsAgree'
    BY <1>0, <2>1 DEF VecsAgree, VecAgrees
  <2>3. CASE Replaceable(i)
    <3>1. Grown(i, "unset", me.copy) /\ Goes(c, "load")
      BY <1>0, <1>1, <2>3, CreateSays
    <3>2. PICK next \in RunState : run' = [run EXCEPT ![c] = next] /\ Moved(me, next, "load")
      BY <3>1 DEF Goes
    <3>3. /\ Live(i)' /\ State(i)' = "current"
          /\ \A p \in Items : p # i => (Live(p)' <=> Live(p)) /\ State(p)' = State(p)
      BY <3>1, GrownStates DEF Reads
    <3>4. i \notin ruled
      BY <1>0, <2>1, <2>3 DEF Outcome, Replaceable
    <3>5. NodesAgree(next)'
      <4>1. ASSUME NEW j \in Items PROVE NodeAgrees(j)'
        <5>1. NodeAgrees(j)
          BY <1>0, <2>1 DEF NodesAgree, Rewriting
        <5>2. CASE j = i
          BY <2>1, <2>3, <3>3, <5>1, <5>2 DEF NodeAgrees, Replaceable
        <5>3. CASE j # i
          BY <2>1, <3>3, <5>1, <5>3 DEF NodeAgrees
        <5> QED
          BY <5>2, <5>3
      <4> QED
        BY <4>1 DEF NodesAgree
    <3>6. LogsAgree(next)'
      BY <1>0, <2>1, <3>2, <3>3 DEF LogsAgree, LogAgrees, Deciding, Moved
    <3>7. Outcome(next)'
      BY <1>0, <2>1, <3>2, <3>3, <3>4 DEF Outcome, ScrubbingAt, Scrubbing, Moved
    <3> QED
      BY <2>2, <3>2, <3>5, <3>6, <3>7, AfterMove
  <2>4. CASE ~Replaceable(i)
    <3>1. node' = node /\ Ends(c)
      BY <1>0, <1>1, <2>4, CreateSays
    <3>2. NodesAgree(Idle)' /\ LogsAgree(Idle)'
      BY <1>0, <2>1, <3>1, SameStates, PlanesKept, Kinds DEF Deciding
    <3> QED
      BY <2>2, <3>1, <3>2, AfterEnd
  <2> QED
    BY <2>3, <2>4
<1>2. CASE Load(c)
  <2>1. UNCHANGED <<node, doc, vec, log, ruled>> /\ me.pc = "load" /\ me.op = "approve"
    BY <1>0, <1>2, LoadSays
  <2>2. Live(i)
    BY <1>0, <2>1 DEF Outcome
  <2>3. PICK next \in RunState :
           /\ run' = [run EXCEPT ![c] = next] /\ next.op = "approve" /\ next.item = i
           /\ next.pc = "put" /\ next.life = Top(i).life
    BY <1>0, <1>2, <2>2, LoadSays
  <2>4. VecsAgree'
    BY <1>0, <2>1 DEF VecsAgree, VecAgrees
  <2>5. NodesAgree(next)' /\ LogsAgree(next)'
    BY <1>0, <2>1, <2>3, SameStates, PlanesKept, Kinds DEF Deciding
  <2>6. Outcome(next)'
    BY <1>0, <2>1, <2>2, <2>3, SameStates DEF Outcome, ScrubbingAt, Scrubbing
  <2> QED
    BY <2>3, <2>4, <2>5, <2>6, AfterMove
<1>3. CASE Put(c)
  <2>1. UNCHANGED <<node, log, ruled>> /\ me.pc = "put" /\ me.op = "approve" /\ i \in Learned
    BY <1>0, <1>3, PutStepSays
  <2>2. Live(i) /\ doc[i].state # "tomb" /\ me.life = Top(i).life /\ i \notin ruled
    BY <1>0, <2>1 DEF Outcome
  <2>3. Goes(c, "embed") /\ MirrorSet(i, me.life) /\ RowSet(i, Row(me.life, me.copy))
    BY <1>0, <1>3, <2>2, PutStepSays
  <2>4. PICK next \in RunState : run' = [run EXCEPT ![c] = next] /\ Moved(me, next, "embed")
    BY <2>3 DEF Goes
  <2>5. doc'[i].state = "row" /\ doc'[i].life = me.life /\ \A j \in Items \ {i} : doc'[j] = doc[j]
    BY <2>3 DEF RowSet, Row
  <2>6. VecsAgree'
    BY <1>0, <2>3, <2>5 DEF VecsAgree, VecAgrees, MirrorSet
  <2>7. NodesAgree(next)'
    BY <1>0, <2>1, <2>2, <2>5, SameStates DEF NodesAgree, NodeAgrees, Rewriting, State
  <2>8. LogsAgree(next)'
    BY <1>0, <2>1, <2>4, SameStates DEF LogsAgree, LogAgrees, Deciding, Moved
  <2>9. Outcome(next)'
    BY <1>0, <2>1, <2>2, <2>4, <2>5, SameStates DEF Outcome, ScrubbingAt, Scrubbing, Moved
  <2> QED
    BY <2>4, <2>6, <2>7, <2>8, <2>9, AfterMove
<1> QED
  BY <1>1, <1>2, <1>3

LEMMA RulingAgrees ==
    ASSUME NEW c \in Callers, Before(run[c]), Stamp(c) \/ Mark(c) \/ Unmark(c) \/ Restamp(c)
    PROVE  After(c)
<1> DEFINE me == run[c]
<1>p. PICK i \in Items : i = run[c].item
  BY Locals DEF Inv, Before
<1>0. /\ Inv /\ StoresOK /\ i = me.item /\ VecsAgree /\ NodesAgree(me) /\ LogsAgree(me) /\ Outcome(me) /\ ~down
      /\ \A p \in Precedents : p \in Items
  BY <1>p, Kinds DEF Before, PlaneIn, Inv
<1>1. CASE Stamp(c)
  <2>1. /\ UNCHANGED <<node, log, ruled>> /\ me.pc = "stamp" /\ me.op = "demote" /\ Goes(c, "mark")
        /\ \/ doc[i].state # "row" /\ UNCHANGED <<doc, vec>>
           \/ /\ doc[i].state = "row" /\ MirrorSet(i, "demoted")
              /\ \E row \in DocRows : /\ RowSet(i, row) /\ row.state = "row" /\ row.life = "demoted"
    BY <1>0, <1>1, StampSays
  <2>2. PICK next \in RunState : run' = [run EXCEPT ![c] = next] /\ Moved(me, next, "mark")
    BY <2>1 DEF Goes
  <2>3. /\ doc'[i].state = "row" => doc'[i].life = "demoted"
        /\ \A j \in Items \ {i} : doc'[j] = doc[j]
    BY <1>0, <2>1 DEF RowSet
  <2>4. VecsAgree'
    BY <1>0, <2>1, <2>3 DEF VecsAgree, VecAgrees, MirrorSet
  <2>5. NodesAgree(next)'
    BY <1>0, <2>1, <2>2, <2>3, SameStates DEF NodesAgree, NodeAgrees, Rewriting, Moved
  <2>6. LogsAgree(next)'
    BY <1>0, <2>1, SameStates DEF LogsAgree, LogAgrees, Deciding
  <2>7. Outcome(next)'
    BY <1>0, <2>1, <2>2, <2>3, SameStates DEF Outcome, LifeAgrees, ScrubbingAt, Scrubbing, Moved
  <2> QED
    BY <2>2, <2>4, <2>5, <2>6, <2>7, AfterMove
<1>2. CASE Mark(c)
  <2>1. /\ UNCHANGED <<doc, vec, log>> /\ me.pc = "mark" /\ me.op = "demote"
    BY <1>0, <1>2, MarkSays
  <2>2. Live(i) /\ me.life = "demoted" /\ LifeAgrees(i, "demoted")
    BY <1>0, <2>1 DEF Outcome
  <2>3. Grown(i, "demoted", Top(i).copy) /\ ruled' = ruled \cup {i} /\ Goes(c, "sync")
    BY <1>0, <1>2, <2>2, MarkSays
  <2>4. PICK next \in RunState : run' = [run EXCEPT ![c] = next] /\ Moved(me, next, "sync")
    BY <2>3 DEF Goes
  <2>5. /\ Live(i)' /\ State(i)' = Reads("demoted")
        /\ \A p \in Items : p # i => (Live(p)' <=> Live(p)) /\ State(p)' = State(p)
    BY <2>3, GrownStates
  <2>6. VecsAgree'
    BY <1>0, <2>1 DEF VecsAgree, VecAgrees
  <2>7. NodesAgree(next)'
    BY <1>0, <2>1, <2>2, <2>5 DEF NodesAgree, NodeAgrees, Rewriting, LifeAgrees
  <2>8. LogsAgree(next)'
    BY <1>0, <2>1, <2>3, <2>4, <2>5 DEF LogsAgree, LogAgrees, Deciding, Moved
  <2>9. Outcome(next)'
    BY <1>0, <2>1, <2>2, <2>3, <2>4, <2>5 DEF Outcome, LifeAgrees, ScrubbingAt, Scrubbing, Moved
  <2> QED
    BY <2>4, <2>6, <2>7, <2>8, <2>9, AfterMove
<1>3. CASE Unmark(c)
  <2>1. /\ UNCHANGED <<doc, vec, log>> /\ me.pc = "unmark" /\ me.op = "reinstate"
    BY <1>0, <1>3, UnmarkSays
  <2>2. Live(i) /\ me.life = "current"
    BY <1>0, <2>1 DEF Outcome
  <2>3. Grown(i, "current", Top(i).copy) /\ ruled' = ruled \ {i} /\ Goes(c, "restamp")
    BY <1>0, <1>3, <2>2, UnmarkSays
  <2>4. PICK next \in RunState : run' = [run EXCEPT ![c] = next] /\ Moved(me, next, "restamp")
    BY <2>3 DEF Goes
  <2>5. /\ Live(i)' /\ State(i)' = "current"
        /\ \A p \in Items : p # i => (Live(p)' <=> Live(p)) /\ State(p)' = State(p)
    BY <2>3, GrownStates DEF Reads
  <2>6. VecsAgree'
    BY <1>0, <2>1 DEF VecsAgree, VecAgrees
  <2>7. NodesAgree(next)'
    BY <1>0, <2>1, <2>4, <2>5 DEF NodesAgree, NodeAgrees, Rewriting, Moved
  <2>8. LogsAgree(next)'
    BY <1>0, <2>1, <2>3, <2>4, <2>5 DEF LogsAgree, LogAgrees, Deciding, Moved
  <2>9. Outcome(next)'
    BY <1>0, <2>1, <2>2, <2>3, <2>4, <2>5 DEF Outcome, ScrubbingAt, Scrubbing, Moved
  <2> QED
    BY <2>4, <2>6, <2>7, <2>8, <2>9, AfterMove
<1>4. CASE Restamp(c)
  <2>0. me.pc = "restamp" => ~(me.strict /\ doc[i].state = "tomb")
    BY <1>0 DEF Outcome
  <2>1. /\ UNCHANGED <<node, log, ruled>> /\ me.pc = "restamp" /\ me.op = "reinstate" /\ Goes(c, "sync")
        /\ \/ doc[i].state # "row" /\ UNCHANGED <<doc, vec>>
           \/ /\ doc[i].state = "row" /\ MirrorSet(i, "current")
              /\ \E row \in DocRows : RowSet(i, row) /\ row.state = "row" /\ row.life = "current"
    BY <1>0, <1>4, <2>0, RestampSays DEF Before, Calm
  <2>2. Live(i) /\ State(i) = "current" /\ me.life = "current" /\ i \notin ruled
    BY <1>0, <2>1 DEF Outcome
  <2>3. PICK next \in RunState : run' = [run EXCEPT ![c] = next] /\ Moved(me, next, "sync")
    BY <2>1 DEF Goes
  <2>4. /\ doc'[i].state = "row" => doc'[i].life = "current"
        /\ \A j \in Items \ {i} : doc'[j] = doc[j]
    BY <1>0, <2>1 DEF RowSet
  <2>5. VecsAgree'
    BY <1>0, <2>1, <2>4 DEF VecsAgree, VecAgrees, MirrorSet
  <2>6. NodesAgree(next)'
    BY <1>0, <2>1, <2>2, <2>4, SameStates DEF NodesAgree, NodeAgrees, Rewriting, Reads
  <2>7. LogsAgree(next)'
    BY <1>0, <2>1, <2>3, SameStates DEF LogsAgree, LogAgrees, Deciding, Moved
  <2>8. Outcome(next)'
    BY <1>0, <2>1, <2>2, <2>3, <2>4, SameStates DEF Outcome, LifeAgrees, ScrubbingAt, Scrubbing, Moved
  <2> QED
    BY <2>3, <2>5, <2>6, <2>7, <2>8, AfterMove
<1> QED
  BY <1>1, <1>2, <1>3, <1>4

LEMMA MirrorAgrees ==
    ASSUME NEW c \in Callers, Before(run[c]), Embed(c) \/ Sync(c) \/ Announce(c)
    PROVE  After(c)
<1> DEFINE me == run[c]
<1>p. PICK i \in Items : i = run[c].item
  BY Locals DEF Inv, Before
<1>0. /\ Inv /\ StoresOK /\ i = me.item /\ VecsAgree /\ NodesAgree(me) /\ LogsAgree(me) /\ Outcome(me) /\ ~down
      /\ \A p \in Precedents : p \in Items
  BY <1>p, Kinds DEF Before, PlaneIn, Inv
<1>1. CASE Embed(c)
  <2>1. /\ UNCHANGED <<node, doc, log, ruled>> /\ me.pc = "embed"
        /\ vec' = vec \/ VecSet(i, Row(me.life, me.copy))
    BY <1>0, <1>1, EmbedSays
  <2>2. me.life = doc[i].life
    BY <1>0, <2>1 DEF Outcome
  <2>3. VecsAgree'
    BY <1>0, <2>1, <2>2 DEF VecsAgree, VecAgrees, VecSet, Row
  <2>4. PICK next \in RunState : /\ run' = [run EXCEPT ![c] = next]
                                 /\ \/ me.op = "redact" /\ Moved(me, next, "scrub")
                                    \/ me.op = "approve" /\ Moved(me, next, "announce")
    BY <1>0, <1>1, EmbedSays DEF Goes
  <2>5. NodesAgree(next)' /\ LogsAgree(next)'
    BY <1>0, <2>1, <2>4, SameStates, PlanesKept, Kinds DEF Deciding, Moved
  <2>6. ScrubbingAt(me) => \A r \in me.todo : r.item \in Items
    BY <1>0, Kinds, Locals DEF Inv, RunOK, ScrubbingAt, Scans
  <2>7. Outcome(next)'
    BY <1>0, <2>1, <2>4, <2>6, SameStates DEF Outcome, ScrubbingAt, Scrubbing, Moved
  <2> QED
    BY <2>3, <2>4, <2>5, <2>7, AfterMove
<1>2. CASE Sync(c)
  <2>1. /\ UNCHANGED <<node, doc, log, ruled>> /\ me.pc = "sync" /\ MirrorSet(i, me.life)
    BY <1>0, <1>2, SyncSays
  <2>2. LifeAgrees(i, me.life)
    BY <1>0, <2>1 DEF Outcome
  <2>3. VecsAgree'
    BY <1>0, <2>1, <2>2 DEF VecsAgree, VecAgrees, MirrorSet, LifeAgrees
  <2>4. CASE me.op = "restore" /\ Ends(c)
    <3>1. NodesAgree(Idle)' /\ LogsAgree(Idle)'
      BY <1>0, <2>1, <2>4, SameStates, PlanesKept, Kinds DEF Deciding
    <3> QED
      BY <2>3, <2>4, <3>1, AfterEnd
  <2>5. CASE me.op \in {"demote", "reinstate"} /\ Goes(c, "announce")
    <3>1. PICK next \in RunState : run' = [run EXCEPT ![c] = next] /\ Moved(me, next, "announce")
      BY <2>5 DEF Goes
    <3>2. NodesAgree(next)' /\ LogsAgree(next)'
      BY <1>0, <2>1, <3>1, SameStates, PlanesKept, Kinds DEF Deciding, Moved
    <3>3. Outcome(next)'
      BY <1>0, <2>1, <2>5, <3>1 DEF Outcome, ScrubbingAt, Scrubbing, Moved
    <3> QED
      BY <2>3, <3>1, <3>2, <3>3, AfterMove
  <2> QED
    BY <1>0, <1>2, <2>4, <2>5, SyncSays
<1>3. CASE Announce(c)
  <2>1. /\ me.pc = "announce" /\ Ends(c) /\ me.op \in {"approve", "demote", "reinstate"}
        /\ UNCHANGED <<node, doc, vec, ruled>> /\ i \in Precedents
        /\ log'[i] = "demoted" <=> me.op = "demote"
        /\ \A p \in Precedents : p # i => log'[p] = log[p]
    BY <1>0, <1>3, AnnounceSays
  <2>2. VecsAgree'
    BY <1>0, <2>1 DEF VecsAgree, VecAgrees
  <2>3. i \in ruled <=> me.op = "demote"
    BY <1>0, <2>1 DEF Outcome
  <2>4. NodesAgree(Idle)'
    BY <1>0, <2>1, SameStates DEF NodesAgree, NodeAgrees, Rewriting
  <2>5. LogsAgree(Idle)'
    BY <1>0, <2>1, <2>3, SameStates DEF LogsAgree, LogAgrees, Deciding
  <2> QED
    BY <2>1, <2>2, <2>4, <2>5, AfterEnd
<1> QED
  BY <1>1, <1>2, <1>3

LEMMA RetentionAgrees ==
    ASSUME NEW c \in Callers, Before(run[c]), Archive(c) \/ Resync(c)
    PROVE  After(c)
<1> DEFINE me == run[c]
<1>0. /\ Inv /\ StoresOK /\ VecsAgree /\ NodesAgree(me) /\ LogsAgree(me) /\ Outcome(me) /\ ~down
      /\ \A p \in Learned : p \in Items
  BY Kinds DEF Before, PlaneIn, Inv
<1>1. CASE Archive(c)
  <2>1. /\ UNCHANGED <<log, ruled>> /\ me.pc = "archive"
    BY <1>0, <1>1, ArchiveSays
  <2>2. PICK j \in Items \ Learned, next \in RunState :
           /\ \/ /\ node' = node /\ MirrorSet(j, "archived")
                 /\ \E row \in DocRows : RowSet(j, row) /\ row.life = "archived" /\ row.state = doc[j].state
              \/ /\ UNCHANGED <<doc, vec>>
                 /\ node' = node \/ (Live(j) /\ Grown(j, "archived", Top(j).copy))
           /\ run' = [run EXCEPT ![c] = next] /\ next.pc = "archive" /\ next.rest = me.rest
    BY <1>0, <1>1, ArchiveSays
  <2>3. /\ \A p \in Items : Live(p)' <=> Live(p)
        /\ \A p \in Items : p # j => State(p)' = State(p)
    BY <1>0, <2>2, SameStates, GrownStates
  <2>4. /\ \A p \in Items : doc'[p] = doc[p] \/ doc'[p].life = "archived"
        /\ \A p \in Items : p # j => doc'[p] = doc[p]
    BY <2>2 DEF RowSet
  <2>5. VecsAgree'
    BY <1>0, <2>2 DEF VecsAgree, VecAgrees, MirrorSet, RowSet
  <2>6. NodesAgree(next)' /\ LogsAgree(next)'
    BY <1>0, <2>1, <2>2, <2>3, <2>4, PlanesKept DEF Deciding
  <2>7. me.rest \subseteq Items
    BY <1>0, Locals DEF Inv, RunState
  <2>8. Outcome(next)'
    BY <1>0, <2>1, <2>2, <2>4, <2>7 DEF Outcome, ScrubbingAt, Scrubbing
  <2> QED
    BY <2>2, <2>5, <2>6, <2>8, AfterMove
<1>2. CASE Resync(c)
  <2>1. /\ me.pc = "archive" /\ Ends(c) /\ UNCHANGED <<node, doc, log, ruled>>
        /\ \A i \in Items : /\ vec'[i].state = vec[i].state
                            /\ \/ vec'[i].life = vec[i].life
                               \/ i \in me.rest /\ vec'[i].life = "archived"
    BY <1>0, <1>2, ResyncSays
  <2>2. \A j \in me.rest : doc[j].life = "archived"
    BY <1>0, <2>1 DEF Outcome
  <2>3. VecsAgree'
    BY <1>0, <2>1, <2>2 DEF VecsAgree, VecAgrees
  <2>4. NodesAgree(Idle)' /\ LogsAgree(Idle)'
    BY <1>0, <2>1, SameStates, PlanesKept DEF Deciding
  <2> QED
    BY <2>1, <2>3, <2>4, AfterEnd
<1> QED
  BY <1>1, <1>2

LEMMA BlankingAgrees ==
    ASSUME NEW c \in Callers, Before(run[c]), Unvector(c) \/ Blank(c) \/ Scan(c) \/ Report(c)
    PROVE  After(c)
<1> DEFINE me == run[c]
<1>p. PICK i \in Items : i = run[c].item
  BY Locals DEF Inv, Before
<1>0. /\ Inv /\ StoresOK /\ i = me.item /\ VecsAgree /\ NodesAgree(me) /\ LogsAgree(me) /\ Outcome(me) /\ ~down
      /\ \A p \in Learned : p \in Items
  BY <1>p, Kinds DEF Before, PlaneIn, Inv
<1>1. CASE Unvector(c)
  <2>1. /\ UNCHANGED <<node, doc, log, ruled>> /\ me.pc = "unvector"
        /\ VecSet(i, NoRow) /\ Goes(c, "blank")
    BY <1>0, <1>1, UnvectorSays
  <2>2. PICK next \in RunState : run' = [run EXCEPT ![c] = next] /\ next.pc = "blank" /\ next.op = me.op
    BY <2>1 DEF Goes, Moved
  <2>3. VecsAgree'
    BY <1>0, <2>1 DEF VecsAgree, VecAgrees, VecSet, NoRow
  <2>4. NodesAgree(next)' /\ LogsAgree(next)'
    BY <1>0, <2>1, SameStates, PlanesKept DEF Deciding
  <2>5. Outcome(next)'
    BY <2>2 DEF Outcome, ScrubbingAt, Scrubbing
  <2> QED
    BY <2>2, <2>3, <2>4, <2>5, AfterMove
<1>2. CASE Blank(c)
  <2>1. /\ UNCHANGED <<node, log, ruled>> /\ me.pc = "blank" /\ Goes(c, "scan")
        /\ \/ doc[i].state = "none" /\ UNCHANGED <<doc, vec>>
           \/ RowSet(i, Tombstone) /\ VecSet(i, NoRow)
    BY <1>0, <1>2, BlankSays
  <2>2. PICK next \in RunState : run' = [run EXCEPT ![c] = next] /\ Moved(me, next, "scan")
    BY <2>1 DEF Goes
  <2>3. doc'[i].state # "row" /\ \A p \in Items : p # i => doc'[p] = doc[p]
    BY <2>1 DEF RowSet, Tombstone
  <2>4. VecsAgree'
    BY <1>0, <2>1, <2>3 DEF VecsAgree, VecAgrees, VecSet
  <2>5. NodesAgree(next)' /\ LogsAgree(next)'
    BY <1>0, <2>1, <2>3, SameStates, PlanesKept DEF Deciding
  <2>6. Outcome(next)'
    BY <1>0, <2>1, <2>2, <2>3, Locals DEF Outcome, ScrubbingAt, Scrubbing, Moved, Inv, RunOK
  <2> QED
    BY <2>2, <2>4, <2>5, <2>6, AfterMove
<1>3. CASE Scan(c)
  <2>1. me.pc = "scan" /\ UNCHANGED <<node, doc, vec, log, ruled>>
    BY <1>0, <1>3, ScanSays DEF stores
  <2>2. PICK next \in RunState :
           /\ run' = [run EXCEPT ![c] = next] /\ next.pc = "scrub" /\ next.op = "redact" /\ next.rest = {i}
           /\ \A r \in next.todo : r.item \in Precedents /\ Live(r.item) /\ r.row = Top(r.item)
           /\ \A r, q \in next.todo : r.item = q.item => r = q
    BY <1>0, <1>3, ScanSays
  <2>3. VecsAgree'
    BY <1>0, <2>1 DEF VecsAgree, VecAgrees
  <2>4. NodesAgree(next)' /\ LogsAgree(next)'
    BY <1>0, <2>1, SameStates, PlanesKept DEF Deciding
  <2>5. \A r \in next.todo : Live(r.item)' /\ State(r.item)' = Reads(r.row.life)
    BY <2>1, <2>2 DEF State, Top, Live
  <2>6. Outcome(next)'
    BY <1>0, <2>1, <2>2, <2>5 DEF Outcome, ScrubbingAt, Scrubbing
  <2> QED
    BY <2>2, <2>3, <2>4, <2>6, AfterMove
<1>4. CASE Report(c)
  <2>1. me.pc = "report" /\ Ends(c) /\ UNCHANGED <<node, doc, vec, log, ruled>>
    BY <1>0, <1>4, ReportSays
  <2>2. VecsAgree'
    BY <1>0, <2>1 DEF VecsAgree, VecAgrees
  <2>3. NodesAgree(Idle)' /\ LogsAgree(Idle)'
    BY <1>0, <2>1, SameStates, PlanesKept DEF Deciding
  <2> QED
    BY <2>1, <2>2, <2>3, AfterEnd
<1> QED
  BY <1>1, <1>2, <1>3, <1>4

LEMMA ScrubbingAgrees ==
    ASSUME NEW c \in Callers, Before(run[c]), Scrub(c) \/ Detach(c) \/ Purge(c) \/ Recreate(c) \/ Drop(c)
    PROVE  After(c)
<1> DEFINE me == run[c]
<1>p. PICK i \in Items : i = run[c].item
  BY Locals DEF Inv, Before
<1>0. /\ Inv /\ StoresOK /\ i = me.item /\ VecsAgree /\ NodesAgree(me) /\ LogsAgree(me) /\ Outcome(me) /\ ~down
      /\ (\A p \in Precedents : p \in Items) /\ RunOK(me) /\ me \in RunState
  BY <1>p, Kinds, Locals DEF Before, PlaneIn, Inv
<1>t. ScrubbingAt(me) => \A r \in me.todo : r.item \in Items
  BY <1>0 DEF RunOK, ScrubbingAt, Scans
<1>l. \A p \in Learned : p \in Items
  BY Kinds
<1>1. CASE Scrub(c)
  <2>1. me.pc = "scrub" /\ UNCHANGED <<node, log, ruled>>
    BY <1>0, <1>1, ScrubSays
  <2>2. PICK r \in me.todo, next \in RunState :
           /\ r.item \in Precedents
           /\ run' = [run EXCEPT ![c] = next] /\ next.op = "redact" /\ next.rest = me.rest
           /\ next.todo = me.todo \ {r}
           /\ \/ next.pc = "scrub" /\ UNCHANGED <<doc, vec>>
              \/ /\ next.pc = "detach" /\ next.item = r.item /\ next.life = r.row.life
                 /\ \/ doc[r.item].state # "row" /\ UNCHANGED <<doc, vec>>
                    \/ /\ doc[r.item].state = "row" /\ MirrorSet(r.item, doc[r.item].life)
                       /\ \E row \in DocRows : RowSet(r.item, row) /\ row.state = "row"
                                               /\ row.life = doc[r.item].life
    BY <1>0, <1>1, ScrubSays
  <2>3. \A p \in Items : doc'[p].state = doc[p].state /\ doc'[p].life = doc[p].life
    BY <2>2 DEF RowSet
  <2>4. VecsAgree'
    BY <1>0, <2>2, <2>3 DEF VecsAgree, VecAgrees, MirrorSet
  <2>5. NodesAgree(next)' /\ LogsAgree(next)'
    BY <1>0, <1>l, <2>1, <2>3, SameStates, PlanesKept DEF Deciding
  <2>6. /\ \A j \in me.rest : doc[j].state # "row"
        /\ \A q \in me.todo : Live(q.item) /\ State(q.item) = Reads(q.row.life)
        /\ \A q, s \in me.todo : q.item = s.item => q = s
    BY <2>1 DEF Outcome, ScrubbingAt, Scrubbing, Before, PlaneIn
  <2>7. r.item \in Learned => LifeAgrees(r.item, r.row.life)
    BY <1>0, <2>1, <2>2, <2>6 DEF NodesAgree, NodeAgrees, Rewriting, LifeAgrees
  <2>8. r.item \in Learned => LifeAgrees(r.item, r.row.life)'
    BY <1>0, <2>2, <2>3, <2>7 DEF LifeAgrees
  <2>9. me.rest \subseteq Items
    BY <1>0 DEF RunState
  <2>10. ScrubbingAt(me)
    BY <2>1 DEF ScrubbingAt, Scrubbing
  <2>11. Outcome(next)'
    BY <1>0, <1>t, <2>1, <2>2, <2>3, <2>6, <2>8, <2>9, <2>10, SameStates DEF Outcome, ScrubbingAt, Scrubbing
  <2> QED
    BY <2>2, <2>4, <2>5, <2>11, AfterMove
<1>2. CASE Detach(c)
  <2>1. /\ UNCHANGED <<node, doc, log, ruled>> /\ me.pc = "detach"
        /\ VecSet(i, NoRow) /\ Goes(c, "purge")
    BY <1>0, <1>2, DetachSays
  <2>2. PICK next \in RunState : run' = [run EXCEPT ![c] = next] /\ Moved(me, next, "purge")
    BY <2>1 DEF Goes
  <2>3. VecsAgree'
    BY <1>0, <2>1 DEF VecsAgree, VecAgrees, VecSet, NoRow
  <2>4. NodesAgree(next)' /\ LogsAgree(next)'
    BY <1>0, <1>l, <2>1, SameStates, PlanesKept DEF Deciding
  <2>5. Outcome(next)'
    BY <1>0, <1>t, <2>1, <2>2, SameStates DEF Outcome, LifeAgrees, ScrubbingAt, Scrubbing, Moved
  <2> QED
    BY <2>2, <2>3, <2>4, <2>5, AfterMove
<1>3. CASE Purge(c)
  <2>1. me.pc = "purge" /\ UNCHANGED <<doc, vec, log, ruled>> /\ i \in Precedents /\ Purged(i)
    BY <1>0, <1>3, PurgeSays
  <2>2. Live(i)
    BY <1>0, <2>1 DEF Outcome
  <2>3. PICK next \in RunState : run' = [run EXCEPT ![c] = next] /\ Moved(me, next, "recreate")
    BY <1>0, <1>3, <2>2, PurgeSays DEF Goes
  <2>4. /\ ~Live(i)'
        /\ \A p \in Items : p # i => (Live(p)' <=> Live(p)) /\ State(p)' = State(p)
    BY <2>1, PurgedStates
  <2>5. VecsAgree'
    BY <1>0, <2>1 DEF VecsAgree, VecAgrees
  <2>6. NodesAgree(next)'
    BY <1>0, <2>1, <2>3, <2>4 DEF NodesAgree, NodeAgrees, Rewriting, Moved
  <2>7. LogsAgree(next)'
    BY <1>0, <2>1, <2>4 DEF LogsAgree, LogAgrees, Deciding
  <2>8. LogAgrees(i)'
    BY <1>0, <2>1, <2>2 DEF LogsAgree, LogAgrees, Deciding
  <2>9. Outcome(next)'
    BY <1>0, <1>t, <2>1, <2>3, <2>4, <2>8 DEF Outcome, LifeAgrees, ScrubbingAt, Scrubbing, Moved
  <2> QED
    BY <2>3, <2>5, <2>6, <2>7, <2>9, AfterMove
<1>4. CASE Recreate(c)
  <2>1. me.pc = "recreate" /\ UNCHANGED <<doc, vec, log, ruled>> /\ i \in Precedents
    BY <1>0, <1>4, RecreateSays
  <2>2. PICK next \in RunState :
           /\ run' = [run EXCEPT ![c] = next] /\ next.op = "redact" /\ next.item = i
           /\ next.pc \in {"embed", "scrub"}
           /\ next.life = doc[i].life /\ Grown(i, me.life, next.copy)
           /\ next.todo = me.todo /\ next.rest = me.rest
    BY <1>0, <1>4, RecreateSays
  <2>3. /\ Live(i)' /\ State(i)' = Reads(me.life)
        /\ \A p \in Items : p # i => (Live(p)' <=> Live(p)) /\ State(p)' = State(p)
    BY <2>2, GrownStates
  <2>4. VecsAgree'
    BY <1>0, <2>1 DEF VecsAgree, VecAgrees
  <2>5. (i \in Learned => LifeAgrees(i, me.life)) /\ LogAgrees(i)
    BY <1>0, <2>1 DEF Outcome
  <2>6. NodesAgree(next)'
    BY <1>0, <2>1, <2>3, <2>5 DEF NodesAgree, NodeAgrees, LifeAgrees, Rewriting
  <2>7. LogsAgree(next)'
    BY <1>0, <2>1, <2>3, <2>5 DEF LogsAgree, LogAgrees, Deciding
  <2>8. Outcome(next)'
    BY <1>0, <1>t, <2>1, <2>2, <2>3 DEF Outcome, ScrubbingAt, Scrubbing
  <2> QED
    BY <2>2, <2>4, <2>6, <2>7, <2>8, AfterMove
<1>5. CASE Drop(c)
  <2>1. me.pc = "scrub" /\ me.todo = {} /\ UNCHANGED <<doc, vec, log, ruled>>
    BY <1>0, <1>5, DropSays
  <2>2. PICK j \in Items : me.rest = {j} /\ Purged(j) /\ (Goes(c, "report") \/ Ends(c))
    BY <1>0, <1>5, DropSays
  <2>3. /\ ~Live(j)'
        /\ \A p \in Items : p # j => (Live(p)' <=> Live(p)) /\ State(p)' = State(p)
    BY <2>2, PurgedStates
  <2>4. doc[j].state # "row"
    BY <1>0, <2>1, <2>2 DEF Outcome, ScrubbingAt, Scrubbing
  <2>5. VecsAgree'
    BY <1>0, <2>1 DEF VecsAgree, VecAgrees
  <2>6. \A next : NodesAgree(next)'
    BY <1>0, <2>1, <2>3, <2>4 DEF NodesAgree, NodeAgrees, Rewriting
  <2>7. \A next : LogsAgree(next)'
    BY <1>0, <2>1, <2>3 DEF LogsAgree, LogAgrees, Deciding
  <2>8. CASE Goes(c, "report")
    <3>1. PICK next \in RunState : run' = [run EXCEPT ![c] = next] /\ Moved(me, next, "report")
      BY <2>8 DEF Goes
    <3>2. Outcome(next)'
      BY <1>0, <2>1, <2>2, <2>4, <3>1 DEF Outcome, ScrubbingAt, Scrubbing, Moved
    <3>3. NodesAgree(next)' /\ LogsAgree(next)'
      BY <2>6, <2>7
    <3> QED
      BY <2>5, <3>1, <3>2, <3>3, AfterMove
  <2>9. CASE Ends(c)
    <3>1. NodesAgree(Idle)' /\ LogsAgree(Idle)'
      BY <2>6, <2>7
    <3> QED
      BY <2>5, <2>9, <3>1, AfterEnd
  <2> QED
    BY <2>2, <2>8, <2>9
<1> QED
  BY <1>1, <1>2, <1>3, <1>4, <1>5

LEMMA StepAgrees ==
    ASSUME NEW c \in Callers, Before(run[c]), Step(c)
    PROVE  After(c)
BY PromotionAgrees, MirrorAgrees, RulingAgrees, RetentionAgrees, BlankingAgrees, ScrubbingAgrees DEF Step

\* A command starts from planes that agree.
LEMMA CommandAgrees ==
    ASSUME NEW c \in Callers, Before(run[c]), Calm, StandInv, Command(c)
    PROVE  After(c)
<1> DEFINE me == run[c]
<1>0. /\ Inv /\ StoresOK /\ RunsOK /\ VecsAgree /\ NodesAgree(me) /\ LogsAgree(me) /\ ~down
      /\ (\A p \in Precedents : p \in Items) /\ \A p \in Learned : p \in Items /\ p \in Precedents
  BY Kinds DEF Before, PlaneIn, Inv
<1>c. /\ me.pc = "idle" /\ \A d \in Callers : run[d].pc = "idle"
  BY <1>0, CommandMoves DEF Calm, Turns
<1>s. ASSUME NEW next, UNCHANGED stores
      PROVE  VecsAgree' /\ NodesAgree(next)' /\ LogsAgree(next)'
  <2>1. UNCHANGED <<node, doc, vec, log, ruled>>
    BY <1>s DEF stores
  <2>2. VecsAgree'
    BY <1>0, <2>1 DEF VecsAgree, VecAgrees
  <2> QED
    BY <1>0, <1>c, <2>1, <2>2, SameStates, PlanesKept DEF Deciding
<1>1. ASSUME NEW p \in Learned, Approve(c, p) PROVE After(c)
  <2>1. p \notin gone /\ doc[p].state # "tomb" /\ UNCHANGED stores
    BY <1>0, <1>1, ApproveSays
  <2>2. PICK next \in RunState : /\ run' = [run EXCEPT ![c] = next]
                                 /\ next.pc = "create" /\ next.item = p
    BY <1>0, <1>1, ApproveSays
  <2>3. p \in ruled => Live(p)
    BY <1>c, <2>1 DEF StandInv, Guarded, StandsNow, RulingIn, Leaving
  <2>4. Outcome(next)'
    BY <2>1, <2>2, <2>3 DEF Outcome, ScrubbingAt, Scrubbing, stores, Live
  <2> QED
    BY <1>s, <2>1, <2>2, <2>4, AfterMove
<1>2. ASSUME NEW p \in Precedents, Demote(c, p) PROVE After(c)
  <2>1. Live(p) /\ UNCHANGED stores
    BY <1>0, <1>2, DemoteSays
  <2>2. PICK next \in RunState : /\ run' = [run EXCEPT ![c] = next] /\ next.op = "demote"
                                 /\ next.pc = "stamp" /\ next.item = p /\ next.life = "demoted"
    BY <1>0, <1>2, DemoteSays
  <2>3. Outcome(next)'
    BY <2>1, <2>2 DEF Outcome, ScrubbingAt, Scrubbing, stores, Live
  <2> QED
    BY <1>s, <2>1, <2>2, <2>3, AfterMove
<1>3. ASSUME NEW p \in Precedents, Reinstate(c, p) PROVE After(c)
  <2>1. Live(p) /\ UNCHANGED stores /\ UNCHANGED <<node, ruled>>
    BY <1>0, <1>3, ReinstateSays DEF stores
  <2>2. PICK next \in RunState :
           /\ run' = [run EXCEPT ![c] = next] /\ next.op = "reinstate"
           /\ next.pc = IF RowOnly(p) THEN "restamp" ELSE "unmark"
           /\ next.item = p /\ next.life = "current" /\ next.strict = RowOnly(p)
    BY <1>0, <1>3, ReinstateSays
  <2>3. RowOnly(p) => State(p) = "current" /\ p \notin ruled /\ doc[p].state = "row"
    BY <2>1 DEF RowOnly, Before
  <2>4. /\ Live(p)'
        /\ RowOnly(p) => State(p)' = "current" /\ p \notin ruled' /\ doc'[p].state = "row"
    BY <1>0, <2>1, <2>3, SameStates DEF stores
  <2>5. Outcome(next)'
    BY <2>2, <2>4 DEF Outcome, ScrubbingAt, Scrubbing
  <2> QED
    BY <1>s, <2>1, <2>2, <2>5, AfterMove
<1>4. ASSUME Prune(c) PROVE After(c)
  <2>1. UNCHANGED stores
    BY <1>0, <1>4, PruneSays
  <2>2. PICK next \in RunState :
           /\ run' = [run EXCEPT ![c] = next] /\ next.op = "prune" /\ next.pc = "archive"
           /\ \A i \in next.rest : doc[i].life = "archived"
    BY <1>0, <1>4, PruneSays
  <2>3. Outcome(next)'
    BY <2>1, <2>2 DEF Outcome, ScrubbingAt, Scrubbing, stores
  <2> QED
    BY <1>s, <2>1, <2>2, <2>3, AfterMove
<1>5. ASSUME NEW i \in Items, RestoreRow(c, i) PROVE After(c)
  <2>1. /\ i \notin Learned /\ UNCHANGED <<node, log, ruled, run>>
        /\ RowSet(i, Row("current", doc[i].copy)) /\ MirrorSet(i, "current")
    BY <1>0, <1>5, RestoreRowSays
  <2>2. VecsAgree'
    BY <1>0, <2>1 DEF VecsAgree, VecAgrees, MirrorSet, RowSet, Row
  <2>3. NodesAgree(me)' /\ LogsAgree(me)'
    BY <1>0, <1>c, <2>1, SameStates, PlanesKept DEF Deciding, RowSet
  <2>4. run' = [run EXCEPT ![c] = me] /\ Outcome(me)'
    BY <1>0, <1>c, <2>1, IdleOutcome DEF RunsOK
  <2>5. NodesAgree(run[c])' /\ LogsAgree(run[c])' /\ Outcome(run[c])'
    BY <2>1, <2>3, <2>4
  <2> QED
    BY <2>1, <2>2, <2>4, <2>5 DEF After, PlaneIn
<1>6. ASSUME NEW i \in Items, RestoreNode(c, i) PROVE After(c)
  <2>1. doc[i].state = "none" /\ Live(i) /\ i \notin Learned /\ UNCHANGED <<doc, vec, log, ruled>>
    BY <1>0, <1>6, RestoreNodeSays
  <2>2. PICK life \in Stamps, next \in RunState :
           /\ Grown(i, life, Top(i).copy)
           /\ run' = [run EXCEPT ![c] = next] /\ next.pc = "sync" /\ next.op = "restore" /\ next.item = i
    BY <1>0, <1>6, RestoreNodeSays
  <2>3. /\ Live(i)'
        /\ \A p \in Items : p # i => (Live(p)' <=> Live(p)) /\ State(p)' = State(p)
    BY <2>2, GrownStates
  <2>4. VecsAgree'
    BY <1>0, <2>1 DEF VecsAgree, VecAgrees
  <2>5. NodesAgree(next)' /\ LogsAgree(next)'
    BY <1>0, <1>c, <2>1, <2>3, PlanesKept DEF Deciding
  <2>6. Outcome(next)'
    BY <2>1, <2>2 DEF Outcome, LifeAgrees, ScrubbingAt, Scrubbing
  <2> QED
    BY <2>2, <2>4, <2>5, <2>6, AfterMove
<1>7. ASSUME NEW i \in Mints, Confirm(c, i) PROVE After(c)
  <2>1. /\ i \in Items /\ i \notin Learned /\ Live(i) /\ Grown(i, Top(i).life, Top(i).copy)
        /\ UNCHANGED <<doc, vec, log, ruled, run>>
    BY <1>0, <1>7, ConfirmSays
  <2>2. /\ Live(i)'
        /\ \A p \in Items : p # i => (Live(p)' <=> Live(p)) /\ State(p)' = State(p)
    BY <2>1, GrownStates
  <2>3. VecsAgree'
    BY <1>0, <2>1 DEF VecsAgree, VecAgrees
  <2>4. NodesAgree(me)' /\ LogsAgree(me)'
    BY <1>0, <1>c, <2>1, <2>2, PlanesKept DEF Deciding
  <2>5. run' = [run EXCEPT ![c] = me] /\ Outcome(me)'
    BY <1>0, <1>c, <2>1, IdleOutcome DEF RunsOK
  <2> QED
    BY <2>3, <2>4, <2>5, AfterMove
<1>8. ASSUME NEW i \in Nodes, Redact(c, i) PROVE After(c)
  <2>1. UNCHANGED stores
    BY <1>0, <1>8, RedactSays
  <2>2. PICK next \in RunState : /\ run' = [run EXCEPT ![c] = next] /\ next.op = "redact"
                                 /\ next.pc = "unvector" /\ next.item = i
    BY <1>0, <1>8, RedactSays DEF Begins
  <2>3. Outcome(next)'
    BY <2>2 DEF Outcome, ScrubbingAt, Scrubbing
  <2> QED
    BY <1>s, <2>1, <2>2, <2>3, AfterMove
<1> QED
  BY <1>1, <1>2, <1>3, <1>4, <1>5, <1>6, <1>7, <1>8 DEF Command

LEMMA InitPlane == Init => PlaneInv
<1> SUFFICES ASSUME Init PROVE PlaneNow
  BY DEF PlaneInv
<1>1. PICK bare, full \in SUBSET Learned :
         /\ bare \cap full = {}
         /\ node = [i \in Items |->
              IF i \in Noisy \cup (Learned \ (bare \cup full)) THEN <<>>
              ELSE <<Version("unset", i \in Precedents \cup {Source}, FALSE)>>]
         /\ doc = [i \in Items |->
              IF i \in full \cup Noisy \cup {Source}
              THEN Row("unset", i \notin Noisy) ELSE NoRow]
         /\ vec = doc
         /\ log = [i \in Precedents |-> IF i \in bare \cup full THEN "promoted" ELSE "none"]
  BY DEF Init
<1>2. ~down /\ ruled = {} /\ \A c \in Callers : Outcome(run[c])
  BY IdleOK, IdleOutcome DEF Init
<1>3. VecsAgree
  BY <1>1 DEF VecsAgree, VecAgrees
<1>4. ASSUME NEW p \in Items, doc[p].state = "row", p \in Learned
      PROVE  Live(p) /\ State(p) = Reads(doc[p].life)
  <2>1. p \in full /\ doc[p].life = "unset"
    BY <1>1, <1>4, Kinds DEF NoRow, Row
  <2> DEFINE v == Version("unset", p \in Precedents \cup {Source}, FALSE)
  <2>2. v.life = "unset"
    BY DEF Version
  <2> HIDE DEF v
  <2>3. node[p] = <<v>>
    BY <1>1, <2>1, Kinds DEF v
  <2>4. Len(node[p]) = 1 /\ node[p][1].life = "unset" /\ node[p] # <<>>
    BY <2>2, <2>3
  <2> QED
    BY <2>1, <2>4 DEF Live, State, Top
<1>5. \A p \in Precedents : LogAgrees(p)
  BY <1>1, <1>2 DEF LogAgrees
<1> QED
  BY <1>2, <1>3, <1>4, <1>5 DEF PlaneNow, NodeAgrees

LEMMA DownStays ==
    ASSUME NEW c \in Callers, Step(c) \/ Command(c)
    PROVE  down' = down
<1>1. Step(c) => down' = down
  BY DEF Step, Create, Load, Put, Embed, Stamp, Mark, Sync, Announce, Unmark, Restamp, Archive,
     Resync, Unvector, Blank, Scan, Scrub, Detach, Purge, Recreate, Drop, Report, stores
<1>2. Command(c) => down' = down
  BY DEF Command, Approve, Demote, Reinstate, Prune, RestoreRow, RestoreNode, Confirm, Redact, Enter
<1> QED
  BY <1>1, <1>2

LEMMA PlaneStep == Inv /\ Turned /\ StandInv /\ PlaneInv /\ [Next]_vars => PlaneInv'
<1> SUFFICES ASSUME Inv, Turned, StandInv, PlaneInv, [Next]_vars, Calm' PROVE PlaneNow'
  BY DEF PlaneInv
<1>0. Calm /\ Turns /\ RunsOK /\ Alone(run) /\ PlaneNow
  BY EnvStays DEF Calm, Turns, Inv, PlaneInv, Turned
<1>1. ASSUME NEW c \in Callers, Step(c) \/ Command(c) PROVE PlaneNow'
  <2>1. run[c].pc # "idle" \/ \A e \in Callers : run[e].pc = "idle"
    BY <1>0, <1>1, StepMoves, CommandMoves
  <2>2. \A e \in Callers : e = c \/ run[e].pc = "idle"
    BY <1>0, <2>1 DEF Alone
  <2>3. /\ \A e \in Callers, i \in Items : Rewriting(run[e], i) => e = c
        /\ \A e \in Callers, p \in Precedents : Deciding(run[e], p) => e = c
    BY <2>2 DEF Rewriting, Deciding
  <2>4. PlaneIn(run[c])
    BY <1>0, <2>3 DEF PlaneNow, PlaneIn, NodesAgree, LogsAgree
  <2>5. \A p \in ruled : Live(p) => State(p) # "current"
    BY <1>0, StandSaid DEF DemotionStands
  <2>6. Before(run[c])
    BY <1>0, <2>4, <2>5 DEF Before, PlaneNow
  <2>7. After(c)
    BY <1>0, <1>1, <2>6, StepAgrees, CommandAgrees
  <2>8. PICK next : run' = [run EXCEPT ![c] = next] /\ PlaneIn(next)'
    BY <2>7 DEF After
  <2>9. run'[c] = next /\ \A e \in Callers : run'[e] = next \/ run'[e].pc = "idle"
    BY <1>0, <2>1, <2>8, MovesAlone DEF RunsOK
  <2>10. ~down' /\ VecsAgree'
    BY <1>0, <1>1, <2>7, DownStays DEF PlaneNow, After
  <2>11. \A i \in Items : NodeAgrees(i)' \/ Rewriting(run[c], i)'
    <3>1. \A i \in Items : Rewriting(next, i) => Rewriting(run[c], i)'
      BY <2>9 DEF Rewriting
    <3>2. \A i \in Items : NodeAgrees(i)' \/ Rewriting(next, i)
      BY <2>8 DEF PlaneIn, NodesAgree, Rewriting
    <3> QED
      BY <3>1, <3>2
  <2>12. \A p \in Precedents : (Live(p) => LogAgrees(p))' \/ Deciding(run[c], p)'
    <3>1. \A p \in Precedents : Deciding(next, p) => Deciding(run[c], p)'
      BY <2>9 DEF Deciding
    <3>2. \A p \in Precedents : (Live(p) => LogAgrees(p))' \/ Deciding(next, p)
      BY <2>8 DEF PlaneIn, LogsAgree, Deciding
    <3> QED
      BY <3>1, <3>2
  <2>13. ASSUME NEW e \in Callers PROVE Outcome(run[e])'
    <3>1. CASE run'[e] = next
      BY <2>8, <3>1 DEF PlaneIn, Outcome, ScrubbingAt
    <3>2. CASE run'[e].pc = "idle"
      BY <3>2 DEF Outcome, ScrubbingAt, Scrubbing
    <3> QED
      BY <2>9, <3>1, <3>2
  <2> QED
    BY <2>10, <2>11, <2>12, <2>13 DEF PlaneNow
<1>2. ASSUME NEW c \in Callers, Die(c) PROVE PlaneNow'
  BY <1>0, <1>2 DEF Die, Calm
<1>3. ASSUME Outage \/ Return \/ UNCHANGED vars PROVE PlaneNow'
  <2>1. UNCHANGED <<node, doc, vec, log, ruled, run>> /\ ~down'
    BY <1>0, <1>3 DEF Outage, Return, vars, stores, Calm, PlaneNow
  <2> QED
    BY <1>0, <2>1 DEF PlaneNow, VecsAgree, VecAgrees, NodeAgrees, Live, State, Top, Rewriting, Deciding,
       LogAgrees, Outcome, LifeAgrees, ScrubbingAt
<1> QED
  BY <1>1, <1>2, <1>3 DEF Next

LEMMA PlaneSaid == PlaneInv => PlanesAgree
<1> SUFFICES ASSUME PlaneNow, Quiet
             PROVE  /\ \A i \in Items : doc[i].state = "row" =>
                         /\ i \in Learned => Live(i) /\ State(i) = Reads(doc[i].life)
                         /\ vec[i].state = "row" => Reads(vec[i].life) = Reads(doc[i].life)
                    /\ \A p \in Precedents : Live(p) => (log[p] = "demoted" <=> p \in ruled)
  BY DEF PlaneInv, PlanesAgree
<1>1. /\ \A i \in Items : NodeAgrees(i) /\ VecAgrees(i)
      /\ \A p \in Precedents : Live(p) => LogAgrees(p)
  BY DEF PlaneNow, VecsAgree, Quiet, Rewriting, Deciding
<1> QED
  BY <1>1 DEF NodeAgrees, VecAgrees, LogAgrees

\* Between commands, if none overlapped and nothing failed: the node, the row
\* and the vector snapshot of every item say the same, and the event log names
\* the precedents a demotion stands against.
THEOREM PlanesStayAgreed == Spec => []PlanesAgree
<1>1. Inv /\ Turned /\ StandInv /\ PlaneInv /\ [Next]_vars => (Inv /\ Turned /\ StandInv /\ PlaneInv)'
  BY InvStep, TurnedStep, StandStep, PlaneStep
<1>2. Init => Inv /\ Turned /\ StandInv /\ PlaneInv
  BY InitInv, InitTurned, InitStands, InitPlane
<1> QED
  BY <1>1, <1>2, PlaneSaid, PTL DEF Spec
=============================================================================
