--------------------------- MODULE JsonFileProofs ---------------------------
(***************************************************************************)
(* Proofs about the two components that keep a JSON file of their own, for *)
(* every value of their constants: JsonStore, the whole-file stores, and   *)
(* Feedback, whose grades begin as lines of pack_feedback.jsonl.  Neither  *)
(* uses the other; the first part is about JsonStore alone and the second  *)
(* about Feedback alone.                                                   *)
(***************************************************************************)
EXTENDS JsonStore, Feedback, FiniteSetTheorems, WellFoundedInduction, TLAPS

-----------------------------------------------------------------------------
(* JsonStore: the invariant.                                               *)

\* What an instance held before the edit it has under way.
Base(s) == IF s.pc \in {"save", "replace"} THEN s.restore ELSE s.rows

IsFile(view) ==
    IF file = NONE THEN view = Empty ELSE file.whole /\ view = file.rows

Loaded(s) == ~s.degraded /\ s.pc \notin {"stat", "load"}

ReadInv(s) == s.read \in Nat => s.read <= version
BlankInv(s) == s.pc \in {"stat", "load"} => s.rows = Empty /\ s.read = NONE
AbsentInv(s) == Loaded(s) /\ s.read = NONE => Base(s) = Empty
ViewInv(s) == Loaded(s) /\ s.read = Held => IsFile(Base(s))
EditInv(s) ==
    s.pc \in {"save", "replace"} =>
        ~s.degraded /\ s.rows = Applied(s.restore, s.edit)
CheckInv(s) ==
    s.pc = "replace" =>
        /\ s.seen <= version
        /\ s.read = s.print => Held = s.read \/ version > s.seen

InstInv(s) ==
    /\ ReadInv(s) /\ BlankInv(s) /\ AbsentInv(s)
    /\ ViewInv(s) /\ EditInv(s) /\ CheckInv(s)

Inv == TypeOK /\ \A p \in Procs : InstInv(inst[p])

-----------------------------------------------------------------------------
LEMMA AppliedType ==
    ASSUME NEW view \in View, NEW e \in Edits
    PROVE  /\ Applied(view, e) \in View
           /\ \A i \in Ids \ DOMAIN e : Applied(view, e)[i] = view[i]
<1>1. \A i \in DOMAIN e : e[i] \in Vals \cup {NONE}
  <2>1. CASE e \in Puts
    <3>1. PICK S \in SUBSET Ids : e \in [S -> Vals]
      BY <2>1 DEF Puts
    <3> QED
      BY <3>1
  <2>2. CASE e \in {Removal(i) : i \in Ids}
    BY <2>2 DEF Removal
  <2>3. CASE e = Empty
    BY <2>3 DEF Empty
  <2> QED
    BY <2>1, <2>2, <2>3 DEF Edits
<1> QED
  BY <1>1 DEF Applied, View

LEMMA ParsedType ==
    ASSUME file \in File
    PROVE  /\ Parsed \in View
           /\ ~Skipped => file.whole /\ Parsed = file.rows
<1>1. Empty \in View
  BY DEF Empty, View
<1>2. ASSUME file.whole
      PROVE  Parsed = [i \in Ids |-> Readable(file.rows[i])]
  BY <1>2 DEF Parsed
<1>3. \A i \in Ids : Readable(file.rows[i]) \in Vals \cup {NONE}
  BY DEF File, Readable
<1>4. Parsed \in View
  BY <1>1, <1>3 DEF Parsed, View
<1>5. ASSUME ~Skipped
      PROVE  file.whole /\ Parsed = file.rows
  <2>1. file.whole /\ \A i \in Ids : file.rows[i] # GARBLED
    BY <1>5 DEF Skipped, File
  <2>2. \A i \in Ids : Readable(file.rows[i]) = file.rows[i]
    BY <2>1 DEF Readable
  <2> QED
    BY <1>2, <2>1, <2>2 DEF File
<1> QED
  BY <1>4, <1>5

LEMMA OpenedType == Opened \in Instance
<1>1. Empty \in View /\ Empty \in Edits
  BY DEF Empty, View, Edits
<1> QED
  BY <1>1 DEF Opened, Instance, Ident

LEMMA FingerprintType ==
    ASSUME TypeOK
    PROVE  Fingerprint \in Ident /\ Held \in Nat \cup {NONE} /\ version \in Nat
BY JsonStoreAssumption DEF TypeOK, Fingerprint, Held, Ident

LEMMA RolledBackType ==
    ASSUME NEW s \in Instance
    PROVE  /\ RolledBack(s) \in Instance
           /\ RolledBack(s).pc = "ready"
           /\ RolledBack(s).rows = s.restore
           /\ RolledBack(s).read = s.read
           /\ RolledBack(s).degraded = s.degraded
<1>1. Empty \in View /\ Empty \in Edits
  BY DEF Empty, View, Edits
<1> QED
  BY <1>1 DEF RolledBack, Instance

\* A step of one instance that leaves the path alone keeps the invariant if
\* the instance it leaves behind satisfies its part.
LEMMA MemoryStep ==
    ASSUME Inv, NEW p \in Procs, NEW t \in Instance, InstInv(t),
           inst' = [inst EXCEPT ![p] = t],
           UNCHANGED <<file, version, reach>>
    PROVE  Inv'
<1>1. TypeOK'
  BY DEF Inv, TypeOK
<1>2. Held' = Held /\ \A view : IsFile(view)' <=> IsFile(view)
  BY DEF Held, IsFile
<1>3. ASSUME NEW q \in Procs
      PROVE  InstInv(inst[q])'
  <2>1. CASE q = p
    <3>1. inst'[q] = t
      BY <2>1 DEF Inv, TypeOK
    <3> QED
      BY <1>2, <3>1 DEF InstInv, ReadInv, BlankInv, AbsentInv, ViewInv,
           EditInv, CheckInv, Loaded, Base
  <2>2. CASE q # p
    <3>1. inst'[q] = inst[q] /\ InstInv(inst[q])
      BY <2>2 DEF Inv, TypeOK
    <3> QED
      BY <1>2, <3>1 DEF InstInv, ReadInv, BlankInv, AbsentInv, ViewInv,
           EditInv, CheckInv, Loaded, Base
  <2> QED
    BY <2>1, <2>2
<1> QED
  BY <1>1, <1>3 DEF Inv

LEMMA OpenStep ==
    ASSUME Inv, NEW p \in Procs, Open(p)
    PROVE  Inv'
<1>1. InstInv(Opened)
  BY JsonStoreAssumption DEF Opened, InstInv, ReadInv, BlankInv, AbsentInv, ViewInv, EditInv,
       CheckInv, Loaded
<1> QED
  BY <1>1, OpenedType, MemoryStep DEF Open

LEMMA StatStep ==
    ASSUME Inv, NEW p \in Procs, Stat(p)
    PROVE  Inv'
<1> DEFINE s == inst[p]
           next == IF reach /\ file # NONE THEN "load" ELSE "print"
           deg == ~reach
           t == [s EXCEPT !.pc = next, !.degraded = deg]
<1>1. s \in Instance /\ InstInv(s) /\ s.pc = "stat" /\ reach \in BOOLEAN
  BY DEF Inv, TypeOK, Stat
<1>2. inst' = [inst EXCEPT ![p] = t]
  BY DEF Stat
<1>3. next \in {"load", "print"} /\ deg \in BOOLEAN
  BY <1>1
<1>4. next = "load" <=> reach /\ file # NONE
  OBVIOUS
<1>5. deg <=> ~reach
  OBVIOUS
<1> HIDE DEF next, deg
<1>6. /\ t \in Instance
      /\ t.pc = next /\ t.degraded = deg
      /\ t.rows = s.rows /\ t.read = s.read
  BY <1>1, <1>3 DEF Instance
<1> HIDE DEF t
<1>7. t.rows = Empty /\ t.read = NONE
  BY <1>1, <1>6 DEF InstInv, BlankInv
<1>8. t.pc = "print" /\ ~t.degraded => file = NONE
  BY <1>4, <1>5, <1>6
<1>9. ReadInv(t) /\ BlankInv(t) /\ EditInv(t) /\ CheckInv(t) /\ AbsentInv(t)
  BY <1>3, <1>6, <1>7, JsonStoreAssumption
     DEF ReadInv, BlankInv, EditInv, CheckInv, AbsentInv, Base
<1>10. ViewInv(t)
  BY <1>3, <1>6, <1>7, <1>8 DEF ViewInv, Loaded, Base, IsFile
<1> QED
  BY <1>2, <1>6, <1>9, <1>10, MemoryStep DEF Stat, InstInv

LEMMA LoadStep ==
    ASSUME Inv, NEW p \in Procs, Load(p)
    PROVE  Inv'
<1> DEFINE s == inst[p]
           view == IF reach /\ file # NONE THEN Parsed ELSE Empty
           deg == ~LoadedAll
           t == [s EXCEPT !.pc = "print", !.rows = view, !.degraded = deg,
                          !.read = Held]
<1>1. s \in Instance /\ InstInv(s)
  BY DEF Inv, TypeOK
<1>2. Held \in Nat \cup {NONE} /\ version \in Nat /\ (file # NONE => Held = version)
  BY FingerprintType DEF Inv, Held
<1>3. view \in View
  <2>1. CASE file = NONE
    BY <2>1 DEF Empty, View
  <2>2. CASE file # NONE
    <3>1. file \in File
      BY <2>2 DEF Inv, TypeOK
    <3> QED
      BY <3>1, ParsedType DEF Empty, View
  <2> QED
    BY <2>1, <2>2
<1>4. deg \in BOOLEAN
  OBVIOUS
<1>5. ASSUME ~deg
      PROVE  Held # NONE /\ Held = version /\ IsFile(view)
  <2>1. file \in File /\ ~Skipped /\ reach /\ file # NONE
    BY <1>5 DEF LoadedAll, Inv, TypeOK
  <2>2. file.whole /\ Parsed = file.rows
    BY <2>1, ParsedType
  <2> QED
    BY <1>2, <2>1, <2>2, JsonStoreAssumption DEF IsFile
<1>6. inst' = [inst EXCEPT ![p] = t]
  BY DEF Load
<1> HIDE DEF view, deg
<1>7. /\ t \in Instance
      /\ t.pc = "print" /\ t.rows = view /\ t.degraded = deg /\ t.read = Held
  BY <1>1, <1>2, <1>3, <1>4 DEF Instance
<1> HIDE DEF t
<1>8. ReadInv(t)
  BY <1>2, <1>7, JsonStoreAssumption DEF ReadInv, Held
<1>9. BlankInv(t) /\ EditInv(t) /\ CheckInv(t)
  BY <1>7 DEF BlankInv, EditInv, CheckInv
<1>10. AbsentInv(t) /\ ViewInv(t)
  BY <1>5, <1>7 DEF AbsentInv, ViewInv, Loaded, Base
<1> QED
  BY <1>6, <1>7, <1>8, <1>9, <1>10, MemoryStep DEF Load, InstInv

LEMMA TakePrintStep ==
    ASSUME Inv, NEW p \in Procs, TakePrint(p)
    PROVE  Inv'
<1> DEFINE s == inst[p]
           t == [s EXCEPT !.pc = "ready", !.print = Fingerprint]
<1>1. s \in Instance /\ InstInv(s) /\ s.pc = "print"
  BY DEF Inv, TypeOK, TakePrint
<1>2. Fingerprint \in Ident
  BY FingerprintType DEF Inv
<1>3. /\ t \in Instance
      /\ t.pc = "ready" /\ t.rows = s.rows /\ t.read = s.read
      /\ t.degraded = s.degraded
  BY <1>1, <1>2 DEF Instance
<1>4. InstInv(t)
  BY <1>1, <1>3 DEF InstInv, ReadInv, BlankInv, AbsentInv, ViewInv, EditInv,
       CheckInv, Loaded, Base
<1>5. inst' = [inst EXCEPT ![p] = t]
  BY DEF TakePrint
<1> HIDE DEF t
<1> QED
  BY <1>3, <1>4, <1>5, MemoryStep DEF TakePrint

LEMMA EditStep ==
    ASSUME Inv, NEW p \in Procs, NEW e \in Edits, Edit(p, e)
    PROVE  Inv'
<1> DEFINE s == inst[p]
           view == Applied(s.rows, e)
           t == [s EXCEPT !.pc = "save", !.edit = e, !.restore = s.rows,
                          !.rows = view]
<1>1. s \in Instance /\ InstInv(s) /\ s.pc = "ready" /\ ~s.degraded
  BY DEF Inv, TypeOK, Edit
<1>2. view \in View
  BY <1>1, AppliedType DEF Instance
<1>3. inst' = [inst EXCEPT ![p] = t]
  BY DEF Edit
<1>4. view = Applied(s.rows, e)
  OBVIOUS
<1> HIDE DEF view
<1>5. /\ t \in Instance
      /\ t.pc = "save" /\ t.rows = view /\ t.restore = s.rows /\ t.edit = e
      /\ t.degraded = s.degraded /\ t.read = s.read
  BY <1>1, <1>2 DEF Instance
<1> HIDE DEF t
<1>6. ReadInv(t) /\ BlankInv(t) /\ EditInv(t) /\ CheckInv(t)
  BY <1>1, <1>4, <1>5 DEF InstInv, ReadInv, BlankInv, EditInv, CheckInv
<1>7. Base(t) = Base(s) /\ (Loaded(t) <=> Loaded(s))
  BY <1>1, <1>5 DEF Base, Loaded
<1>8. AbsentInv(t) /\ ViewInv(t)
  BY <1>1, <1>5, <1>7 DEF InstInv, AbsentInv, ViewInv
<1> QED
  BY <1>3, <1>5, <1>6, <1>8, MemoryStep DEF Edit, InstInv

\* What a rolled-back instance holds is what it held before the edit.
LEMMA RolledBackInv ==
    ASSUME NEW s \in Instance, InstInv(s), s.pc \in {"save", "replace"}
    PROVE  InstInv(RolledBack(s))
<1> DEFINE t == RolledBack(s)
<1>1. /\ t.pc = "ready" /\ t.rows = s.restore
      /\ t.read = s.read /\ t.degraded = s.degraded
  BY RolledBackType
<1> HIDE DEF t
<1>2. ReadInv(t) /\ BlankInv(t) /\ EditInv(t) /\ CheckInv(t)
  BY <1>1 DEF InstInv, ReadInv, BlankInv, EditInv, CheckInv
<1>3. Base(t) = Base(s) /\ (Loaded(t) <=> Loaded(s))
  BY <1>1 DEF Base, Loaded
<1>4. AbsentInv(t) /\ ViewInv(t)
  BY <1>1, <1>3 DEF InstInv, AbsentInv, ViewInv
<1>5. InstInv(t)
  BY <1>2, <1>4 DEF InstInv
<1> QED
  BY <1>5 DEF t

LEMMA SaveStep ==
    ASSUME Inv, NEW p \in Procs, Save(p)
    PROVE  Inv'
<1> DEFINE s == inst[p]
           t == [s EXCEPT !.pc = "replace", !.seen = version]
<1>1. s \in Instance /\ InstInv(s) /\ s.pc = "save"
  BY DEF Inv, TypeOK, Save
<1>2. version \in Nat
  BY FingerprintType DEF Inv
<1>3. CASE ~s.degraded /\ Unmoved(s.print)
  <2>1. inst' = [inst EXCEPT ![p] = t]
    BY <1>3 DEF Save
  <2>2. /\ t \in Instance
        /\ t.pc = "replace" /\ t.seen = version
        /\ t.rows = s.rows /\ t.restore = s.restore /\ t.edit = s.edit
        /\ t.degraded = s.degraded /\ t.read = s.read /\ t.print = s.print
    BY <1>1, <1>2 DEF Instance
  <2> HIDE DEF t
  <2>3. Held = s.print
    BY <1>3 DEF Unmoved, Fingerprint
  <2>4. ReadInv(t) /\ BlankInv(t) /\ EditInv(t)
    BY <1>1, <2>2 DEF InstInv, ReadInv, BlankInv, EditInv
  <2>5. CheckInv(t)
    BY <1>2, <2>2, <2>3 DEF CheckInv
  <2>6. Base(t) = Base(s) /\ (Loaded(t) <=> Loaded(s))
    BY <1>1, <2>2 DEF Base, Loaded
  <2>7. AbsentInv(t) /\ ViewInv(t)
    BY <1>1, <2>2, <2>6 DEF InstInv, AbsentInv, ViewInv
  <2> QED
    BY <2>1, <2>2, <2>4, <2>5, <2>7, MemoryStep DEF Save, InstInv
<1>4. CASE ~(~s.degraded /\ Unmoved(s.print))
  <2>1. inst' = [inst EXCEPT ![p] = RolledBack(s)]
    BY <1>4 DEF Save
  <2> QED
    BY <1>1, <2>1, RolledBackType, RolledBackInv, MemoryStep DEF Save
<1> QED
  BY <1>3, <1>4

LEMMA WriteFailsStep ==
    ASSUME Inv, NEW p \in Procs, WriteFails(p)
    PROVE  Inv'
<1>1. inst[p] \in Instance /\ InstInv(inst[p]) /\ inst[p].pc = "replace"
  BY DEF Inv, TypeOK, WriteFails
<1> QED
  BY <1>1, RolledBackType, RolledBackInv, MemoryStep DEF WriteFails

LEMMA ReprintStep ==
    ASSUME Inv, NEW p \in Procs, Reprint(p)
    PROVE  Inv'
<1> DEFINE s == inst[p]
           t == [s EXCEPT !.pc = "ready", !.print = Fingerprint,
                          !.restore = Empty, !.edit = Empty]
<1>1. s \in Instance /\ InstInv(s) /\ s.pc = "reprint"
  BY DEF Inv, TypeOK, Reprint
<1>2. Fingerprint \in Ident /\ Empty \in View /\ Empty \in Edits
  BY FingerprintType DEF Inv, Empty, View, Edits
<1>3. inst' = [inst EXCEPT ![p] = t]
  BY DEF Reprint
<1>4. /\ t \in Instance
      /\ t.pc = "ready" /\ t.rows = s.rows /\ t.read = s.read
      /\ t.degraded = s.degraded
  BY <1>1, <1>2 DEF Instance
<1> HIDE DEF t
<1>5. InstInv(t)
  BY <1>1, <1>4 DEF InstInv, ReadInv, BlankInv, AbsentInv, ViewInv, EditInv,
       CheckInv, Loaded, Base
<1> QED
  BY <1>3, <1>4, <1>5, MemoryStep DEF Reprint

-----------------------------------------------------------------------------
\* A change of the path keeps what is known of every instance whose read
\* identity is not the new one.
LEMMA PathMoved ==
    ASSUME Inv, NEW s \in Instance, InstInv(s),
           version' = version + 1, file' \in File \cup {NONE}
    PROVE  InstInv(s)'
<1>1. version \in Nat /\ s.read \in Nat \cup {NONE} /\ s.seen \in Nat
  BY FingerprintType DEF Inv, Instance
<1>2. Held' = IF file' = NONE THEN NONE ELSE version'
  BY DEF Held
<1>3. ReadInv(s)' /\ BlankInv(s)' /\ AbsentInv(s)' /\ EditInv(s)'
  BY <1>1 DEF InstInv, ReadInv, BlankInv, AbsentInv, EditInv, Loaded, Base
<1>4. CheckInv(s)'
  BY <1>1 DEF InstInv, CheckInv
<1>5. ViewInv(s)'
  <2>1. SUFFICES ASSUME Loaded(s), s.read = Held'
                 PROVE  IsFile(Base(s))'
    BY DEF ViewInv, Loaded, Base
  <2>2. s.read # version'
    BY <1>1, JsonStoreAssumption DEF InstInv, ReadInv
  <2>3. file' = NONE /\ s.read = NONE
    BY <1>2, <2>1, <2>2
  <2>4. Base(s) = Empty
    BY <2>1, <2>3 DEF InstInv, AbsentInv
  <2> QED
    BY <2>3, <2>4 DEF IsFile, Base
<1> QED
  BY <1>3, <1>4, <1>5 DEF InstInv

LEMMA ReplaceStep ==
    ASSUME Inv, NEW p \in Procs, Replace(p)
    PROVE  Inv'
<1> DEFINE s == inst[p]
           v == version + 1
           t == [s EXCEPT !.pc = "reprint", !.read = v]
<1>1. s \in Instance /\ InstInv(s) /\ s.pc = "replace"
  BY DEF Inv, TypeOK, Replace
<1>2. /\ inst' = [inst EXCEPT ![p] = t]
      /\ file' = [rows |-> s.rows, whole |-> TRUE]
      /\ version' = version + 1 /\ version < MaxVersion /\ reach' = reach
  BY DEF Replace
<1>3. version \in Nat /\ v \in Nat /\ version' = v
  BY <1>2, FingerprintType DEF Inv
<1> HIDE DEF v
<1>4. /\ t \in Instance
      /\ t.pc = "reprint" /\ t.read = v /\ t.rows = s.rows
  BY <1>1, <1>3 DEF Instance
<1> HIDE DEF t
<1>5. file' \in File /\ file' # NONE
  <2>1. s.rows \in [Ids -> Vals \cup {NONE, GARBLED}]
    BY <1>1 DEF Instance, View
  <2>2. file' \in File
    BY <1>2, <2>1 DEF File
  <2>3. file' # NONE
    BY <1>2, <2>2, SentinelAssumption
  <2> QED
    BY <2>2, <2>3
<1>6. TypeOK'
  BY <1>2, <1>3, <1>4, <1>5, JsonStoreAssumption DEF Inv, TypeOK
<1>7. ASSUME NEW q \in Procs
      PROVE  InstInv(inst[q])'
  <2>1. CASE q = p
    <3>1. inst'[q] = t
      BY <1>2, <2>1 DEF Inv, TypeOK
    <3>2. /\ inst'[q].pc = "reprint" /\ inst'[q].read = version'
          /\ file'.whole /\ inst'[q].rows = file'.rows
      BY <1>2, <1>3, <1>4, <3>1
    <3>3. /\ ReadInv(inst[q])' /\ BlankInv(inst[q])' /\ AbsentInv(inst[q])'
          /\ EditInv(inst[q])' /\ CheckInv(inst[q])'
      BY <1>3, <3>2, JsonStoreAssumption DEF ReadInv, BlankInv, AbsentInv, EditInv,
         CheckInv
    <3>4. ViewInv(inst[q])'
      BY <1>5, <3>2 DEF ViewInv, Loaded, Base, IsFile
    <3> QED
      BY <3>3, <3>4 DEF InstInv
  <2>2. CASE q # p
    <3>1. inst'[q] = inst[q] /\ inst[q] \in Instance /\ InstInv(inst[q])
      BY <1>2, <2>2 DEF Inv, TypeOK
    <3>2. ASSUME NEW u \in Instance, InstInv(u)
          PROVE  InstInv(u)'
      BY <1>2, <1>5, <3>2, PathMoved
    <3> QED
      BY <3>1, <3>2 DEF InstInv, ReadInv, BlankInv, AbsentInv, ViewInv, EditInv,
         CheckInv, Loaded, Base
  <2> QED
    BY <2>1, <2>2
<1> QED
  BY <1>6, <1>7 DEF Inv

\* An edit of the path from outside, and a file system that comes and goes.
LEMMA TouchStep ==
    ASSUME Inv, NEW f \in File \cup {NONE}, Touch(f)
    PROVE  Inv'
<1>1. /\ file' = f /\ version' = version + 1 /\ version < MaxVersion
      /\ reach' = reach /\ inst' = inst
  BY DEF Touch
<1>2. TypeOK'
  BY <1>1, JsonStoreAssumption DEF Inv, TypeOK
<1>3. ASSUME NEW p \in Procs
      PROVE  InstInv(inst[p])'
  <2>1. inst[p] \in Instance /\ InstInv(inst[p])
    BY DEF Inv, TypeOK
  <2>2. ASSUME NEW u \in Instance, InstInv(u)
        PROVE  InstInv(u)'
    BY <1>1, <2>2, PathMoved
  <2> QED
    BY <1>1, <2>1, <2>2 DEF InstInv, ReadInv, BlankInv, AbsentInv, ViewInv,
       EditInv, CheckInv, Loaded, Base
<1> QED
  BY <1>2, <1>3 DEF Inv

LEMMA OutsideStep ==
    ASSUME Inv, Outside
    PROVE  Inv'
<1>1. file \in File \cup {NONE}
  BY DEF Inv, TypeOK
<1>2. ASSUME NEW i \in Ids, Garble(i)
      PROVE  Inv'
  <2> DEFINE view == [file.rows EXCEPT ![i] = GARBLED]
             f == [file EXCEPT !.rows[i] = GARBLED]
  <2>1. file \in File /\ Touch(f)
    BY <1>1, <1>2 DEF Garble
  <2>2. f \in File
    BY <2>1 DEF File
  <2> HIDE DEF f
  <2> QED
    BY <2>1, <2>2, TouchStep
<1>3. ASSUME Tear
      PROVE  Inv'
  <2> DEFINE f == [file EXCEPT !.whole = FALSE]
  <2>1. file \in File /\ Touch(f)
    BY <1>1, <1>3 DEF Tear
  <2>2. f \in File
    BY <2>1 DEF File
  <2> HIDE DEF f
  <2> QED
    BY <2>1, <2>2, TouchStep
<1>4. ASSUME NEW view \in View, Repair(view)
      PROVE  Inv'
  <2> DEFINE f == [rows |-> view, whole |-> TRUE]
  <2>1. Touch(f)
    BY <1>4 DEF Repair
  <2>2. view \in [Ids -> Vals \cup {NONE, GARBLED}]
    BY DEF View
  <2>3. f \in File
    BY <2>2 DEF File
  <2> HIDE DEF f
  <2> QED
    BY <2>1, <2>3, TouchStep
<1>5. ASSUME MoveAside
      PROVE  Inv'
  BY <1>5, TouchStep DEF MoveAside
<1>6. ASSUME Unreach
      PROVE  Inv'
  <2>1. /\ reach' = ~reach /\ file' = file /\ version' = version
        /\ inst' = inst
    BY <1>6 DEF Unreach
  <2>2. TypeOK'
    BY <2>1 DEF Inv, TypeOK
  <2>3. Held' = Held /\ \A view : IsFile(view)' <=> IsFile(view)
    BY <2>1 DEF Held, IsFile
  <2> QED
    BY <2>1, <2>2, <2>3 DEF Inv, InstInv, ReadInv, BlankInv, AbsentInv, ViewInv,
       EditInv, CheckInv, Loaded, Base
<1> QED
  BY <1>2, <1>3, <1>4, <1>5, <1>6 DEF Outside

LEMMA Initially ==
    ASSUME Init
    PROVE  Inv
<1>1. TypeOK
  BY OpenedType, JsonStoreAssumption DEF Init, TypeOK
<1>2. InstInv(Opened)
  BY JsonStoreAssumption DEF Opened, InstInv, ReadInv, BlankInv, AbsentInv,
     ViewInv, EditInv, CheckInv, Loaded
<1> QED
  BY <1>1, <1>2 DEF Inv, Init

LEMMA Inductive ==
    ASSUME Inv, [Next]_vars
    PROVE  Inv'
<1>1. ASSUME NEW p \in Procs, Step(p)
      PROVE  Inv'
  BY <1>1, OpenStep, StatStep, LoadStep, TakePrintStep, EditStep, SaveStep,
     WriteFailsStep, ReplaceStep, ReprintStep DEF Step
<1>2. CASE UNCHANGED vars
  BY <1>2 DEF vars, Inv, TypeOK, InstInv, ReadInv, BlankInv, AbsentInv, ViewInv,
     EditInv, CheckInv, Loaded, Base, Held, IsFile
<1> QED
  BY <1>1, <1>2, OutsideStep DEF Next

LEMMA Invariance == Spec => []Inv
BY Initially, Inductive, PTL DEF Spec

-----------------------------------------------------------------------------
(* Every variable has its type in every state, for any number of processes,*)
(* rows, contents and kinds of failure.                                    *)
THEOREM TypeCorrect == Spec => []TypeOK
<1>1. Inv => TypeOK
  BY DEF Inv
<1> QED
  BY <1>1, Invariance, PTL

(* An instance that passes both guards holds the file's rows and all of    *)
(* them: no refused or failed write leaves an edit behind in memory, and   *)
(* no partial load passes for a whole one.                                 *)
THEOREM GuardedViewsAreTheFile == Spec => []GuardedViewIsFile
<1>1. ASSUME Inv
      PROVE  GuardedViewIsFile
  <2>1. SUFFICES ASSUME NEW p \in Procs,
                        inst[p].pc = "ready", ~inst[p].degraded,
                        Unmoved(inst[p].print), inst[p].read = inst[p].print
                 PROVE  IF file = NONE THEN inst[p].rows = Empty
                        ELSE file.whole /\ inst[p].rows = file.rows
    BY DEF GuardedViewIsFile
  <2>2. inst[p].read = Held
    BY <2>1 DEF Unmoved, Fingerprint
  <2>3. IsFile(Base(inst[p]))
    BY <1>1, <2>1, <2>2 DEF Inv, InstInv, ViewInv, Loaded
  <2> QED
    BY <2>1, <2>3 DEF IsFile, Base
<1> QED
  BY <1>1, Invariance, PTL

\* Which step a write is.
LEMMA ReplacesIsReplace ==
    ASSUME Inv, NEW p \in Procs, [Next]_vars, Replaces(p)
    PROVE  Replace(p)
<1>1. inst[p].pc = "replace" /\ inst'[p].pc = "reprint" /\ inst[p] \in Instance
  BY DEF Replaces, Inv, TypeOK
<1>2. inst' # inst
  BY <1>1
<1>3. PICK q \in Procs : Step(q)
  BY <1>2 DEF Next, vars, Outside, Garble, Tear, Repair, MoveAside, Unreach, Touch
<1>4. q = p
  <2>1. \A r \in Procs : r # q => inst'[r] = inst[r]
    BY <1>3 DEF Step, Open, Stat, Load, TakePrint, Edit, Save, WriteFails,
       Replace, Reprint, Inv, TypeOK
  <2> QED
    BY <1>1, <2>1
<1>5. ~Open(p)
  BY <1>1 DEF Open, Opened, Inv, TypeOK
<1>6. ~WriteFails(p)
  BY <1>1, RolledBackType DEF WriteFails, Inv, TypeOK
<1> QED
  BY <1>1, <1>3, <1>4, <1>5, <1>6 DEF Step, Stat, Load, TakePrint, Edit, Save, Reprint

(* A write of a view that came from the file it replaces changes only the  *)
(* rows its caller named: whatever did not parse is never rewritten away.  *)
THEOREM WritesLoseOnlyAsked == Spec => WriteLosesOnlyAsked
<1>1. ASSUME Inv, [Next]_vars, NEW p \in Procs,
             Replaces(p), file # NONE, inst[p].read = version
      PROVE  /\ file.whole
             /\ \A i \in Ids \ DOMAIN inst[p].edit : file'.rows[i] = file.rows[i]
  <2>1. Replace(p)
    BY <1>1, ReplacesIsReplace
  <2>2. file'.rows = inst[p].rows /\ inst[p] \in Instance /\ InstInv(inst[p])
        /\ inst[p].pc = "replace"
    BY <1>1, <2>1 DEF Replace, Inv, TypeOK
  <2>3. IsFile(inst[p].restore)
    BY <1>1, <2>2 DEF InstInv, ViewInv, EditInv, Loaded, Base, Held
  <2>4. inst[p].rows = Applied(inst[p].restore, inst[p].edit)
    BY <2>2 DEF InstInv, EditInv
  <2>5. \A i \in Ids \ DOMAIN inst[p].edit : inst[p].rows[i] = inst[p].restore[i]
    BY <2>2, <2>4, AppliedType DEF Instance
  <2> QED
    BY <1>1, <2>2, <2>3, <2>5 DEF IsFile
<1>2. Inv /\ [Next]_vars =>
        [\A p \in Procs :
            Replaces(p) /\ file # NONE /\ inst[p].read = version =>
                /\ file.whole
                /\ \A i \in Ids \ DOMAIN inst[p].edit :
                        file'.rows[i] = file.rows[i]]_vars
  BY <1>1
<1> QED
  BY <1>2, Invariance, PTL DEF Spec, WriteLosesOnlyAsked

(* A write replaces the identity its view was read from, or one that came  *)
(* after its last staleness check, provided that the fingerprint it checks *)
(* is of the identity it read.                                             *)
THEOREM WritesReplaceTheirView == Spec => WriteReplacesView
<1>1. ASSUME Inv, [Next]_vars, NEW p \in Procs,
             Replaces(p), inst[p].read = inst[p].print
      PROVE  Held = inst[p].read \/ version > inst[p].seen
  BY <1>1 DEF Inv, InstInv, CheckInv, Replaces
<1>2. Inv /\ [Next]_vars =>
        [\A p \in Procs :
            Replaces(p) /\ inst[p].read = inst[p].print =>
                Held = inst[p].read \/ version > inst[p].seen]_vars
  BY <1>1
<1> QED
  BY <1>2, Invariance, PTL DEF Spec, WriteReplacesView

-----------------------------------------------------------------------------
(* Sequences of rows and of events.                                        *)

Items(s) == {s[i] : i \in DOMAIN s}
\* No two places of s have the same key.
Distinct(s, key) == \A i, j \in DOMAIN s : key[s[i]] = key[s[j]] => i = j
Apart(s, t, key) == \A i \in DOMAIN s, j \in DOMAIN t : key[s[i]] # key[t[j]]

LEMMA LeastNatural ==
    ASSUME NEW S, S \subseteq Nat, S # {}
    PROVE  \E x \in S : \A y \in S : x <= y
<1> DEFINE R == {ss \in Nat \X Nat : ss[1] < ss[2]}
<1>1. IsWellFoundedOn(R, Nat)
  BY NatLessThanWellFounded DEF OpToRel
<1>2. PICK x \in S : \A y \in S : ~(<<y, x>> \in R)
  <2> HIDE DEF R
  <2> QED
    BY <1>1, WFMin
<1>3. \A y \in S : ~(y < x)
  BY <1>2
<1> QED
  BY <1>3

LEMMA SetToSeqIs ==
    ASSUME NEW S, IsFiniteSet(S)
    PROVE  /\ SetToSeq(S) \in Seq(S) /\ Items(SetToSeq(S)) = S
           /\ \A i, j \in DOMAIN SetToSeq(S) : SetToSeq(S)[i] = SetToSeq(S)[j] => i = j
<1>1. PICK n \in Nat : n = Cardinality(S)
  BY FS_CardinalityType
<1>2. ExistsBijection(1..n, S)
  BY <1>1, FS_CardinalityType
<1>3. \E f \in [1..n -> S] : IsInjective(f)
  BY <1>2 DEF ExistsBijection, Bijection, Injection, IsInjective
<1>4. PICK f : f = SetToSeq(S)
  OBVIOUS
<1>5. f \in [1..n -> S] /\ IsInjective(f)
  BY <1>1, <1>3, <1>4 DEF SetToSeq
<1>6. f \in Injection(1..n, S)
  BY <1>5 DEF Injection, IsInjective
<1>7. IsFiniteSet(1..n) /\ Cardinality(1..n) = n
  BY FS_Interval
<1>8. f \in Surjection(1..n, S)
  BY <1>1, <1>6, <1>7, FS_Injection
<1>9. \A x \in S : \E i \in 1..n : f[i] = x
  BY <1>8 DEF Surjection
<1>10. Items(f) = S
  BY <1>5, <1>9 DEF Items
<1>11. f \in Seq(S)
  BY <1>5
<1> QED
  BY <1>4, <1>5, <1>10, <1>11 DEF IsInjective

LEMMA Joined ==
    ASSUME NEW V, NEW s \in Seq(V), NEW t \in Seq(V)
    PROVE  /\ s \o t \in Seq(V) /\ Items(s \o t) = Items(s) \cup Items(t)
           /\ \A key : Distinct(s, key) /\ Distinct(t, key) /\ Apart(s, t, key) => Distinct(s \o t, key)
<1>1. PICK n, m, u : n = Len(s) /\ m = Len(t) /\ u = s \o t
  OBVIOUS
<1>2. /\ n \in Nat /\ m \in Nat /\ u \in Seq(V)
      /\ DOMAIN s = 1..n /\ DOMAIN t = 1..m /\ DOMAIN u = 1..(n + m)
      /\ \A i \in 1..n : u[i] = s[i]
      /\ \A i \in 1..m : u[n + i] = t[i]
  BY <1>1
<1>3. \A i \in DOMAIN u : i \in DOMAIN s \/ (i - n \in DOMAIN t /\ i = n + (i - n))
  BY <1>2
<1>4. Items(u) = Items(s) \cup Items(t)
  <2>1. ASSUME NEW x \in Items(u) PROVE x \in Items(s) \cup Items(t)
    BY <1>2, <1>3, <2>1 DEF Items
  <2>2. ASSUME NEW x \in Items(s) PROVE x \in Items(u)
    <3>1. \A i \in DOMAIN s : i \in DOMAIN u /\ u[i] = s[i]
      BY <1>2
    <3> QED
      BY <2>2, <3>1 DEF Items
  <2>3. ASSUME NEW x \in Items(t) PROVE x \in Items(u)
    <3>1. \A i \in DOMAIN t : n + i \in DOMAIN u /\ u[n + i] = t[i]
      BY <1>2
    <3> QED
      BY <2>3, <3>1 DEF Items
  <2> QED
    BY <2>1, <2>2, <2>3
<1>5. ASSUME NEW key, Distinct(s, key), Distinct(t, key), Apart(s, t, key)
      PROVE  Distinct(u, key)
  <2> SUFFICES ASSUME NEW i \in DOMAIN u, NEW j \in DOMAIN u, key[u[i]] = key[u[j]] PROVE i = j
    BY DEF Distinct
  <2>1. CASE i \in DOMAIN s /\ j \in DOMAIN s
    BY <1>2, <1>5, <2>1 DEF Distinct
  <2>2. CASE i \notin DOMAIN s /\ j \notin DOMAIN s
    <3>1. i - n \in DOMAIN t /\ j - n \in DOMAIN t /\ u[i] = t[i - n] /\ u[j] = t[j - n]
      BY <1>2, <1>3, <2>2
    <3>2. i - n = j - n
      BY <1>5, <3>1 DEF Distinct
    <3> QED
      BY <1>2, <3>2
  <2>3. CASE i \in DOMAIN s /\ j \notin DOMAIN s
    <3>1. j - n \in DOMAIN t /\ u[j] = t[j - n] /\ u[i] = s[i]
      BY <1>2, <1>3, <2>3
    <3> QED
      BY <1>5, <2>3, <3>1 DEF Apart
  <2>4. CASE i \notin DOMAIN s /\ j \in DOMAIN s
    <3>1. i - n \in DOMAIN t /\ u[i] = t[i - n] /\ u[j] = s[j]
      BY <1>2, <1>3, <2>4
    <3> QED
      BY <1>5, <2>4, <3>1 DEF Apart
  <2> QED
    BY <2>1, <2>2, <2>3, <2>4
<1> QED
  BY <1>1, <1>2, <1>4, <1>5

-----------------------------------------------------------------------------
\* What the flattening computes along the way.
Flat(g, s) == g = [i \in 1..Len(s) |-> IF i = 1 THEN s[i] ELSE g[i - 1] \o s[i]]

LEMMA FlatAt ==
    ASSUME NEW s, Len(s) \in Nat, NEW g, Flat(g, s), NEW i \in 1..Len(s)
    PROVE  g[i] = IF i = 1 THEN s[1] ELSE g[i - 1] \o s[i]
<1> DEFINE h == [j \in 1..Len(s) |-> IF j = 1 THEN s[j] ELSE g[j - 1] \o s[j]]
<1>1. h[i] = IF i = 1 THEN s[1] ELSE g[i - 1] \o s[i]
  OBVIOUS
<1>2. g = h
  BY DEF Flat
<1> HIDE DEF h
<1> QED
  BY <1>1, <1>2

LEMMA FlatIs ==
    ASSUME NEW s, Len(s) \in Nat
    PROVE  \E g : Flat(g, s)
<1> PICK m \in Nat : m = Len(s)
  OBVIOUS
<1> DEFINE Good(n, g) == \A i \in 1..m : i <= n => g[i] = IF i = 1 THEN s[i] ELSE g[i - 1] \o s[i]
           Bad == {n \in Nat : ~\E g : Good(n, g)}
<1>1. Bad = {}
  <2> SUFFICES ASSUME Bad # {} PROVE FALSE
    OBVIOUS
  <2>1. PICK n \in Bad : \A k \in Bad : n <= k
    <3>1. Bad \subseteq Nat
      OBVIOUS
    <3> HIDE DEF Bad
    <3> QED
      BY <3>1, LeastNatural
  <2>2. n \in Nat /\ ~\E g : Good(n, g)
    BY <2>1
  <2>3. CASE n = 0
    <3>1. Good(0, s)
      OBVIOUS
    <3> QED
      BY <2>2, <2>3, <3>1
  <2>4. CASE n # 0
    <3>1. n - 1 \in Nat /\ n - 1 \notin Bad
      <4> HIDE DEF Bad
      <4> QED
        BY <2>1, <2>2, <2>4
    <3>2. PICK h : Good(n - 1, h)
      BY <3>1
    <3> DEFINE g == [i \in 1..m |-> IF i < n THEN h[i] ELSE IF i = 1 THEN s[i] ELSE h[i - 1] \o s[i]]
    <3>3. ASSUME NEW i \in 1..m, i <= n
          PROVE  g[i] = IF i = 1 THEN s[i] ELSE g[i - 1] \o s[i]
      <4>1. CASE i < n
        <5>1. g[i] = h[i]
          BY <4>1
        <5>2. h[i] = IF i = 1 THEN s[i] ELSE h[i - 1] \o s[i]
          BY <2>2, <3>2, <4>1
        <5>3. i # 1 => g[i - 1] = h[i - 1]
          <6>1. i # 1 => i - 1 \in 1..m /\ i - 1 < n
            BY <2>2, <4>1
          <6> QED
            BY <6>1
        <5> HIDE DEF g
        <5> QED
          BY <5>1, <5>2, <5>3
      <4>2. CASE i = n
        <5>1. g[i] = IF i = 1 THEN s[i] ELSE h[i - 1] \o s[i]
          BY <2>2, <4>2
        <5>2. i # 1 => g[i - 1] = h[i - 1]
          <6>1. i # 1 => i - 1 \in 1..m /\ i - 1 < n
            BY <2>2, <4>2
          <6> QED
            BY <6>1
        <5> HIDE DEF g
        <5> QED
          BY <5>1, <5>2
      <4> QED
        BY <2>2, <3>3, <4>1, <4>2
    <3>4. Good(n, g)
      BY <3>3
    <3> QED
      BY <2>2, <3>4
  <2> QED
    BY <2>3, <2>4
<1>2. PICK h : Good(m, h)
  BY <1>1
<1> DEFINE g == [i \in 1..m |-> h[i]]
<1>3. \A i \in 1..m : h[i] = IF i = 1 THEN s[i] ELSE h[i - 1] \o s[i]
  BY <1>2
<1>4. \A i \in 1..m : g[i] = h[i]
  OBVIOUS
<1>5. \A i \in 1..m : i # 1 => i - 1 \in 1..m
  OBVIOUS
<1>6. g = [i \in 1..m |-> IF i = 1 THEN s[i] ELSE g[i - 1] \o s[i]]
  <2>1. \A i \in 1..m : h[i] = IF i = 1 THEN s[i] ELSE g[i - 1] \o s[i]
    BY <1>3, <1>4, <1>5
  <2> QED
    BY <2>1
<1> HIDE DEF g
<1> QED
  BY <1>6 DEF Flat

\* A flattened sequence has the items of its parts, and has no key twice when
\* no part has and no two parts share one.
LEMMA Flattened ==
    ASSUME NEW V, NEW s \in Seq(Seq(V))
    PROVE  /\ FlattenSeq(s) \in Seq(V)
           /\ Items(FlattenSeq(s)) = UNION {Items(s[i]) : i \in DOMAIN s}
           /\ \A key : /\ \A i \in DOMAIN s : Distinct(s[i], key)
                       /\ \A i, j \in DOMAIN s : i # j => Apart(s[i], s[j], key)
                       => Distinct(FlattenSeq(s), key)
<1>1. PICK m : m = Len(s)
  OBVIOUS
<1>2. m \in Nat /\ DOMAIN s = 1..m /\ \A i \in 1..m : s[i] \in Seq(V)
  BY <1>1
<1>3. CASE m = 0
  <2>1. FlattenSeq(s) = s /\ s = <<>> /\ DOMAIN s = {}
    BY <1>1, <1>2, <1>3 DEF FlattenSeq
  <2> QED
    BY <2>1 DEF Items, Distinct
<1>4. CASE m # 0
  <2>1. PICK g : g = CHOOSE h : Flat(h, s)
    OBVIOUS
  <2>2. Flat(g, s)
    BY <1>1, <1>2, <2>1, FlatIs
  <2>3. FlattenSeq(s) = g[m]
    BY <1>1, <1>4, <2>1 DEF FlattenSeq, Flat
  <2> DEFINE Upto(n) == UNION {Items(s[i]) : i \in 1..n}
             Clean(key, n) == /\ \A i \in 1..n : Distinct(s[i], key)
                              /\ \A i, j \in 1..n : i # j => Apart(s[i], s[j], key)
             Fine(n) == /\ g[n] \in Seq(V) /\ Items(g[n]) = Upto(n)
                        /\ \A key : Clean(key, n) => Distinct(g[n], key)
             Bad == {n \in 1..m : ~Fine(n)}
  <2>4. Bad = {}
    <3> SUFFICES ASSUME Bad # {} PROVE FALSE
      OBVIOUS
    <3>1. PICK n \in Bad : \A k \in Bad : n <= k
      <4>1. Bad \subseteq Nat
        OBVIOUS
      <4> HIDE DEF Bad
      <4> QED
        BY <4>1, LeastNatural
    <3>2. n \in 1..m /\ ~Fine(n)
      BY <3>1
    <3>3. CASE n = 1
      <4>1. g[1] = s[1]
        BY <1>1, <1>2, <2>2, <3>2, <3>3, FlatAt
      <4>2. 1..1 = {1}
        OBVIOUS
      <4>3. Upto(1) = Items(s[1])
        BY <4>2
      <4>4. \A key : Clean(key, 1) => Distinct(s[1], key)
        BY <4>2
      <4> QED
        BY <1>2, <3>2, <3>3, <4>1, <4>3, <4>4
    <3>4. CASE n # 1
      <4>1. n - 1 \in 1..m /\ n - 1 \notin Bad
        <5> HIDE DEF Bad
        <5> QED
          BY <1>2, <3>1, <3>2, <3>4
      <4>2. Fine(n - 1)
        BY <4>1
      <4>3. PICK t, u : t = g[n - 1] /\ u = s[n]
        OBVIOUS
      <4>4. g[n] = t \o u
        BY <1>1, <1>2, <2>2, <3>2, <3>4, <4>3, FlatAt
      <4>5. t \in Seq(V) /\ u \in Seq(V)
        BY <1>2, <3>2, <4>2, <4>3
      <4>6. \A i : i \in 1..n <=> i \in 1..(n - 1) \/ i = n
        BY <1>2, <3>2
      <4>7. Upto(n) = Upto(n - 1) \cup Items(u)
        BY <4>3, <4>6
      <4>8. /\ t \o u \in Seq(V) /\ Items(t \o u) = Items(t) \cup Items(u)
            /\ \A key : Distinct(t, key) /\ Distinct(u, key) /\ Apart(t, u, key) => Distinct(t \o u, key)
        BY <4>5, Joined
      <4>9. ASSUME NEW key, Clean(key, n) PROVE Distinct(t \o u, key)
        <5>1. Distinct(t, key)
          BY <4>2, <4>3, <4>6, <4>9
        <5>2. Distinct(u, key)
          BY <4>3, <4>6, <4>9
        <5>3. Apart(t, u, key)
          <6> SUFFICES ASSUME NEW a \in DOMAIN t, NEW b \in DOMAIN u PROVE key[t[a]] # key[u[b]]
            BY DEF Apart
          <6>1. t[a] \in Upto(n - 1)
            BY <4>2, <4>3 DEF Items
          <6>2. PICK i \in 1..(n - 1) : t[a] \in Items(s[i])
            BY <6>1
          <6>3. PICK c \in DOMAIN s[i] : t[a] = s[i][c]
            BY <6>2 DEF Items
          <6>4. i \in 1..n /\ n \in 1..n /\ i # n
            BY <3>2, <1>2, <6>2
          <6>5. Apart(s[i], s[n], key)
            BY <4>9, <6>4
          <6> QED
            BY <4>3, <6>3, <6>5 DEF Apart
        <5> QED
          BY <4>8, <5>1, <5>2, <5>3
      <4>10. Fine(n)
        BY <4>2, <4>3, <4>4, <4>7, <4>8, <4>9
      <4> QED
        BY <3>2, <4>10
    <3> QED
      BY <3>3, <3>4
  <2>5. Fine(m)
    <3>1. m \in 1..m
      BY <1>2, <1>4
    <3> HIDE DEF Fine
    <3> QED
      BY <2>4, <3>1
  <2> QED
    BY <1>2, <2>3, <2>5
<1> QED
  BY <1>3, <1>4

-----------------------------------------------------------------------------
(* Feedback: the invariant.  Where passes take turns one is at work at a   *)
(* time and no call with it; whoever is to emit an event found none, so the*)
(* events of a grade and those about to emit one are never too many; a     *)
(* call owes one row at most of each component against the line it has     *)
(* appended; and what the backfill is about to write is not in place yet.  *)

InTurn == "overlap" \notin env
Reading == "read" \notin env

Active(r) == recon[r].pc \in {"scan", "emit"}
Filling == fill.pc \in {"count", "query", "write"}

\* One pass at a time, and calls only between passes.
Turns ==
    InTurn =>
        /\ \A r, q \in Reconcilers : Active(r) /\ Active(q) => r = q
        /\ \A r \in Reconcilers : Active(r) => ~Filling
        /\ Filling \/ (\E r \in Reconcilers : Active(r)) => CallsRest

-----------------------------------------------------------------------------
(* Events.                                                                 *)

\* The passes and the call that found no event of g and are about to emit one.
Emitters(g) == {r \in Reconcilers : recon[r].pc = "emit" /\ recon[r].at = g}
Due(g) == IF call[g].pc = "emit" THEN 1 ELSE 0
Most == 1 + IF InTurn THEN 0 ELSE Cardinality(Reconcilers)

\* The grades that lines still to do are of.
Still(todo) == {g \in Grades : todo[g] > 0}

\* What is logged has a line, and so has what a pass works on.
Lined ==
    /\ \A g \in Grades : call[g].pc = "new" <=> g \notin InFile
    /\ \A g \in Grades : g \in Logged => g \in InFile
    /\ \A r \in Reconcilers :
         /\ recon[r].lines \subseteq InFile /\ Still(recon[r].todo) \subseteq InFile
         /\ recon[r].pc = "emit" => recon[r].at \in InFile

Once == \A g \in Grades : Cardinality(EventsOf(g)) + Cardinality(Emitters(g)) + Due(g) <= Most

Packed == \A i \in DOMAIN events : events[i].packed <=> events[i].of \in Grades /\ Served[events[i].of] # {}

\* A line a pass loaded is logged, failed, or still to do.
Swept ==
    \A r \in Reconcilers : recon[r].pc # "idle" =>
        recon[r].lines \subseteq Logged \cup recon[r].failed
            \cup (IF recon[r].pc = "done" THEN {} ELSE Still(recon[r].todo))
            \cup (IF recon[r].pc = "emit" THEN {recon[r].at} ELSE {})

EventInv == Turns /\ Lined /\ Once /\ Packed /\ Swept

-----------------------------------------------------------------------------
(* Rows.                                                                   *)

InCell(s) == \A i \in DOMAIN s : s[i].cell = CellOf(s[i].of)
Celled ==
    Reading => /\ InCell(rows) /\ InCell(fill.plan)
               /\ \A g \in Grades : call[g].pc = "fan" => call[g].cell = CellOf(g)

\* The row a call has yet to append of component c, if it has one at all.
Owed(g, c) ==
    IF \/ call[g].pc \in {"check", "emit", "pack"}
       \/ call[g].pc = "fan" /\ c \in call[g].todo
    THEN 1 ELSE 0

\* A line for each row there is, and for the one that is to come.
Counted ==
    \A g \in Grades, c \in Components : Cardinality(Copies(g, c)) + Owed(g, c) <= lines[g]

NoneTwice(s) == \A i, j \in DOMAIN s : RowKey(s[i]) = RowKey(s[j]) => i = j
Planned ==
    Filling =>
        /\ NoneTwice(fill.plan) /\ \A r \in Items(fill.plan) : r.of \in Logged
        /\ fill.pc = "query" => fill.count = Len(rows)
        /\ fill.pc = "write" => KeysOf(fill.plan) \cap KeysOf(rows) = {}
Single == InTurn => Counted /\ Planned

\* What the backfill saw is planned or in place.
Filled ==
    /\ ~Filling => fill.plan = <<>>
    /\ Reading => \A g \in fill.seen : Fan(g) \subseteq KeysOf(fill.plan) \cup KeysOf(rows)

RowInv == Celled /\ Single /\ Filled
FeedbackInv == FeedbackTypeOK /\ EventInv /\ RowInv

-----------------------------------------------------------------------------
(* What the backfill plans and finds.                                      *)

Key == [r \in RowType |-> RowKey(r)]

LEMMA RowIs ==
    ASSUME NEW g \in Grades, NEW c \in Components, NEW cell \in Cells
    PROVE  /\ Row(g, c, cell) \in RowType /\ Key[Row(g, c, cell)] = <<g, c>>
           /\ Row(g, c, cell).of = g /\ Row(g, c, cell).at = c /\ Row(g, c, cell).cell = cell
BY DEF Row, RowType, Key, RowKey

LEMMA KeyIs == ASSUME NEW r \in RowType PROVE Key[r] = RowKey(r) /\ RowKey(r) = <<r.of, r.at>>
BY DEF Key, RowKey

LEMMA LookupsAre ==
    ASSUME NEW g \in Grades, NEW f \in Lookups(g)
    PROVE  /\ f[1] \in Cells /\ f[2] \in {Served[g], {}} /\ f[2] \subseteq Served[g]
           /\ f[2] \subseteq Components /\ IsFiniteSet(f[2]) /\ PackBuilder \notin f[2]
           /\ Reading => f[1] = CellOf(g) /\ f[2] = Served[g]
<1>1. f[1] \in {CellOf(g), "unscoped"} /\ f[2] \in {Served[g], {}}
  BY DEF Lookups
<1>2. CellOf(g) \in Cells
  BY DEF CellOf, Cells
<1>3. IsFiniteSet(Served[g]) /\ IsFiniteSet({}) /\ PackBuilder \notin Served[g]
  BY FeedbackConstants, FS_EmptySet
<1>4. Served[g] \subseteq Components
  BY DEF Components
<1>5. Reading => f[1] = CellOf(g) /\ f[2] = Served[g]
  BY DEF Reading, Lookups
<1> QED
  BY <1>1, <1>2, <1>3, <1>4, <1>5 DEF Cells

PackIsComponent == PackBuilder \in Components

LEMMA PackThere == PackIsComponent
BY DEF PackIsComponent, Components

\* The rows of an event: none of a governed grade's, the pack builder's alone
\* of one without a pack, and else one of each strategy that was found.
LEMMA BridgedIs ==
    ASSUME NEW g \in Grades \cup Governed, NEW p \in BOOLEAN, NEW e, e = Event(g, p), NEW found,
           g \in Grades => found[g] \in Lookups(g)
    PROVE  /\ Bridged(e, found) \in Seq(RowType) /\ Distinct(Bridged(e, found), Key)
           /\ \A r \in Items(Bridged(e, found)) : g \in Grades /\ r.of = g
           /\ g \in Grades => \E r \in Items(Bridged(e, found)) : RowKey(r) = <<g, PackBuilder>>
           /\ g \in Grades /\ p =>
                \A c \in found[g][2] : \E r \in Items(Bridged(e, found)) : RowKey(r) = <<g, c>>
           /\ Reading /\ (g \in Grades => (p <=> Served[g] # {})) =>
                \A r \in Items(Bridged(e, found)) : r.cell = CellOf(g)
<1>0. e.of = g /\ e.packed = p /\ Governed \cap Grades = {}
  BY FeedbackConstants DEF Event
<1>1. CASE g \in Governed
  <2>1. Bridged(e, found) = <<>> /\ g \notin Grades
    BY <1>0, <1>1 DEF Bridged
  <2> QED
    BY <2>1 DEF Items, Distinct
<1>2. CASE g \in Grades /\ ~p
  <2>1. PICK r : r = Row(g, PackBuilder, "unscoped")
    OBVIOUS
  <2>2. /\ r \in RowType /\ Key[r] = <<g, PackBuilder>> /\ RowKey(r) = <<g, PackBuilder>> /\ r.of = g
        /\ r.cell = "unscoped"
    BY <1>2, <2>1, RowIs, KeyIs, PackThere DEF PackIsComponent, Cells
  <2>3. Bridged(e, found) = <<r>>
    BY <1>0, <1>2, <2>1 DEF Bridged
  <2>4. Items(<<r>>) = {r} /\ Distinct(<<r>>, Key) /\ <<r>> \in Seq(RowType)
    BY <2>2 DEF Items, Distinct
  <2>5. Served[g] = {} => CellOf(g) = "unscoped"
    BY DEF CellOf
  <2> QED
    BY <1>2, <2>2, <2>3, <2>4, <2>5
<1>3. CASE g \in Grades /\ p
  <2>1. PICK cell, S, served, r : /\ cell = found[g][1] /\ S = found[g][2] /\ served = SetToSeq(S)
                                  /\ r = Row(g, PackBuilder, cell)
    OBVIOUS
  <2>2. PICK t : t = [i \in DOMAIN served |-> Row(g, served[i], cell)]
    OBVIOUS
  <2>3. Bridged(e, found) = <<r>> \o t
    BY <1>0, <1>3, <2>1, <2>2 DEF Bridged
  <2>4. /\ cell \in Cells /\ S \subseteq Components /\ IsFiniteSet(S) /\ PackBuilder \notin S
        /\ Reading => cell = CellOf(g)
    BY <1>3, <2>1, LookupsAre
  <2>5. /\ r \in RowType /\ Key[r] = <<g, PackBuilder>> /\ RowKey(r) = <<g, PackBuilder>>
        /\ r.of = g /\ r.cell = cell
    BY <1>3, <2>1, <2>4, RowIs, KeyIs, PackThere DEF PackIsComponent
  <2>6. /\ served \in Seq(S) /\ Items(served) = S
        /\ \A i, j \in DOMAIN served : served[i] = served[j] => i = j
    BY <2>1, <2>4, SetToSeqIs
  <2>7. DOMAIN t = DOMAIN served /\ \A i \in DOMAIN t : served[i] \in S /\ t[i] = Row(g, served[i], cell)
    BY <2>2, <2>6
  <2>8. \A i \in DOMAIN t : /\ t[i] \in RowType /\ Key[t[i]] = <<g, served[i]>>
                            /\ RowKey(t[i]) = <<g, served[i]>> /\ t[i].of = g /\ t[i].cell = cell
    <3> SUFFICES ASSUME NEW i \in DOMAIN t
                 PROVE  /\ t[i] \in RowType /\ Key[t[i]] = <<g, served[i]>>
                        /\ RowKey(t[i]) = <<g, served[i]>> /\ t[i].of = g /\ t[i].cell = cell
      OBVIOUS
    <3>1. PICK c \in S : c = served[i]
      BY <2>7
    <3>2. t[i] = Row(g, c, cell) /\ c \in Components
      BY <2>4, <2>7, <3>1
    <3> QED
      BY <1>3, <2>4, <3>1, <3>2, RowIs, KeyIs
  <2>9. t \in Seq(RowType)
    <3>1. DOMAIN t = 1..Len(served) /\ Len(served) \in Nat
      BY <2>6, <2>7
    <3> QED
      BY <2>2, <2>8, <3>1
  <2>10. <<r>> \in Seq(RowType) /\ Items(<<r>>) = {r} /\ Distinct(<<r>>, Key)
    BY <2>5 DEF Items, Distinct
  <2>11. Distinct(t, Key)
    BY <2>6, <2>7, <2>8 DEF Distinct
  <2>12. Apart(<<r>>, t, Key)
    BY <2>4, <2>5, <2>7, <2>8 DEF Apart
  <2>13. /\ <<r>> \o t \in Seq(RowType) /\ Items(<<r>> \o t) = {r} \cup Items(t)
         /\ Distinct(<<r>> \o t, Key)
    <3>1. PICK q : q = <<r>>
      OBVIOUS
    <3>2. q \in Seq(RowType) /\ Items(q) = {r} /\ Distinct(q, Key) /\ Apart(q, t, Key)
      BY <2>10, <2>12, <3>1
    <3>3. /\ q \o t \in Seq(RowType) /\ Items(q \o t) = Items(q) \cup Items(t)
          /\ \A key : Distinct(q, key) /\ Distinct(t, key) /\ Apart(q, t, key) => Distinct(q \o t, key)
      <4> HIDE DEF Key
      <4> QED
        BY <2>9, <3>2, Joined
    <3>4. Distinct(q \o t, Key)
      BY <2>11, <3>2, <3>3
    <3> QED
      BY <3>1, <3>2, <3>3, <3>4
  <2>14. \A x \in Items(t) : x.of = g /\ x.cell = cell
    BY <2>8 DEF Items
  <2>15. \A c \in S : \E x \in Items(t) : RowKey(x) = <<g, c>>
    BY <2>6, <2>7, <2>8 DEF Items
  <2> QED
    BY <1>3, <2>1, <2>3, <2>4, <2>5, <2>13, <2>14, <2>15
<1> QED
  BY <1>1, <1>2, <1>3

-----------------------------------------------------------------------------

LEMMA KeysAre ==
    ASSUME NEW s \in Seq(RowType)
    PROVE  /\ KeysOf(s) = {RowKey(r) : r \in Items(s)}
           /\ NoneTwice(s) <=> Distinct(s, Key)
           /\ InCell(s) <=> \A r \in Items(s) : r.cell = CellOf(r.of)
           /\ Items(s) \subseteq RowType
<1>1. \A i \in DOMAIN s : s[i] \in RowType
  OBVIOUS
<1>2. \A i \in DOMAIN s : Key[s[i]] = RowKey(s[i])
  BY <1>1, KeyIs
<1>3. NoneTwice(s) <=> Distinct(s, Key)
  BY <1>2 DEF NoneTwice, Distinct
<1>4. KeysOf(s) = {RowKey(r) : r \in Items(s)}
  BY DEF KeysOf, Items
<1>5. InCell(s) <=> \A r \in Items(s) : r.cell = CellOf(r.of)
  BY DEF InCell, Items
<1>6. Items(s) \subseteq RowType
  BY <1>1 DEF Items
<1> QED
  BY <1>3, <1>4, <1>5, <1>6

LEMMA JoinedRows ==
    ASSUME NEW s \in Seq(RowType), NEW t \in Seq(RowType)
    PROVE  /\ s \o t \in Seq(RowType) /\ Items(s \o t) = Items(s) \cup Items(t)
           /\ KeysOf(s \o t) = KeysOf(s) \cup KeysOf(t)
           /\ InCell(s) /\ InCell(t) => InCell(s \o t)
<1>1. PICK u : u = s \o t
  OBVIOUS
<1>2. u \in Seq(RowType) /\ Items(u) = Items(s) \cup Items(t)
  BY <1>1, Joined
<1>3. KeysOf(u) = KeysOf(s) \cup KeysOf(t)
  <2>1. /\ KeysOf(s) = {RowKey(r) : r \in Items(s)}
        /\ KeysOf(t) = {RowKey(r) : r \in Items(t)}
        /\ KeysOf(u) = {RowKey(r) : r \in Items(u)}
    BY <1>2, KeysAre
  <2> QED
    BY <1>2, <2>1
<1>4. InCell(s) /\ InCell(t) => InCell(u)
  <2>1. /\ InCell(s) <=> \A r \in Items(s) : r.cell = CellOf(r.of)
        /\ InCell(t) <=> \A r \in Items(t) : r.cell = CellOf(r.of)
        /\ InCell(u) <=> \A r \in Items(u) : r.cell = CellOf(r.of)
    BY <1>2, KeysAre
  <2> QED
    BY <1>2, <2>1
<1> QED
  BY <1>1, <1>2, <1>3, <1>4

LEMMA AppendedRow ==
    ASSUME NEW s \in Seq(RowType), NEW r \in RowType
    PROVE  /\ Append(s, r) \in Seq(RowType) /\ Items(Append(s, r)) = Items(s) \cup {r}
           /\ KeysOf(Append(s, r)) = KeysOf(s) \cup {RowKey(r)}
           /\ InCell(s) /\ r.cell = CellOf(r.of) => InCell(Append(s, r))
<1>1. PICK q : q = <<r>>
  OBVIOUS
<1>2. q \in Seq(RowType) /\ Items(q) = {r} /\ KeysOf(q) = {RowKey(r)}
  BY <1>1 DEF Items, KeysOf
<1>3. r.cell = CellOf(r.of) => InCell(q)
  BY <1>1 DEF InCell
<1>4. Append(s, r) = s \o q
  BY <1>1
<1>5. /\ s \o q \in Seq(RowType) /\ Items(s \o q) = Items(s) \cup Items(q)
      /\ KeysOf(s \o q) = KeysOf(s) \cup KeysOf(q)
      /\ InCell(s) /\ InCell(q) => InCell(s \o q)
  BY <1>2, JoinedRows
<1> QED
  BY <1>2, <1>3, <1>4, <1>5

\* A sequence cut in two.
Cut(s, n, t, u) == n \in 0..Len(s) /\ t = SubSeq(s, 1, n) /\ u = SubSeq(s, n + 1, Len(s))

LEMMA CutRows ==
    ASSUME NEW s \in Seq(RowType), NEW n, NEW t, NEW u, Cut(s, n, t, u)
    PROVE  /\ t \in Seq(RowType) /\ u \in Seq(RowType) /\ Items(s) = Items(t) \cup Items(u)
           /\ KeysOf(s) = KeysOf(t) \cup KeysOf(u)
           /\ NoneTwice(s) => NoneTwice(t) /\ NoneTwice(u) /\ KeysOf(t) \cap KeysOf(u) = {}
           /\ InCell(s) => InCell(t) /\ InCell(u)
           /\ n = Len(s) => u = <<>>
<1>1. PICK m \in Nat : m = Len(s) /\ DOMAIN s = 1..m /\ n \in 0..m
  BY DEF Cut
<1>2. /\ t \in Seq(RowType) /\ DOMAIN t = 1..n
      /\ \A i \in 1..n : t[i] = s[i]
  BY <1>1 DEF Cut
<1>3. /\ u \in Seq(RowType) /\ DOMAIN u = 1..(m - n)
      /\ \A i \in 1..(m - n) : u[i] = s[n + i]
      /\ n = m => u = <<>>
  BY <1>1 DEF Cut
<1>4. \A i \in 1..m : i \in 1..n \/ (i - n \in 1..(m - n) /\ i = n + (i - n) /\ s[i] = u[i - n])
  <2>1. \A i \in 1..m : i \in 1..n \/ (i - n \in 1..(m - n) /\ i = n + (i - n))
    BY <1>1
  <2> QED
    BY <1>1, <1>3, <2>1
<1>5. (\A i \in 1..n : i \in 1..m) /\ (\A i \in 1..(m - n) : n + i \in 1..m /\ n + i \notin 1..n)
  BY <1>1
<1>6. KeysOf(s) = KeysOf(t) \cup KeysOf(u)
  <2>1. KeysOf(s) = {RowKey(s[i]) : i \in 1..m} /\ KeysOf(t) = {RowKey(t[i]) : i \in 1..n}
        /\ KeysOf(u) = {RowKey(u[i]) : i \in 1..(m - n)}
    BY <1>1, <1>2, <1>3 DEF KeysOf
  <2>2. \A i \in 1..m : RowKey(s[i]) \in KeysOf(t) \cup KeysOf(u)
    <3> SUFFICES ASSUME NEW i \in 1..m PROVE RowKey(s[i]) \in KeysOf(t) \cup KeysOf(u)
      OBVIOUS
    <3>1. CASE i \in 1..n
      BY <1>2, <2>1, <3>1
    <3>2. CASE i \notin 1..n
      <4>1. PICK j \in 1..(m - n) : s[i] = u[j]
        BY <1>4, <3>2
      <4> QED
        BY <2>1, <4>1
    <3> QED
      BY <3>1, <3>2
  <2>3. \A i \in 1..n : RowKey(t[i]) \in KeysOf(s)
    BY <1>2, <1>5, <2>1
  <2>4. \A i \in 1..(m - n) : RowKey(u[i]) \in KeysOf(s)
    BY <1>3, <1>5, <2>1
  <2> QED
    BY <2>1, <2>2, <2>3, <2>4
<1>7. Items(s) = Items(t) \cup Items(u)
  <2>1. Items(s) = {s[i] : i \in 1..m} /\ Items(t) = {t[i] : i \in 1..n}
        /\ Items(u) = {u[i] : i \in 1..(m - n)}
    BY <1>1, <1>2, <1>3 DEF Items
  <2>2. \A i \in 1..m : s[i] \in Items(t) \cup Items(u)
    <3> SUFFICES ASSUME NEW i \in 1..m PROVE s[i] \in Items(t) \cup Items(u)
      OBVIOUS
    <3>1. CASE i \in 1..n
      BY <1>2, <2>1, <3>1
    <3>2. CASE i \notin 1..n
      <4>1. PICK j \in 1..(m - n) : s[i] = u[j]
        BY <1>4, <3>2
      <4> QED
        BY <2>1, <4>1
    <3> QED
      BY <3>1, <3>2
  <2>3. \A i \in 1..n : t[i] \in Items(s)
    BY <1>2, <1>5, <2>1
  <2>4. \A i \in 1..(m - n) : u[i] \in Items(s)
    BY <1>3, <1>5, <2>1
  <2> QED
    BY <2>1, <2>2, <2>3, <2>4
<1>8. ASSUME NoneTwice(s) PROVE NoneTwice(t) /\ NoneTwice(u) /\ KeysOf(t) \cap KeysOf(u) = {}
  <2>1. \A i, j \in 1..m : RowKey(s[i]) = RowKey(s[j]) => i = j
    BY <1>1, <1>8 DEF NoneTwice
  <2>2. NoneTwice(t)
    BY <1>2, <1>5, <2>1 DEF NoneTwice
  <2>3. NoneTwice(u)
    <3> SUFFICES ASSUME NEW i \in 1..(m - n), NEW j \in 1..(m - n), RowKey(u[i]) = RowKey(u[j])
                 PROVE  i = j
      BY <1>3 DEF NoneTwice
    <3>1. RowKey(s[n + i]) = RowKey(s[n + j])
      BY <1>3
    <3>2. n + i = n + j
      BY <1>5, <2>1, <3>1
    <3> QED
      BY <1>1, <3>2
  <2>4. KeysOf(t) \cap KeysOf(u) = {}
    <3> SUFFICES ASSUME NEW i \in 1..n, NEW j \in 1..(m - n), RowKey(t[i]) = RowKey(u[j])
                 PROVE  FALSE
      <4>1. KeysOf(t) = {RowKey(t[i]) : i \in 1..n} /\ KeysOf(u) = {RowKey(u[i]) : i \in 1..(m - n)}
        BY <1>2, <1>3 DEF KeysOf
      <4> QED
        BY <4>1
    <3>1. RowKey(s[i]) = RowKey(s[n + j])
      BY <1>2, <1>3
    <3>2. i = n + j
      BY <1>5, <2>1, <3>1
    <3> QED
      BY <1>5, <3>2
  <2> QED
    BY <2>2, <2>3, <2>4
<1>9. InCell(s) => InCell(t) /\ InCell(u)
  BY <1>2, <1>3, <1>7, KeysAre
<1> QED
  BY <1>1, <1>2, <1>3, <1>6, <1>7, <1>8, <1>9

\* The rows of s that are not found.
Left(s, found) == FlattenSeq([i \in DOMAIN s |-> IF Present(s[i], found) THEN <<>> ELSE <<s[i]>>])

LEMMA LeftAre ==
    ASSUME NEW s \in Seq(RowType), NEW found, NEW t, t = Left(s, found)
    PROVE  /\ t \in Seq(RowType) /\ Items(t) = {r \in Items(s) : ~Present(r, found)}
           /\ NoneTwice(s) => NoneTwice(t)
<1>1. PICK u : u = [i \in DOMAIN s |-> IF Present(s[i], found) THEN <<>> ELSE <<s[i]>>]
  OBVIOUS
<1>2. t = FlattenSeq(u)
  BY <1>1 DEF Left
<1>3. \A i \in DOMAIN s : s[i] \in RowType
  OBVIOUS
<1>4. DOMAIN u = DOMAIN s /\ \A i \in DOMAIN u : IF Present(s[i], found) THEN u[i] = <<>> ELSE u[i] = <<s[i]>>
  BY <1>1
<1>5. \A i \in DOMAIN u : u[i] \in Seq(RowType)
  <2> SUFFICES ASSUME NEW i \in DOMAIN u PROVE u[i] \in Seq(RowType)
    OBVIOUS
  <2>1. PICK r \in RowType : r = s[i]
    BY <1>3, <1>4
  <2>2. <<>> \in Seq(RowType) /\ <<r>> \in Seq(RowType)
    OBVIOUS
  <2> QED
    BY <1>4, <2>1, <2>2
<1>6. u \in Seq(Seq(RowType))
  <2>1. DOMAIN u = 1..Len(s) /\ Len(s) \in Nat
    BY <1>4
  <2> QED
    BY <1>1, <1>5, <2>1
<1>7. \A i \in DOMAIN u : Items(u[i]) = IF Present(s[i], found) THEN {} ELSE {s[i]}
  <2> SUFFICES ASSUME NEW i \in DOMAIN u PROVE Items(u[i]) = IF Present(s[i], found) THEN {} ELSE {s[i]}
    OBVIOUS
  <2>1. CASE Present(s[i], found)
    BY <1>4, <2>1 DEF Items
  <2>2. CASE ~Present(s[i], found)
    <3>1. u[i] = <<s[i]>>
      BY <1>4, <2>2
    <3>2. Items(<<s[i]>>) = {s[i]}
      BY DEF Items
    <3> QED
      BY <2>2, <3>1, <3>2
  <2> QED
    BY <2>1, <2>2
<1>8. /\ t \in Seq(RowType) /\ Items(t) = UNION {Items(u[i]) : i \in DOMAIN u}
      /\ \A key : /\ \A i \in DOMAIN u : Distinct(u[i], key)
                  /\ \A i, j \in DOMAIN u : i # j => Apart(u[i], u[j], key)
                  => Distinct(t, key)
  BY <1>2, <1>6, Flattened
<1>9. Items(t) = {r \in Items(s) : ~Present(r, found)}
  <2>1. \A r : r \in Items(t) <=> \E i \in DOMAIN s : r \in IF Present(s[i], found) THEN {} ELSE {s[i]}
    BY <1>4, <1>7, <1>8
  <2>2. \A r : r \in Items(t) <=> \E i \in DOMAIN s : r = s[i] /\ ~Present(s[i], found)
    BY <2>1
  <2> QED
    BY <2>2 DEF Items
<1>10. ASSUME NoneTwice(s) PROVE NoneTwice(t)
  <2>1. \A i \in DOMAIN u : \A a \in DOMAIN u[i] : a = 1 /\ u[i][a] = s[i]
    <3> SUFFICES ASSUME NEW i \in DOMAIN u, NEW a \in DOMAIN u[i] PROVE a = 1 /\ u[i][a] = s[i]
      OBVIOUS
    <3>1. CASE Present(s[i], found)
      BY <1>4, <3>1
    <3>2. CASE ~Present(s[i], found)
      <4>1. u[i] = <<s[i]>>
        BY <1>4, <3>2
      <4> QED
        BY <4>1
    <3> QED
      BY <3>1, <3>2
  <2>2. Distinct(s, Key)
    BY <1>10, KeysAre
  <2>3. \A i \in DOMAIN u : Distinct(u[i], Key)
    BY <2>1 DEF Distinct
  <2>4. ASSUME NEW i \in DOMAIN u, NEW j \in DOMAIN u, i # j PROVE Apart(u[i], u[j], Key)
    <3> SUFFICES ASSUME NEW a \in DOMAIN u[i], NEW b \in DOMAIN u[j] PROVE Key[u[i][a]] # Key[u[j][b]]
      BY DEF Apart
    <3>1. u[i][a] = s[i] /\ u[j][b] = s[j]
      BY <2>1
    <3>2. Key[s[i]] # Key[s[j]]
      BY <1>4, <2>2, <2>4 DEF Distinct
    <3> QED
      BY <3>1, <3>2
  <2>5. Distinct(t, Key)
    <3> HIDE DEF Key
    <3> QED
      BY <1>8, <2>3, <2>4
  <2> QED
    BY <1>8, <2>5, KeysAre
<1> QED
  BY <1>8, <1>9, <1>10

-----------------------------------------------------------------------------
\* The rows of all events.
PlanOf(found) == FlattenSeq([i \in DOMAIN events |-> Bridged(events[i], found)])

LEMMA PlanIs ==
    ASSUME FeedbackTypeOK, NEW found \in [Grades -> Cells \X SUBSET Components],
           \A g \in Grades : found[g] \in Lookups(g), NEW plan, plan = PlanOf(found)
    PROVE  /\ plan \in Seq(RowType)
           /\ \A r \in Items(plan) : r.of \in Logged /\ r.of \in Grades
           /\ (\A i, j \in DOMAIN events : events[i].of \in Grades /\ events[i].of = events[j].of => i = j)
                => NoneTwice(plan)
           /\ Packed /\ Reading => /\ InCell(plan)
                                   /\ \A g \in Logged \ Governed : Fan(g) \subseteq KeysOf(plan)
<1>1. \A i \in DOMAIN events : /\ events[i].of \in Grades \cup Governed /\ events[i].packed \in BOOLEAN
                               /\ events[i] = Event(events[i].of, events[i].packed)
  <2> SUFFICES ASSUME NEW i \in DOMAIN events
               PROVE  /\ events[i].of \in Grades \cup Governed /\ events[i].packed \in BOOLEAN
                      /\ events[i] = Event(events[i].of, events[i].packed)
    OBVIOUS
  <2>1. PICK x \in EventType : x = events[i]
    BY DEF FeedbackTypeOK
  <2>2. x.of \in Grades \cup Governed /\ x.packed \in BOOLEAN /\ x = [of |-> x.of, packed |-> x.packed]
    BY DEF EventType
  <2> QED
    BY <2>1, <2>2 DEF Event
<1> DEFINE Made(i) == Bridged(events[i], found)
<1>2. ASSUME NEW i \in DOMAIN events
      PROVE  /\ Made(i) \in Seq(RowType) /\ Distinct(Made(i), Key)
             /\ \A r \in Items(Made(i)) : events[i].of \in Grades /\ r.of = events[i].of
             /\ events[i].of \in Grades =>
                  \E r \in Items(Made(i)) : RowKey(r) = <<events[i].of, PackBuilder>>
             /\ events[i].of \in Grades /\ events[i].packed =>
                  \A c \in found[events[i].of][2] : \E r \in Items(Made(i)) : RowKey(r) = <<events[i].of, c>>
             /\ Packed /\ Reading => \A r \in Items(Made(i)) : r.cell = CellOf(r.of)
  <2>1. PICK g \in Grades \cup Governed, p \in BOOLEAN : g = events[i].of /\ p = events[i].packed
    BY <1>1
  <2>0. PICK e : e = events[i] /\ e = Event(g, p)
    BY <1>1, <2>1
  <2>2. g \in Grades => found[g] \in Lookups(g)
    OBVIOUS
  <2>3. /\ Bridged(e, found) \in Seq(RowType) /\ Distinct(Bridged(e, found), Key)
        /\ \A r \in Items(Bridged(e, found)) : g \in Grades /\ r.of = g
        /\ g \in Grades => \E r \in Items(Bridged(e, found)) : RowKey(r) = <<g, PackBuilder>>
        /\ g \in Grades /\ p =>
             \A c \in found[g][2] : \E r \in Items(Bridged(e, found)) : RowKey(r) = <<g, c>>
        /\ Reading /\ (g \in Grades => (p <=> Served[g] # {})) =>
             \A r \in Items(Bridged(e, found)) : r.cell = CellOf(g)
    BY <2>0, <2>2, BridgedIs
  <2>4. Packed => (g \in Grades => (p <=> Served[g] # {}))
    BY <2>1 DEF Packed
  <2> QED
    BY <2>0, <2>1, <2>3, <2>4
<1>3. PICK s : s = [i \in DOMAIN events |-> Made(i)]
  OBVIOUS
<1>4. plan = FlattenSeq(s)
  BY <1>3 DEF PlanOf
<1>5. DOMAIN s = DOMAIN events /\ \A i \in DOMAIN s : s[i] = Made(i)
  BY <1>3
<1> HIDE DEF Made
<1>6. s \in Seq(Seq(RowType))
  <2>1. DOMAIN s = 1..Len(events) /\ Len(events) \in Nat
    BY <1>5 DEF FeedbackTypeOK
  <2>2. \A i \in DOMAIN s : s[i] \in Seq(RowType)
    BY <1>2, <1>5
  <2> QED
    BY <1>3, <2>1, <2>2
<1>7. /\ plan \in Seq(RowType) /\ Items(plan) = UNION {Items(s[i]) : i \in DOMAIN s}
      /\ \A key : /\ \A i \in DOMAIN s : Distinct(s[i], key)
                  /\ \A i, j \in DOMAIN s : i # j => Apart(s[i], s[j], key)
                  => Distinct(plan, key)
  BY <1>4, <1>6, Flattened
<1>8. \A r \in Items(plan) : \E i \in DOMAIN events : r \in Items(Made(i))
  BY <1>5, <1>7
<1>9. \A i \in DOMAIN events : Items(Made(i)) \subseteq Items(plan)
  BY <1>5, <1>7
<1>10. \A i \in DOMAIN events : events[i].of \in Logged
  BY DEF Logged
<1>11. \A r \in Items(plan) : r.of \in Logged /\ r.of \in Grades
  BY <1>2, <1>8, <1>10
<1>12. ASSUME \A i, j \in DOMAIN events : events[i].of \in Grades /\ events[i].of = events[j].of => i = j
       PROVE  NoneTwice(plan)
  <2>1. \A i \in DOMAIN s : Distinct(s[i], Key)
    BY <1>2, <1>5
  <2>2. ASSUME NEW i \in DOMAIN s, NEW j \in DOMAIN s, i # j PROVE Apart(s[i], s[j], Key)
    <3> SUFFICES ASSUME NEW a \in DOMAIN s[i], NEW b \in DOMAIN s[j], Key[s[i][a]] = Key[s[j][b]] PROVE FALSE
      BY DEF Apart
    <3>1. PICK x, y : x = s[i][a] /\ y = s[j][b]
      OBVIOUS
    <3>2. x \in Items(Made(i)) /\ y \in Items(Made(j))
      BY <1>5, <3>1 DEF Items
    <3>3. x \in RowType /\ y \in RowType
      <4>1. x \in Items(plan) /\ y \in Items(plan)
        BY <1>5, <1>9, <3>2
      <4>2. Items(plan) \subseteq RowType
        BY <1>7, KeysAre
      <4> QED
        BY <4>1, <4>2
    <3>4. x.of = y.of
      BY <3>1, <3>3, KeyIs
    <3>5. x.of = events[i].of /\ y.of = events[j].of /\ events[i].of \in Grades
      BY <1>2, <1>5, <3>2
    <3> QED
      BY <1>5, <1>12, <2>2, <3>4, <3>5
  <2>3. Distinct(plan, Key)
    <3> HIDE DEF Key
    <3> QED
      BY <1>7, <2>1, <2>2
  <2> QED
    BY <1>7, <2>3, KeysAre
<1>13. ASSUME Packed, Reading
       PROVE  InCell(plan) /\ \A g \in Logged \ Governed : Fan(g) \subseteq KeysOf(plan)
  <2>1. InCell(plan)
    <3>1. \A r \in Items(plan) : r.cell = CellOf(r.of)
      BY <1>2, <1>8, <1>13
    <3> QED
      BY <1>7, <3>1, KeysAre
  <2>2. ASSUME NEW g \in Logged \ Governed, NEW c \in {PackBuilder} \cup Served[g]
        PROVE  <<g, c>> \in KeysOf(plan)
    <3>1. PICK i \in DOMAIN events : events[i].of = g
      BY DEF Logged
    <3>2. g \in Grades
      BY <1>1, <3>1
    <3>3. KeysOf(plan) = {RowKey(r) : r \in Items(plan)}
      BY <1>7, KeysAre
    <3>4. CASE c = PackBuilder
      BY <1>2, <1>9, <3>1, <3>2, <3>3, <3>4
    <3>5. CASE c \in Served[g]
      <4>1. events[i].packed
        BY <1>13, <3>1, <3>2, <3>5 DEF Packed
      <4>2. found[g][2] = Served[g]
        <5>1. PICK f \in Lookups(g) : f = found[g]
          BY <3>2
        <5>2. f[2] = Served[g]
          BY <1>13, <3>2, LookupsAre
        <5> QED
          BY <5>1, <5>2
      <4>3. \E r \in Items(Made(i)) : RowKey(r) = <<g, c>>
        BY <1>2, <3>1, <3>2, <3>5, <4>1, <4>2
      <4> QED
        BY <1>9, <3>3, <4>3
    <3> QED
      BY <3>4, <3>5
  <2> QED
    BY <2>1, <2>2 DEF Fan
<1> QED
  BY <1>7, <1>11, <1>12, <1>13

\* The first rows are rows, and with room for all of them they are all.
LEMMA FirstRowsAre ==
    ASSUME FeedbackTypeOK, NEW n \in Nat
    PROVE  /\ FirstRows(n) \subseteq Items(rows)
           /\ Len(rows) < n => FirstRows(n) = Items(rows)
<1>1. PICK m \in Nat : m = Len(rows) /\ DOMAIN rows = 1..m
  BY DEF FeedbackTypeOK
<1> DEFINE Before(j, i) == rows[j].of < rows[i].of \/ (rows[j].of = rows[i].of /\ j < i)
           Earlier(i) == {j \in DOMAIN rows : Before(j, i)}
           First == {i \in DOMAIN rows : Cardinality(Earlier(i)) < n}
<1>2. FirstRows(n) = {rows[i] : i \in First}
  BY DEF FirstRows
<1>3. ASSUME m < n PROVE First = DOMAIN rows
  <2> SUFFICES ASSUME NEW i \in DOMAIN rows PROVE Cardinality(Earlier(i)) < n
    OBVIOUS
  <2>1. Earlier(i) \subseteq 1..m
    BY <1>1
  <2>2. IsFiniteSet(1..m) /\ Cardinality(1..m) = m
    BY FS_Interval
  <2>3. Cardinality(Earlier(i)) \in Nat /\ Cardinality(Earlier(i)) <= m
    <3> HIDE DEF Earlier
    <3> QED
      BY <2>1, <2>2, FS_Subset, FS_CardinalityType
  <2> HIDE DEF Earlier
  <2> QED
    BY <1>3, <2>3
<1> HIDE DEF First
<1>4. First \subseteq DOMAIN rows
  BY DEF First
<1> QED
  BY <1>1, <1>2, <1>3, <1>4 DEF Items

-----------------------------------------------------------------------------
(* Types.                                                                  *)

LEMMA EventIs ==
    ASSUME NEW g \in Grades \cup Governed, NEW p \in BOOLEAN
    PROVE  Event(g, p) \in EventType /\ Event(g, p).of = g /\ Event(g, p).packed = p
BY DEF Event, EventType

\* The events before any call: the old grades', and those of the governed.
LEMMA FirstEvents ==
    ASSUME FeedbackInit
    PROVE  /\ events \in Seq(EventType) /\ Logged = InFile \cup Governed /\ Packed
           /\ \A i, j \in DOMAIN events : events[i].of = events[j].of => i = j
           /\ lines \in [Grades -> Nat] /\ InFile \subseteq Grades
           /\ call = [g \in Grades |-> [pc |-> IF g \in InFile THEN "done" ELSE "new",
                                        cell |-> "unscoped", todo |-> {}]]
<1>0. PICK n \in 0..Cardinality(Grades) :
            /\ lines = [g \in Grades |-> IF g \in 1..n THEN 1 ELSE 0]
            /\ events = [i \in 1..n |-> Event(i, Served[i] # {})]
                          \o SetToSeq({Event(g, FALSE) : g \in Governed})
            /\ call = [g \in Grades |-> [pc |-> IF g \in 1..n THEN "done" ELSE "new",
                                         cell |-> "unscoped", todo |-> {}]]
  <2>1. PICK old \in {1..n : n \in 0..Cardinality(Grades)} :
          /\ lines = [g \in Grades |-> IF g \in old THEN 1 ELSE 0]
          /\ events = [i \in old |-> Event(i, Served[i] # {})]
                        \o SetToSeq({Event(g, FALSE) : g \in Governed})
          /\ call = [g \in Grades |-> [pc |-> IF g \in old THEN "done" ELSE "new",
                                       cell |-> "unscoped", todo |-> {}]]
    BY DEF FeedbackInit
  <2>2. PICK n \in 0..Cardinality(Grades) : old = 1..n
    BY <2>1
  <2> QED
    BY <2>1, <2>2
<1>3. n \in Nat /\ 1..n \subseteq Grades
  <2>1. Cardinality(Grades) \in Nat /\ Grades = 1..Cardinality(Grades)
    BY FeedbackConstants, FS_CardinalityType
  <2> QED
    BY <2>1
<1>1. /\ InFile = 1..n /\ lines \in [Grades -> Nat]
      /\ events = [i \in 1..n |-> Event(i, Served[i] # {})]
                    \o SetToSeq({Event(g, FALSE) : g \in Governed})
      /\ call = [g \in Grades |-> [pc |-> IF g \in 1..n THEN "done" ELSE "new",
                                   cell |-> "unscoped", todo |-> {}]]
  <2>1. \A g \in Grades : lines[g] = (IF g \in 1..n THEN 1 ELSE 0)
    BY <1>0
  <2>2. InFile = 1..n
    BY <1>3, <2>1 DEF InFile
  <2>3. lines \in [Grades -> Nat]
    BY <1>0
  <2> QED
    BY <1>0, <2>2, <2>3
<1>2. PICK s, G, t : /\ s = [i \in 1..n |-> Event(i, Served[i] # {})]
                     /\ G = {Event(g, FALSE) : g \in Governed} /\ t = SetToSeq(G)
  OBVIOUS
<1>4. /\ s \in Seq(EventType) /\ DOMAIN s = 1..n
      /\ \A i \in 1..n : s[i].of = i /\ (s[i].packed <=> Served[i] # {})
  <2>1. \A i \in 1..n : s[i] = Event(i, Served[i] # {}) /\ i \in Grades \cup Governed
    BY <1>2, <1>3
  <2>2. \A i \in 1..n : /\ s[i] \in EventType /\ s[i].of = i
                        /\ (s[i].packed <=> Served[i] # {})
    <3> SUFFICES ASSUME NEW i \in 1..n
                 PROVE  s[i] \in EventType /\ s[i].of = i /\ (s[i].packed <=> Served[i] # {})
      OBVIOUS
    <3>1. PICK p \in BOOLEAN : p = (Served[i] # {})
      OBVIOUS
    <3>2. s[i] = Event(i, p) /\ i \in Grades \cup Governed
      BY <2>1, <3>1
    <3>3. Event(i, p) \in EventType /\ Event(i, p).of = i /\ Event(i, p).packed = p
      BY <3>2, EventIs
    <3> QED
      BY <3>1, <3>2, <3>3
  <2> QED
    BY <1>2, <1>3, <2>2
<1>5. /\ t \in Seq(G) /\ Items(t) = G
      /\ \A i, j \in DOMAIN t : t[i] = t[j] => i = j
  <2>1. IsFiniteSet(Governed)
    BY FeedbackConstants
  <2>2. IsFiniteSet(G)
    <3>1. PICK f : f = [g \in Governed |-> Event(g, FALSE)]
      OBVIOUS
    <3>2. f \in Surjection(Governed, G)
      BY <1>2, <3>1 DEF Surjection
    <3> QED
      BY <2>1, <3>2, FS_Surjection
  <2> QED
    BY <1>2, <2>2, SetToSeqIs
<1>6. G \subseteq EventType /\ \A e \in G : e.of \in Governed /\ e.packed = FALSE /\ e = Event(e.of, FALSE)
  <2> SUFFICES ASSUME NEW e \in G
               PROVE  e \in EventType /\ e.of \in Governed /\ e.packed = FALSE /\ e = Event(e.of, FALSE)
    OBVIOUS
  <2>1. PICK g \in Governed : e = Event(g, FALSE)
    BY <1>2
  <2>2. e \in EventType /\ e.of = g /\ e.packed = FALSE
    BY <2>1, EventIs
  <2> QED
    BY <2>1, <2>2
<1>7. \A g \in Governed : Event(g, FALSE) \in G /\ Event(g, FALSE).of = g
  BY <1>2, EventIs
<1> HIDE DEF Event
<1>8. t \in Seq(EventType)
  BY <1>5, <1>6
<1>9. PICK key : key = [e \in EventType |-> e.of]
  OBVIOUS
<1>10. \A i \in DOMAIN t : t[i] \in G /\ key[t[i]] = t[i].of
  BY <1>5, <1>6, <1>9
<1>11. Distinct(t, key)
  <2> SUFFICES ASSUME NEW i \in DOMAIN t, NEW j \in DOMAIN t, key[t[i]] = key[t[j]] PROVE i = j
    BY DEF Distinct
  <2>1. t[i] = t[j]
    BY <1>6, <1>10
  <2> QED
    BY <1>5, <2>1
<1>12. \A i \in DOMAIN s : key[s[i]] = i /\ i \in Grades
  BY <1>3, <1>4, <1>9
<1>13. Distinct(s, key)
  BY <1>12 DEF Distinct
<1>14. Apart(s, t, key)
  <2>1. Grades \cap Governed = {}
    BY FeedbackConstants
  <2> QED
    <3> SUFFICES ASSUME NEW i \in DOMAIN s, NEW j \in DOMAIN t PROVE key[s[i]] # key[t[j]]
      BY DEF Apart
    <3>1. key[s[i]] \in Grades
      BY <1>12
    <3>2. key[t[j]] \in Governed
      BY <1>6, <1>10
    <3> QED
      BY <2>1, <3>1, <3>2
<1>15. events = s \o t
  BY <1>1, <1>2
<1>16. /\ s \o t \in Seq(EventType) /\ Items(s \o t) = Items(s) \cup Items(t)
       /\ Distinct(s \o t, key)
  BY <1>4, <1>8, <1>11, <1>13, <1>14, Joined
<1>17. \A i \in DOMAIN events : events[i] \in EventType /\ events[i] \in Items(s) \cup G
  BY <1>5, <1>15, <1>16 DEF Items
<1>18. \A i, j \in DOMAIN events : events[i].of = events[j].of => i = j
  BY <1>9, <1>15, <1>16, <1>17 DEF Distinct
<1>19. Packed
  <2> SUFFICES ASSUME NEW i \in DOMAIN events
               PROVE  events[i].packed <=> events[i].of \in Grades /\ Served[events[i].of] # {}
    BY DEF Packed
  <2>1. CASE events[i] \in Items(s)
    <3>1. PICK k \in 1..n : events[i] = s[k]
      BY <1>4, <2>1 DEF Items
    <3> QED
      BY <1>3, <1>4, <3>1
  <2>2. CASE events[i] \in G
    <3>1. Grades \cap Governed = {}
      BY FeedbackConstants
    <3> QED
      BY <1>6, <2>2, <3>1
  <2> QED
    BY <1>17, <2>1, <2>2
<1>20. Logged = InFile \cup Governed
  <2>1. Logged = {e.of : e \in Items(s \o t)}
    BY <1>15 DEF Logged, Items
  <2>2. {e.of : e \in Items(s)} = 1..n
    BY <1>4 DEF Items
  <2>3. {e.of : e \in G} = Governed
    BY <1>6, <1>7
  <2>4. Logged = {e.of : e \in Items(s)} \cup {e.of : e \in G}
    BY <1>5, <1>16, <2>1
  <2> QED
    BY <1>1, <2>2, <2>3, <2>4
<1> QED
  BY <1>1, <1>3, <1>15, <1>16, <1>18, <1>19, <1>20

LEMMA TypesAtFirst == FeedbackInit => FeedbackTypeOK
<1> SUFFICES ASSUME FeedbackInit PROVE FeedbackTypeOK
  OBVIOUS
<1>1. events \in Seq(EventType) /\ lines \in [Grades -> Nat]
  BY FirstEvents
<1>2. call \in [Grades -> CallType]
  <2>1. call = [g \in Grades |-> [pc |-> IF g \in InFile THEN "done" ELSE "new",
                                   cell |-> "unscoped", todo |-> {}]]
    BY FirstEvents
  <2> QED
    BY <2>1 DEF CallType, Stages, Cells
<1>3. recon \in [Reconcilers -> ReconType]
  BY DEF FeedbackInit, ReconType
<1>4. rows \in Seq(RowType) /\ fill = [pc |-> "idle", seen |-> {}, plan |-> <<>>, count |-> 0]
      /\ passes \in Nat /\ env \in Modes /\ <<>> \in Seq(RowType)
  BY DEF FeedbackInit
<1>5. fill \in FillType
  BY <1>4 DEF FillType
<1> QED
  BY <1>1, <1>2, <1>3, <1>4, <1>5 DEF FeedbackTypeOK

LEMMA CallTyped ==
    ASSUME FeedbackTypeOK, NEW g \in Grades, Call(g)
    PROVE  FeedbackTypeOK'
<1>1. /\ env \in Modes /\ lines \in [Grades -> Nat] /\ events \in Seq(EventType) /\ rows \in Seq(RowType)
      /\ call \in [Grades -> CallType] /\ recon \in [Reconcilers -> ReconType] /\ fill \in FillType
      /\ passes \in Nat
  BY DEF FeedbackTypeOK
<1>2. ASSUME NEW f \in Lookups(g), Recorded(Row(g, PackBuilder, f[1])) PROVE rows' \in Seq(RowType)
  <2>1. PICK r \in RowType : r = Row(g, PackBuilder, f[1])
    BY LookupsAre, RowIs, PackThere DEF PackIsComponent
  <2>2. rows' = Append(rows, r) \/ rows' = rows
    BY <1>2, <2>1 DEF Recorded
  <2>3. Append(rows, r) \in Seq(RowType)
    BY <1>1, AppendedRow
  <2> QED
    BY <1>1, <2>2, <2>3
<1>3. ASSUME NEW c \in call[g].todo, Recorded(Row(g, c, call[g].cell)) PROVE rows' \in Seq(RowType)
  <2>1. call[g].cell \in Cells /\ c \in Components
    BY <1>1 DEF CallType
  <2>2. PICK r \in RowType : r = Row(g, c, call[g].cell)
    BY <2>1, RowIs
  <2>3. rows' = Append(rows, r) \/ rows' = rows
    BY <1>3, <2>2 DEF Recorded
  <2>4. Append(rows, r) \in Seq(RowType)
    BY <1>1, AppendedRow
  <2> QED
    BY <1>1, <2>3, <2>4
<1>4. \A pc \in Stages : Stage(g, pc) => call' \in [Grades -> CallType]
  BY <1>1 DEF Stage, CallType
<1>5. "check" \in Stages /\ "emit" \in Stages /\ "pack" \in Stages /\ "fan" \in Stages /\ "done" \in Stages
  BY DEF Stages
<1> SUFFICES /\ env' = env /\ lines' \in [Grades -> Nat] /\ events' \in Seq(EventType) /\ rows' \in Seq(RowType)
             /\ call' \in [Grades -> CallType] /\ UNCHANGED <<recon, fill, passes>>
  BY <1>1 DEF FeedbackTypeOK
<1>6. CASE AppendLine(g)
  <2>1. lines' = [lines EXCEPT ![g] = @ + 1] /\ lines \in [Grades -> Nat]
    BY <1>1, <1>6 DEF AppendLine
  <2>2. lines' \in [Grades -> Nat]
    BY <2>1
  <2> QED
    BY <1>1, <1>4, <1>5, <1>6, <2>2 DEF AppendLine
<1>7. CASE CheckEvent(g)
  BY <1>1, <1>4, <1>5, <1>7 DEF CheckEvent
<1>8. CASE EmitEvent(g)
  <2>1. PICK p \in BOOLEAN : p = (Served[g] # {})
    OBVIOUS
  <2>2. PICK e \in EventType : e = Event(g, p)
    BY EventIs
  <2>3. events' = Append(events, e) \/ events' = events
    BY <1>8, <2>1, <2>2 DEF EmitEvent
  <2>4. events' \in Seq(EventType)
    <3>1. events \in Seq(EventType)
      BY <1>1
    <3> QED
      BY <2>3, <3>1
  <2> QED
    BY <1>1, <1>4, <1>5, <1>8, <2>4 DEF EmitEvent
<1>9. CASE PackRow(g)
  <2>1. PICK f \in Lookups(g) :
          /\ Recorded(Row(g, PackBuilder, f[1]))
          /\ call' = [call EXCEPT ![g] = [pc |-> IF f[2] = {} THEN "done" ELSE "fan",
                                          cell |-> f[1], todo |-> f[2]]]
    BY <1>9 DEF PackRow
  <2>2. rows' \in Seq(RowType)
    BY <1>2, <2>1
  <2>3. f[1] \in Cells /\ f[2] \subseteq Components
    BY LookupsAre
  <2>4. call' \in [Grades -> CallType]
    BY <1>1, <1>5, <2>1, <2>3 DEF CallType
  <2> QED
    BY <1>1, <1>9, <2>2, <2>4 DEF PackRow
<1>10. CASE StrategyRow(g)
  <2>1. PICK c \in call[g].todo :
          /\ Recorded(Row(g, c, call[g].cell))
          /\ call' = [call EXCEPT ![g].todo = @ \ {c}, ![g].pc = IF call[g].todo = {c} THEN "done" ELSE @]
    BY <1>10 DEF StrategyRow
  <2>2. rows' \in Seq(RowType)
    BY <1>3, <2>1
  <2>3. call' \in [Grades -> CallType]
    BY <1>1, <1>5, <2>1 DEF CallType
  <2> QED
    BY <1>1, <1>10, <2>2, <2>3 DEF StrategyRow
<1>11. CASE CallDies(g)
  BY <1>1, <1>4, <1>5, <1>11 DEF CallDies
<1> QED
  BY <1>6, <1>7, <1>8, <1>9, <1>10, <1>11 DEF Call

\* What a step of reconciler r leaves of its state, and of the others'.
Becomes(r, pc, loaded, todo, at, failed) ==
    /\ recon' \in [Reconcilers -> ReconType] /\ \A q \in Reconcilers : q # r => recon'[q] = recon[q]
    /\ recon'[r].pc = pc /\ recon'[r].lines = loaded /\ recon'[r].todo = todo
    /\ recon'[r].at = at /\ recon'[r].failed = failed

LEMMA Becoming ==
    ASSUME FeedbackTypeOK, NEW r \in Reconcilers, NEW R \in ReconType, recon' = [recon EXCEPT ![r] = R]
    PROVE  Becomes(r, R.pc, R.lines, R.todo, R.at, R.failed)
<1>1. recon \in [Reconcilers -> ReconType]
  BY DEF FeedbackTypeOK
<1>2. recon' \in [Reconcilers -> ReconType] /\ recon'[r] = R /\ \A q \in Reconcilers : q # r => recon'[q] = recon[q]
  BY <1>1
<1> QED
  BY <1>2 DEF Becomes

LEMMA ScanIs ==
    ASSUME FeedbackTypeOK, NEW r \in Reconcilers, Scan(r)
    PROVE  \E g \in Still(recon[r].todo), todo \in [Grades -> Nat] :
             /\ Still(todo) \subseteq Still(recon[r].todo) /\ Still(recon[r].todo) \subseteq Still(todo) \cup {g}
             /\ \/ g \in Logged /\ Becomes(r, "scan", recon[r].lines, todo, NoGrade, recon[r].failed)
                \/ g \notin Logged /\ Becomes(r, "emit", recon[r].lines, todo, g, recon[r].failed)
<1>1. PICK g \in Grades :
        /\ recon[r].todo[g] > 0
        /\ recon' = [recon EXCEPT ![r].todo[g] = @ - 1,
                                  ![r].pc = IF g \in Logged THEN "scan" ELSE "emit",
                                  ![r].at = IF g \in Logged THEN NoGrade ELSE g]
  BY DEF Scan
<1>2. recon \in [Reconcilers -> ReconType]
  BY DEF FeedbackTypeOK
<1>3. PICK R \in ReconType : R = recon[r]
  BY <1>2
<1>4. PICK todo : todo = [R.todo EXCEPT ![g] = @ - 1]
  OBVIOUS
<1>5. R.todo \in [Grades -> Nat] /\ R.todo[g] > 0
  BY <1>1, <1>3 DEF ReconType
<1>6. /\ todo \in [Grades -> Nat] /\ \A h \in Grades : h # g => todo[h] = R.todo[h]
      /\ todo[g] = R.todo[g] - 1
  BY <1>4, <1>5
<1>7. /\ g \in Still(R.todo) /\ Still(todo) \subseteq Still(R.todo)
      /\ Still(R.todo) \subseteq Still(todo) \cup {g}
  BY <1>5, <1>6 DEF Still
<1>8. CASE g \in Logged
  <2>1. PICK T : T = [R EXCEPT !.todo = todo, !.pc = "scan", !.at = NoGrade]
    OBVIOUS
  <2>2. T \in ReconType
    BY <1>6, <2>1 DEF ReconType
  <2>3. T.pc = "scan" /\ T.lines = R.lines /\ T.todo = todo /\ T.at = NoGrade /\ T.failed = R.failed
    BY <2>1 DEF ReconType
  <2>4. recon' = [recon EXCEPT ![r] = T]
    BY <1>1, <1>2, <1>3, <1>4, <1>8, <2>1
  <2> QED
    BY <1>3, <1>6, <1>7, <1>8, <2>2, <2>3, <2>4, Becoming
<1>9. CASE g \notin Logged
  <2>1. PICK T : T = [R EXCEPT !.todo = todo, !.pc = "emit", !.at = g]
    OBVIOUS
  <2>2. T \in ReconType
    BY <1>6, <2>1 DEF ReconType
  <2>3. T.pc = "emit" /\ T.lines = R.lines /\ T.todo = todo /\ T.at = g /\ T.failed = R.failed
    BY <2>1 DEF ReconType
  <2>4. recon' = [recon EXCEPT ![r] = T]
    BY <1>1, <1>2, <1>3, <1>4, <1>9, <2>1
  <2> QED
    BY <1>3, <1>6, <1>7, <1>9, <2>2, <2>3, <2>4, Becoming
<1> QED
  BY <1>8, <1>9

LEMMA ReEmitIs ==
    ASSUME FeedbackTypeOK, NEW r \in Reconcilers, ReEmit(r), recon[r].at \in Grades
    PROVE  \/ /\ \E e \in EventType : /\ e.of = recon[r].at /\ (e.packed <=> Served[recon[r].at] # {})
                                     /\ events' = Append(events, e)
              /\ Becomes(r, "scan", recon[r].lines, recon[r].todo, NoGrade, recon[r].failed)
           \/ /\ events' = events
              /\ Becomes(r, "scan", recon[r].lines, recon[r].todo, NoGrade, recon[r].failed \cup {recon[r].at})
<1>1. recon \in [Reconcilers -> ReconType]
  BY DEF FeedbackTypeOK
<1>2. PICK R \in ReconType : R = recon[r]
  BY <1>1
<1>3. CASE events' = Append(events, Replayed(recon[r].at)) /\ recon' = [recon EXCEPT ![r].pc = "scan", ![r].at = NoGrade]
  <2>1. PICK T : T = [R EXCEPT !.pc = "scan", !.at = NoGrade]
    OBVIOUS
  <2>2. T \in ReconType
    BY <2>1 DEF ReconType
  <2>3. T.pc = "scan" /\ T.lines = R.lines /\ T.todo = R.todo /\ T.at = NoGrade /\ T.failed = R.failed
    BY <2>1 DEF ReconType
  <2>4. recon' = [recon EXCEPT ![r] = T]
    BY <1>1, <1>2, <1>3, <2>1
  <2>5. Becomes(r, "scan", recon[r].lines, recon[r].todo, NoGrade, recon[r].failed)
    BY <1>2, <2>2, <2>3, <2>4, Becoming
  <2>6. PICK p \in BOOLEAN, g \in Grades : p = (Served[recon[r].at] # {}) /\ g = recon[r].at
    OBVIOUS
  <2>7. PICK e : e = Event(g, p)
    OBVIOUS
  <2>8. e \in EventType /\ e.of = g /\ e.packed = p
    BY <2>7, EventIs
  <2>9. events' = Append(events, e)
    BY <1>3, <2>6, <2>7 DEF Replayed
  <2> QED
    BY <2>5, <2>6, <2>8, <2>9
<1>4. CASE /\ events' = events
           /\ recon' = [recon EXCEPT ![r].pc = "scan", ![r].at = NoGrade, ![r].failed = @ \cup {recon[r].at}]
  <2>1. PICK T : T = [R EXCEPT !.pc = "scan", !.at = NoGrade, !.failed = R.failed \cup {R.at}]
    OBVIOUS
  <2>2. T \in ReconType
    BY <1>2, <2>1 DEF ReconType
  <2>3. /\ T.pc = "scan" /\ T.lines = R.lines /\ T.todo = R.todo /\ T.at = NoGrade
        /\ T.failed = R.failed \cup {R.at}
    BY <2>1 DEF ReconType
  <2>4. recon' = [recon EXCEPT ![r] = T]
    BY <1>1, <1>2, <1>4, <2>1
  <2>5. Becomes(r, "scan", recon[r].lines, recon[r].todo, NoGrade, recon[r].failed \cup {recon[r].at})
    BY <1>2, <2>2, <2>3, <2>4, Becoming
  <2> QED
    BY <1>4, <2>5
<1> QED
  BY <1>3, <1>4 DEF ReEmit

\* A pass that begins or ends.
LEMMA PassIs ==
    ASSUME FeedbackTypeOK, NEW r \in Reconcilers
    PROVE  /\ LoadLines(r) => Becomes(r, "scan", InFile, lines, NoGrade, {})
           /\ Report(r) => Becomes(r, "done", recon[r].lines, recon[r].todo, recon[r].at, recon[r].failed)
           /\ ReconcileStops(r) => Becomes(r, "idle", recon[r].lines, recon[r].todo, recon[r].at, recon[r].failed)
<1>1. recon \in [Reconcilers -> ReconType] /\ lines \in [Grades -> Nat] /\ InFile \subseteq Grades
  BY DEF FeedbackTypeOK, InFile
<1>2. PICK R \in ReconType : R = recon[r]
  BY <1>1
<1>3. ASSUME LoadLines(r) PROVE Becomes(r, "scan", InFile, lines, NoGrade, {})
  <2>1. PICK T : T = [pc |-> "scan", lines |-> InFile, todo |-> lines, at |-> NoGrade, failed |-> {}]
    OBVIOUS
  <2>2. /\ T \in ReconType /\ T.pc = "scan" /\ T.lines = InFile /\ T.todo = lines
        /\ T.at = NoGrade /\ T.failed = {}
    BY <1>1, <2>1 DEF ReconType
  <2>3. recon' = [recon EXCEPT ![r] = T]
    BY <1>3, <2>1 DEF LoadLines
  <2> QED
    BY <2>2, <2>3, Becoming
<1>4. ASSUME NEW pc \in {"idle", "done"}, recon' = [recon EXCEPT ![r].pc = pc]
      PROVE  Becomes(r, pc, recon[r].lines, recon[r].todo, recon[r].at, recon[r].failed)
  <2>1. PICK T : T = [R EXCEPT !.pc = pc]
    OBVIOUS
  <2>2. /\ T \in ReconType /\ T.pc = pc /\ T.lines = R.lines /\ T.todo = R.todo
        /\ T.at = R.at /\ T.failed = R.failed
    BY <1>4, <2>1 DEF ReconType
  <2>3. recon' = [recon EXCEPT ![r] = T]
    BY <1>1, <1>2, <1>4, <2>1
  <2> QED
    BY <1>2, <2>2, <2>3, Becoming
<1> QED
  BY <1>3, <1>4 DEF Report, ReconcileStops

LEMMA ReconcileTyped ==
    ASSUME FeedbackTypeOK, Lined, NEW r \in Reconcilers, Reconcile(r)
    PROVE  FeedbackTypeOK'
<1>1. /\ env \in Modes /\ lines \in [Grades -> Nat] /\ events \in Seq(EventType) /\ rows \in Seq(RowType)
      /\ call \in [Grades -> CallType] /\ recon \in [Reconcilers -> ReconType] /\ fill \in FillType
      /\ passes \in Nat
  BY DEF FeedbackTypeOK
<1> SUFFICES /\ UNCHANGED <<env, lines, rows, call, fill>> /\ events' \in Seq(EventType)
             /\ recon' \in [Reconcilers -> ReconType] /\ passes' \in Nat
  BY <1>1 DEF FeedbackTypeOK
<1>2. CASE LoadLines(r)
  <2>1. recon' \in [Reconcilers -> ReconType]
    BY <1>2, PassIs DEF Becomes
  <2> QED
    BY <1>1, <1>2, <2>1 DEF LoadLines, BeginPass
<1>3. CASE Scan(r)
  BY <1>1, <1>3, ScanIs DEF Scan, Becomes
<1>4. CASE ReEmit(r)
  <2>1. recon[r].at \in Grades
    BY <1>1, <1>4 DEF ReEmit, Lined, InFile
  <2>2. recon' \in [Reconcilers -> ReconType] /\ (events' = events \/ \E e \in EventType : events' = Append(events, e))
    BY <1>4, <2>1, ReEmitIs DEF Becomes
  <2>3. events' \in Seq(EventType)
    <3>1. events \in Seq(EventType)
      BY <1>1
    <3> QED
      BY <2>2, <3>1
  <2> QED
    BY <1>1, <1>4, <2>2, <2>3 DEF ReEmit
<1>5. CASE Report(r)
  BY <1>1, <1>5, PassIs DEF Report, Becomes
<1>6. CASE ReconcileStops(r)
  BY <1>1, <1>6, PassIs DEF ReconcileStops, Becomes
<1> QED
  BY <1>2, <1>3, <1>4, <1>5, <1>6 DEF Reconcile

\* The rows query finds a place for, less those it has: what stays planned.
Pending(n) == Left(fill.plan, FirstRows(n))

LEMMA QueryIs ==
    ASSUME FeedbackTypeOK, QueryRows
    PROVE  /\ Pending(fill.count + 1) \in Seq(RowType)
           /\ fill' = [fill EXCEPT !.plan = Pending(fill.count + 1), !.count = 0,
                                   !.pc = IF Pending(fill.count + 1) = <<>> THEN "done" ELSE "write"]
           /\ UNCHANGED <<env, lines, events, rows, call, recon, passes>>
<1>1. fill.plan \in Seq(RowType)
  BY DEF FeedbackTypeOK, FillType
<1>2. Pending(fill.count + 1) \in Seq(RowType)
  BY <1>1, LeftAre DEF Pending
<1> QED
  BY <1>2 DEF QueryRows, Pending, Left, Oldest

LEMMA BackfillTyped ==
    ASSUME FeedbackTypeOK, Backfill
    PROVE  FeedbackTypeOK'
<1>1. /\ env \in Modes /\ lines \in [Grades -> Nat] /\ events \in Seq(EventType) /\ rows \in Seq(RowType)
      /\ call \in [Grades -> CallType] /\ recon \in [Reconcilers -> ReconType] /\ fill \in FillType
      /\ passes \in Nat
  BY DEF FeedbackTypeOK
<1>2. fill.plan \in Seq(RowType) /\ fill.seen \subseteq Grades /\ fill.count \in Nat /\ <<>> \in Seq(RowType)
  BY <1>1 DEF FillType
<1> SUFFICES /\ UNCHANGED <<env, lines, events, call, recon>> /\ rows' \in Seq(RowType)
             /\ fill' \in FillType /\ passes' \in Nat
  BY <1>1 DEF FeedbackTypeOK
<1>3. CASE Plan
  <2>1. PICK found \in [Grades -> Cells \X SUBSET Components] :
          /\ \A g \in Grades : found[g] \in Lookups(g)
          /\ fill' = [pc |-> "count", seen |-> Logged \ Governed, count |-> 0, plan |-> PlanOf(found)]
    BY <1>3 DEF Plan, PlanOf
  <2>2. PICK plan : plan = PlanOf(found)
    OBVIOUS
  <2>3. plan \in Seq(RowType)
    BY <2>1, <2>2, PlanIs
  <2>4. Logged \ Governed \subseteq Grades
    <3>1. \A i \in DOMAIN events : events[i] \in EventType
      BY <1>1
    <3> QED
      BY <3>1 DEF Logged, EventType
  <2>5. fill' \in FillType
    BY <2>1, <2>2, <2>3, <2>4 DEF FillType
  <2> QED
    BY <1>1, <1>3, <2>5 DEF Plan, BeginPass
<1>4. CASE CountRows
  <2>1. Len(rows) \in Nat
    BY <1>1
  <2> QED
    BY <1>1, <1>4, <2>1 DEF CountRows, FillType
<1>5. CASE QueryRows
  <2>1. PICK t \in Seq(RowType) : t = Pending(fill.count + 1)
    BY <1>5, QueryIs
  <2>2. /\ fill' = [fill EXCEPT !.plan = t, !.count = 0, !.pc = IF t = <<>> THEN "done" ELSE "write"]
        /\ UNCHANGED <<env, lines, events, rows, call, recon, passes>>
    BY <1>5, <2>1, QueryIs
  <2>3. fill' \in FillType
    BY <1>1, <2>2 DEF FillType
  <2> QED
    BY <1>1, <2>2, <2>3
<1>6. CASE WriteChunk
  <2>1. PICK n, t, u : /\ n = IF Len(fill.plan) < ChunkSize THEN Len(fill.plan) ELSE ChunkSize
                       /\ t = SubSeq(fill.plan, 1, n) /\ u = SubSeq(fill.plan, n + 1, Len(fill.plan))
    OBVIOUS
  <2>2. /\ rows' = rows \o t
        /\ fill' = [fill EXCEPT !.plan = u, !.pc = IF n = Len(fill.plan) THEN "done" ELSE fill.pc]
    BY <1>6, <2>1 DEF WriteChunk
  <2>3. n \in 0..Len(fill.plan)
    <3>1. Len(fill.plan) \in Nat /\ ChunkSize \in Nat
      BY <1>2, FeedbackConstants
    <3> QED
      BY <2>1, <3>1
  <2>4. t \in Seq(RowType) /\ u \in Seq(RowType)
    <3>1. Cut(fill.plan, n, t, u)
      BY <2>1, <2>3 DEF Cut
    <3> QED
      BY <1>2, <3>1, CutRows
  <2>5. rows' \in Seq(RowType)
    BY <1>1, <2>2, <2>4, JoinedRows
  <2>6. fill' \in FillType
    BY <1>1, <2>2, <2>4 DEF FillType
  <2> QED
    BY <1>1, <1>6, <2>5, <2>6 DEF WriteChunk
<1>7. CASE BackfillStops
  BY <1>1, <1>2, <1>7 DEF BackfillStops, FillType
<1> QED
  BY <1>3, <1>4, <1>5, <1>6, <1>7 DEF Backfill

-----------------------------------------------------------------------------
(* Events: a step adds one at most.                                        *)

LEMMA EventsAre ==
    ASSUME FeedbackTypeOK, NEW g
    PROVE  /\ IsFiniteSet(EventsOf(g)) /\ Cardinality(EventsOf(g)) \in Nat
           /\ g \in Logged <=> EventsOf(g) # {}
           /\ g \notin Logged => Cardinality(EventsOf(g)) = 0
<1>1. DOMAIN events = 1..Len(events) /\ Len(events) \in Nat
  BY DEF FeedbackTypeOK
<1>2. EventsOf(g) \subseteq 1..Len(events) /\ IsFiniteSet(1..Len(events))
  BY <1>1, FS_Interval DEF EventsOf
<1>3. IsFiniteSet(EventsOf(g))
  BY <1>2, FS_Subset
<1>4. g \in Logged <=> EventsOf(g) # {}
  BY DEF EventsOf, Logged
<1> QED
  BY <1>3, <1>4, FS_CardinalityType, FS_EmptySet

LEMMA EmittersAre ==
    ASSUME NEW g
    PROVE  /\ IsFiniteSet(Emitters(g)) /\ Cardinality(Emitters(g)) \in Nat
           /\ Cardinality(Emitters(g)) <= Cardinality(Reconcilers) /\ Cardinality(Reconcilers) \in Nat
           /\ Emitters(g) = {} => Cardinality(Emitters(g)) = 0
           /\ \A r : Emitters(g) \subseteq {r} => Cardinality(Emitters(g)) <= 1
<1>1. IsFiniteSet(Reconcilers) /\ Emitters(g) \subseteq Reconcilers
  BY FeedbackConstants DEF Emitters
<1>2. IsFiniteSet(Emitters(g)) /\ Cardinality(Emitters(g)) <= Cardinality(Reconcilers)
  BY <1>1, FS_Subset
<1>3. \A r : IsFiniteSet({r}) /\ Cardinality({r}) = 1
  BY FS_Singleton
<1>4. \A r : Emitters(g) \subseteq {r} => Cardinality(Emitters(g)) <= 1
  <2> SUFFICES ASSUME NEW r, Emitters(g) \subseteq {r} PROVE Cardinality(Emitters(g)) <= 1
    OBVIOUS
  <2>1. PICK S : S = {r}
    OBVIOUS
  <2>2. Cardinality(Emitters(g)) <= Cardinality(S)
    BY <1>3, <2>1, FS_Subset
  <2> QED
    BY <1>3, <2>1, <2>2
<1> QED
  BY <1>1, <1>2, <1>4, FS_CardinalityType, FS_EmptySet

\* One event more, of grade g.
LEMMA EventAdded ==
    ASSUME FeedbackTypeOK, NEW e \in EventType, events' = Append(events, e)
    PROVE  /\ Logged' = Logged \cup {e.of}
           /\ Cardinality(EventsOf(e.of))' = Cardinality(EventsOf(e.of)) + 1
           /\ \A g : g # e.of => Cardinality(EventsOf(g))' = Cardinality(EventsOf(g))
           /\ Packed /\ (e.packed <=> e.of \in Grades /\ Served[e.of] # {}) => Packed'
<1>1. PICK n \in Nat : n = Len(events) /\ DOMAIN events = 1..n
  BY DEF FeedbackTypeOK
<1>2. /\ DOMAIN events' = 1..(n + 1) /\ events'[n + 1] = e
      /\ \A i \in 1..n : events'[i] = events[i]
  BY <1>1 DEF FeedbackTypeOK
<1>3. \A i : i \in 1..(n + 1) <=> i \in 1..n \/ i = n + 1
  OBVIOUS
<1>4. n + 1 \notin 1..n
  OBVIOUS
<1>5. \A g : EventsOf(g)' = EventsOf(g) \cup (IF g = e.of THEN {n + 1} ELSE {})
  BY <1>1, <1>2, <1>3 DEF EventsOf
<1>6. \A g : IsFiniteSet(EventsOf(g)) /\ n + 1 \notin EventsOf(g)
  BY <1>1, <1>4, EventsAre DEF EventsOf
<1>7. Cardinality(EventsOf(e.of))' = Cardinality(EventsOf(e.of)) + 1
  <2>1. EventsOf(e.of)' = EventsOf(e.of) \cup {n + 1}
    BY <1>5
  <2> QED
    BY <1>6, <2>1, FS_AddElement
<1>8. \A g : g # e.of => Cardinality(EventsOf(g))' = Cardinality(EventsOf(g))
  BY <1>5
<1>9. Logged' = Logged \cup {e.of}
  BY <1>1, <1>2, <1>3 DEF Logged
<1>10. ASSUME Packed, e.packed <=> e.of \in Grades /\ Served[e.of] # {} PROVE Packed'
  BY <1>1, <1>2, <1>3, <1>10 DEF Packed
<1> QED
  BY <1>7, <1>8, <1>9, <1>10

-----------------------------------------------------------------------------
\* What a step of a call leaves as it was, and which pc it gives the call.
Moves(g, from, to) ==
    /\ call[g].pc = from /\ call'[g].pc = to /\ \A h \in Grades : h # g => call'[h] = call[h]

LEMMA CallMoves ==
    ASSUME FeedbackTypeOK, NEW g \in Grades, Call(g)
    PROVE  \/ AppendLine(g) /\ \E from \in {"new", "done"} : Moves(g, from, "check")
           \/ Moves(g, "check", "emit") /\ CheckEvent(g) /\ g \notin Logged
           \/ Moves(g, "check", "pack") /\ CheckEvent(g)
           \/ Moves(g, "emit", "pack") /\ EmitEvent(g)
           \/ PackRow(g) /\ \E to \in {"fan", "done"} : Moves(g, "pack", to)
           \/ StrategyRow(g) /\ \E to \in {"fan", "done"} : Moves(g, "fan", to)
           \/ CallDies(g) /\ \E from \in Stages \ {"new", "done"} : Moves(g, from, "done")
<1>1. call \in [Grades -> CallType]
  BY DEF FeedbackTypeOK
<1>2. \A from, to : call[g].pc = from /\ Stage(g, to) => Moves(g, from, to)
  BY <1>1 DEF Stage, Moves, CallType
<1>3. CASE AppendLine(g)
  BY <1>2, <1>3 DEF AppendLine
<1>4. CASE CheckEvent(g)
  BY <1>2, <1>4 DEF CheckEvent
<1>5. CASE EmitEvent(g)
  BY <1>2, <1>5 DEF EmitEvent
<1>6. CASE PackRow(g)
  <2>1. PICK f \in Lookups(g) :
          call' = [call EXCEPT ![g] = [pc |-> IF f[2] = {} THEN "done" ELSE "fan",
                                       cell |-> f[1], todo |-> f[2]]]
    BY <1>6 DEF PackRow
  <2>2. PICK to \in {"fan", "done"} : to = IF f[2] = {} THEN "done" ELSE "fan"
    OBVIOUS
  <2>3. Moves(g, "pack", to)
    BY <1>1, <1>6, <2>1, <2>2 DEF Moves, PackRow
  <2> QED
    BY <1>6, <2>3
<1>7. CASE StrategyRow(g)
  <2>1. PICK c \in call[g].todo :
          call' = [call EXCEPT ![g].todo = @ \ {c}, ![g].pc = IF call[g].todo = {c} THEN "done" ELSE @]
    BY <1>7 DEF StrategyRow
  <2>2. call[g].pc = "fan"
    BY <1>7 DEF StrategyRow
  <2>3. PICK to \in {"fan", "done"} : to = IF call[g].todo = {c} THEN "done" ELSE "fan"
    OBVIOUS
  <2>4. call'[g].pc = to /\ \A h \in Grades : h # g => call'[h] = call[h]
    BY <1>1, <2>1, <2>2, <2>3 DEF CallType
  <2> QED
    BY <1>7, <2>2, <2>4 DEF Moves
<1>8. CASE CallDies(g)
  <2>1. call[g].pc \in Stages \ {"new", "done"}
    BY <1>1, <1>8 DEF CallDies, CallType
  <2> QED
    BY <1>2, <1>8, <2>1 DEF CallDies
<1> QED
  BY <1>3, <1>4, <1>5, <1>6, <1>7, <1>8 DEF Call

LEMMA LoggedGrows ==
    ASSUME FeedbackTypeOK, Lined, FeedbackNext
    PROVE  Logged \subseteq Logged'
<1>1. CASE events' = events
  BY <1>1 DEF Logged
<1>2. CASE \E e \in EventType : events' = Append(events, e)
  BY <1>2, EventAdded
<1>3. events' = events \/ \E e \in EventType : events' = Append(events, e)
  <2>1. ASSUME NEW g \in Grades, EmitEvent(g) PROVE events' = events \/ \E e \in EventType : events' = Append(events, e)
    <3>1. PICK p \in BOOLEAN : p = (Served[g] # {})
      OBVIOUS
    <3>2. Event(g, p) \in EventType
      BY EventIs
    <3> QED
      BY <2>1, <3>1, <3>2 DEF EmitEvent
  <2>2. ASSUME NEW r \in Reconcilers, ReEmit(r) PROVE events' = events \/ \E e \in EventType : events' = Append(events, e)
    <3>1. recon[r].at \in Grades
      BY <2>2 DEF ReEmit, Lined, InFile
    <3> QED
      BY <2>2, <3>1, ReEmitIs
  <2> QED
    BY <2>1, <2>2 DEF FeedbackNext, Call, Reconcile, Backfill, AppendLine, CheckEvent, PackRow, StrategyRow,
        CallDies, LoadLines, Scan, Report, ReconcileStops, Plan, CountRows, QueryRows, WriteChunk, BackfillStops
<1> QED
  BY <1>1, <1>2, <1>3

-----------------------------------------------------------------------------
\* Where passes take turns, none is under way while a call is.
LEMMA CallAlone ==
    ASSUME FeedbackTypeOK, Turns, NEW g \in Grades, Call(g), InTurn
    PROVE  ~Filling /\ \A r \in Reconcilers : ~Active(r)
<1>1. recon \in [Reconcilers -> ReconType] /\ fill \in FillType
  BY DEF FeedbackTypeOK
<1>2. CASE AppendLine(g)
  <2>1. PassesRest
    BY <1>2 DEF AppendLine, InTurn
  <2> QED
    BY <2>1 DEF PassesRest, Filling, Active
<1>3. CASE call[g].pc \notin {"new", "done"}
  <2>1. ~CallsRest
    BY <1>3 DEF CallsRest
  <2> QED
    BY <2>1 DEF Turns
<1>4. AppendLine(g) \/ call[g].pc \notin {"new", "done"}
  BY DEF Call, CheckEvent, EmitEvent, PackRow, StrategyRow, CallDies
<1> QED
  BY <1>2, <1>3, <1>4

LEMMA CallKeepsOrder ==
    ASSUME FeedbackTypeOK, Turns, Lined, Swept, Packed, NEW g \in Grades, Call(g)
    PROVE  Turns' /\ Lined' /\ Swept' /\ Packed'
<1>1. UNCHANGED <<env, recon, fill>>
  BY DEF Call, AppendLine, CheckEvent, EmitEvent, PackRow, StrategyRow, CallDies
<1>2. Turns'
  <2> SUFFICES ASSUME InTurn' PROVE /\ ~Filling' /\ \A r \in Reconcilers : ~Active(r)'
    BY DEF Turns
  <2>1. InTurn
    BY <1>1 DEF InTurn
  <2> QED
    BY <1>1, <2>1, CallAlone DEF Filling, Active
<1>3. Logged \subseteq Logged'
  BY LoggedGrows DEF FeedbackNext
<1>4. Swept'
  BY <1>1, <1>3 DEF Swept
<1>5. InFile \subseteq InFile' /\ (lines' = lines => InFile' = InFile)
      /\ (AppendLine(g) => InFile' = InFile \cup {g})
  <2>1. CASE lines' = lines /\ ~AppendLine(g)
    BY <2>1 DEF InFile
  <2>2. CASE AppendLine(g)
    <3>1. lines \in [Grades -> Nat] /\ lines' = [lines EXCEPT ![g] = @ + 1]
      BY <2>2 DEF AppendLine, FeedbackTypeOK
    <3>2. /\ \A h \in Grades : h # g => lines'[h] = lines[h]
          /\ lines'[g] = lines[g] + 1 /\ lines[g] \in Nat
      BY <3>1
    <3>3. InFile' = InFile \cup {g} /\ lines' # lines
      BY <3>2 DEF InFile
    <3> QED
      BY <2>2, <3>3
  <2> QED
    BY <2>1, <2>2 DEF Call, CheckEvent, EmitEvent, PackRow, StrategyRow, CallDies
<1>6. \A r \in Reconcilers : /\ recon'[r].lines \subseteq InFile' /\ Still(recon'[r].todo) \subseteq InFile'
                             /\ recon'[r].pc = "emit" => recon'[r].at \in InFile'
  BY <1>1, <1>5 DEF Lined
<1>7. ASSUME NEW from, NEW to, Moves(g, from, to), from # "new", to # "new", lines' = lines
      PROVE  \A h \in Grades : call'[h].pc = "new" <=> h \notin InFile'
  BY <1>5, <1>7 DEF Moves, Lined
<1>8. CASE AppendLine(g) /\ \E from \in {"new", "done"} : Moves(g, from, "check")
  <2>1. events' = events /\ InFile' = InFile \cup {g}
    BY <1>5, <1>8 DEF AppendLine
  <2>2. \A h \in Grades : call'[h].pc = "new" <=> h \notin InFile'
    BY <1>8, <2>1 DEF Moves, Lined
  <2>3. Lined'
    BY <1>6, <2>1, <2>2 DEF Lined, Logged
  <2>4. Packed'
    BY <2>1 DEF Packed
  <2> QED
    BY <1>2, <1>4, <2>3, <2>4
<1>9. CASE EmitEvent(g) /\ Moves(g, "emit", "pack")
  <2>1. lines' = lines /\ InFile' = InFile
    BY <1>5, <1>9 DEF EmitEvent
  <2>2. g \in InFile
    BY <1>9 DEF Moves, Lined
  <2>3. \A h \in Grades : call'[h].pc = "new" <=> h \notin InFile'
    BY <1>7, <1>9, <2>1
  <2>4. PICK p \in BOOLEAN : p = (Served[g] # {})
    OBVIOUS
  <2>5. PICK e : e = Event(g, p)
    OBVIOUS
  <2>6. e \in EventType /\ e.of = g /\ e.packed = p
    BY <2>5, EventIs
  <2>7. CASE events' = Append(events, e)
    <3>1. Logged' = Logged \cup {g} /\ Packed'
      BY <2>4, <2>6, <2>7, EventAdded
    <3>2. Lined'
      BY <1>6, <2>1, <2>2, <2>3, <3>1 DEF Lined
    <3> QED
      BY <1>2, <1>4, <3>1, <3>2
  <2>8. CASE events' = events
    <3>1. Lined'
      BY <1>6, <2>1, <2>3, <2>8 DEF Lined, Logged
    <3>2. Packed'
      BY <2>8 DEF Packed
    <3> QED
      BY <1>2, <1>4, <3>1, <3>2
  <2>9. events' = Append(events, e) \/ events' = events
    BY <1>9, <2>4, <2>5 DEF EmitEvent
  <2> QED
    BY <2>7, <2>8, <2>9
<1>10. CASE /\ CheckEvent(g) \/ PackRow(g) \/ StrategyRow(g) \/ CallDies(g)
            /\ \E from, to : Moves(g, from, to) /\ from # "new" /\ to # "new"
  <2>1. lines' = lines /\ InFile' = InFile /\ events' = events
    BY <1>5, <1>10 DEF CheckEvent, PackRow, StrategyRow, CallDies
  <2>2. \A h \in Grades : call'[h].pc = "new" <=> h \notin InFile'
    BY <1>7, <1>10, <2>1
  <2>3. Lined'
    BY <1>6, <2>1, <2>2 DEF Lined, Logged
  <2>4. Packed'
    BY <2>1 DEF Packed
  <2> QED
    BY <1>2, <1>4, <2>3, <2>4
<1>11. \/ AppendLine(g) /\ \E from \in {"new", "done"} : Moves(g, from, "check")
       \/ EmitEvent(g) /\ Moves(g, "emit", "pack")
       \/ /\ CheckEvent(g) \/ PackRow(g) \/ StrategyRow(g) \/ CallDies(g)
          /\ \E from, to : Moves(g, from, to) /\ from # "new" /\ to # "new"
  BY CallMoves
<1> QED
  BY <1>8, <1>9, <1>10, <1>11

LEMMA CallKeepsOnce ==
    ASSUME FeedbackTypeOK, Turns, Lined, Once, NEW g \in Grades, Call(g)
    PROVE  Once'
<1>1. UNCHANGED <<env, recon>>
  BY DEF Call, AppendLine, CheckEvent, EmitEvent, PackRow, StrategyRow, CallDies
<1>2. Most' = Most /\ \A h : Emitters(h)' = Emitters(h)
  BY <1>1 DEF Most, InTurn, Emitters
<1>3. \A h \in Grades : /\ Cardinality(EventsOf(h)) \in Nat /\ Cardinality(Emitters(h)) \in Nat
                        /\ Due(h) \in {0, 1} /\ Most \in Nat
                        /\ Cardinality(EventsOf(h)) + Cardinality(Emitters(h)) + Due(h) <= Most
  BY EventsAre, EmittersAre DEF Due, Once, Most
<1> SUFFICES ASSUME NEW h \in Grades
             PROVE  Cardinality(EventsOf(h)') + Cardinality(Emitters(h)) + Due(h)' <= Most
  BY <1>2 DEF Once
<1>4. CASE events' = events /\ Due(h)' <= Due(h)
  <2>1. EventsOf(h)' = EventsOf(h)
    BY <1>4 DEF EventsOf
  <2>2. PICK a \in Nat, b \in Nat, c \in {0, 1}, d \in {0, 1}, m \in Nat :
          /\ a = Cardinality(EventsOf(h)) /\ b = Cardinality(Emitters(h)) /\ c = Due(h) /\ d = Due(h)'
          /\ m = Most
    BY <1>3 DEF Due
  <2>3. a + b + c <= m /\ d <= c
    BY <1>3, <1>4, <2>2
  <2> QED
    BY <2>1, <2>2, <2>3
<1>5. CASE events' = events /\ h = g /\ CheckEvent(g) /\ g \notin Logged
  <2>1. EventsOf(h)' = EventsOf(h) /\ Cardinality(EventsOf(h)) = 0
    BY <1>5, EventsAre DEF EventsOf
  <2>2. Cardinality(Emitters(h)) + 1 <= Most
    <3>1. CASE InTurn
      <4>1. Emitters(h) = {}
        BY <3>1, CallAlone DEF Emitters, Active
      <4> QED
        BY <3>1, <4>1, EmittersAre DEF Most
    <3>2. CASE ~InTurn
      BY <3>2, EmittersAre DEF Most
    <3> QED
      BY <3>1, <3>2
  <2>3. PICK b \in Nat, d \in {0, 1}, m \in Nat : b = Cardinality(Emitters(h)) /\ d = Due(h)' /\ m = Most
    BY <1>3 DEF Due
  <2> QED
    BY <2>1, <2>2, <2>3
<1>6. CASE h = g /\ Moves(g, "emit", "pack") /\ EmitEvent(g)
  <2>1. Due(h) = 1 /\ Due(h)' = 0
    BY <1>6 DEF Due, Moves
  <2>2. Cardinality(EventsOf(h)') <= Cardinality(EventsOf(h)) + 1 /\ Cardinality(EventsOf(h)') \in Nat
    <3>1. PICK p \in BOOLEAN : p = (Served[g] # {})
      OBVIOUS
    <3>2. PICK e : e = Event(g, p)
      OBVIOUS
    <3>3. e \in EventType /\ e.of = g
      BY <3>2, EventIs
    <3>4. events' = Append(events, e) \/ events' = events
      BY <1>6, <3>1, <3>2 DEF EmitEvent
    <3>5. CASE events' = Append(events, e)
      <4>1. Cardinality(EventsOf(h))' = Cardinality(EventsOf(h)) + 1
        BY <1>6, <3>3, <3>5, EventAdded
      <4> QED
        BY <1>3, <4>1
    <3>6. CASE events' = events
      <4>1. EventsOf(h)' = EventsOf(h)
        BY <3>6 DEF EventsOf
      <4> QED
        BY <1>3, <4>1
    <3> QED
      BY <3>4, <3>5, <3>6
  <2>3. PICK a \in Nat, b \in Nat, m \in Nat, x \in Nat :
          /\ a = Cardinality(EventsOf(h)) /\ b = Cardinality(Emitters(h)) /\ m = Most
          /\ x = Cardinality(EventsOf(h)')
    BY <1>3, <2>2
  <2>4. a + b + 1 <= m /\ x <= a + 1
    BY <1>3, <2>1, <2>2, <2>3
  <2> QED
    BY <2>1, <2>3, <2>4
<1>7. CASE h # g /\ EmitEvent(g)
  <2>1. Due(h)' = Due(h)
    BY <1>7, CallMoves DEF Due, Moves, EmitEvent
  <2>2. Cardinality(EventsOf(h)') = Cardinality(EventsOf(h))
    <3>1. PICK p \in BOOLEAN : p = (Served[g] # {})
      OBVIOUS
    <3>2. PICK e : e = Event(g, p)
      OBVIOUS
    <3>3. e \in EventType /\ e.of = g
      BY <3>2, EventIs
    <3>4. events' = Append(events, e) \/ events' = events
      BY <1>7, <3>1, <3>2 DEF EmitEvent
    <3>5. CASE events' = Append(events, e)
      <4>1. Cardinality(EventsOf(h))' = Cardinality(EventsOf(h))
        BY <1>7, <3>3, <3>5, EventAdded
      <4> QED
        BY <4>1
    <3>6. CASE events' = events
      BY <3>6 DEF EventsOf
    <3> QED
      BY <3>4, <3>5, <3>6
  <2> QED
    BY <1>3, <2>1, <2>2
<1>8. \/ events' = events /\ Due(h)' <= Due(h)
      \/ events' = events /\ h = g /\ CheckEvent(g) /\ g \notin Logged
      \/ h = g /\ Moves(g, "emit", "pack") /\ EmitEvent(g)
      \/ h # g /\ EmitEvent(g)
  <2>1. \A from, to : Moves(g, from, to) /\ to # "emit" => Due(h)' <= Due(h)
    BY DEF Moves, Due
  <2>2. \A from, to : Moves(g, from, to) /\ h # g => Due(h)' <= Due(h)
    BY DEF Moves, Due
  <2>3. CASE AppendLine(g) /\ \E from \in {"new", "done"} : Moves(g, from, "check")
    BY <2>1, <2>3 DEF AppendLine
  <2>4. CASE Moves(g, "check", "emit") /\ CheckEvent(g) /\ g \notin Logged
    BY <2>2, <2>4 DEF CheckEvent
  <2>5. CASE Moves(g, "check", "pack") /\ CheckEvent(g)
    BY <2>1, <2>5 DEF CheckEvent
  <2>6. CASE Moves(g, "emit", "pack") /\ EmitEvent(g)
    BY <2>6
  <2>7. CASE PackRow(g) /\ \E to \in {"fan", "done"} : Moves(g, "pack", to)
    BY <2>1, <2>7 DEF PackRow
  <2>8. CASE StrategyRow(g) /\ \E to \in {"fan", "done"} : Moves(g, "fan", to)
    BY <2>1, <2>8 DEF StrategyRow
  <2>9. CASE CallDies(g) /\ \E from \in Stages \ {"new", "done"} : Moves(g, from, "done")
    BY <2>1, <2>9 DEF CallDies
  <2> QED
    BY <2>3, <2>4, <2>5, <2>6, <2>7, <2>8, <2>9, CallMoves
<1> QED
  BY <1>4, <1>5, <1>6, <1>7, <1>8

-----------------------------------------------------------------------------
\* Where passes take turns a reconciler that is at work is alone.
LEMMA ReconcileKeepsTurns ==
    ASSUME FeedbackTypeOK, Lined, Turns, NEW r \in Reconcilers, Reconcile(r)
    PROVE  Turns'
<1>1. UNCHANGED <<env, call, fill>>
  BY DEF Reconcile, LoadLines, Scan, ReEmit, Report, ReconcileStops
<1> SUFFICES ASSUME InTurn' PROVE Turns'
  BY DEF Turns
<1>2. InTurn
  BY <1>1 DEF InTurn
<1>3. ASSUME Active(r), \A q \in Reconcilers : Active(q)' => Active(q)
      PROVE  Turns'
  BY <1>1, <1>2, <1>3 DEF Turns, Filling, CallsRest
<1>4. ASSUME NEW pc, NEW loaded, NEW todo, NEW at, NEW failed, Becomes(r, pc, loaded, todo, at, failed)
      PROVE  \A q \in Reconcilers : q # r => (Active(q)' <=> Active(q))
  BY <1>4 DEF Becomes, Active
<1>5. CASE LoadLines(r)
  <2>1. CallsRest /\ PassesRest
    BY <1>2, <1>5 DEF LoadLines, BeginPass, InTurn
  <2>2. ~Filling' /\ CallsRest' /\ \A q \in Reconcilers : ~Active(q)
    BY <1>1, <2>1 DEF PassesRest, Filling, CallsRest, Active
  <2>3. \A q \in Reconcilers : Active(q)' => q = r
    BY <1>4, <1>5, <2>2, PassIs
  <2> QED
    BY <2>2, <2>3 DEF Turns
<1>6. CASE Scan(r)
  <2>1. Active(r)
    BY <1>6 DEF Scan, Active
  <2>2. \A q \in Reconcilers : q # r => (Active(q)' <=> Active(q))
    BY <1>4, <1>6, ScanIs
  <2> QED
    BY <1>3, <2>1, <2>2
<1>7. CASE ReEmit(r)
  <2>1. Active(r) /\ recon[r].at \in Grades
    BY <1>7 DEF ReEmit, Active, Lined, InFile
  <2>2. \A q \in Reconcilers : q # r => (Active(q)' <=> Active(q))
    BY <1>4, <1>7, <2>1, ReEmitIs
  <2> QED
    BY <1>3, <2>1, <2>2
<1>8. CASE Report(r)
  <2>1. Active(r)
    BY <1>8 DEF Report, Active
  <2>2. \A q \in Reconcilers : q # r => (Active(q)' <=> Active(q))
    BY <1>4, <1>8, PassIs
  <2> QED
    BY <1>3, <2>1, <2>2
<1>9. CASE ReconcileStops(r)
  <2>1. Active(r)
    BY <1>9 DEF ReconcileStops, Active
  <2>2. \A q \in Reconcilers : q # r => (Active(q)' <=> Active(q))
    BY <1>4, <1>9, PassIs
  <2> QED
    BY <1>3, <2>1, <2>2
<1> QED
  BY <1>5, <1>6, <1>7, <1>8, <1>9 DEF Reconcile

LEMMA ReconcileKeepsOrder ==
    ASSUME FeedbackTypeOK, Lined, Swept, Packed, NEW r \in Reconcilers, Reconcile(r)
    PROVE  Lined' /\ Swept' /\ Packed'
<1>1. UNCHANGED <<lines, call>> /\ InFile' = InFile
  BY DEF Reconcile, LoadLines, Scan, ReEmit, Report, ReconcileStops, InFile
<1>2. Logged \subseteq Logged'
  BY LoggedGrows DEF FeedbackNext
<1>3. recon \in [Reconcilers -> ReconType]
  BY DEF FeedbackTypeOK
<1> DEFINE HeldBy(pc, loaded, todo, at) ==
             loaded \subseteq InFile /\ Still(todo) \subseteq InFile /\ (pc = "emit" => at \in InFile)
           SweptBy(pc, loaded, todo, at, failed) ==
             pc # "idle" =>
               loaded \subseteq Logged' \cup failed \cup (IF pc = "done" THEN {} ELSE Still(todo))
                            \cup (IF pc = "emit" THEN {at} ELSE {})
<1>4. \A q \in Reconcilers : /\ HeldBy(recon[q].pc, recon[q].lines, recon[q].todo, recon[q].at)
                             /\ SweptBy(recon[q].pc, recon[q].lines, recon[q].todo, recon[q].at, recon[q].failed)
  BY <1>2 DEF Lined, Swept
<1>5. ASSUME NEW pc, NEW loaded, NEW todo, NEW at, NEW failed, Becomes(r, pc, loaded, todo, at, failed),
             HeldBy(pc, loaded, todo, at), SweptBy(pc, loaded, todo, at, failed)
      PROVE  /\ Swept'
             /\ \A q \in Reconcilers :
                  /\ recon'[q].lines \subseteq InFile' /\ Still(recon'[q].todo) \subseteq InFile'
                  /\ recon'[q].pc = "emit" => recon'[q].at \in InFile'
  <2>1. \A q \in Reconcilers :
          /\ HeldBy(recon'[q].pc, recon'[q].lines, recon'[q].todo, recon'[q].at)
          /\ SweptBy(recon'[q].pc, recon'[q].lines, recon'[q].todo, recon'[q].at, recon'[q].failed)
    <3> SUFFICES ASSUME NEW q \in Reconcilers
                 PROVE  /\ HeldBy(recon'[q].pc, recon'[q].lines, recon'[q].todo, recon'[q].at)
                        /\ SweptBy(recon'[q].pc, recon'[q].lines, recon'[q].todo, recon'[q].at, recon'[q].failed)
      OBVIOUS
    <3> HIDE DEF HeldBy, SweptBy
    <3>1. CASE q = r
      BY <1>5, <3>1 DEF Becomes
    <3>2. CASE q # r
      BY <1>4, <1>5, <3>2 DEF Becomes
    <3> QED
      BY <3>1, <3>2
  <2> QED
    BY <1>1, <2>1 DEF Swept
<1>6. ASSUME events' = events, \A q \in Reconcilers :
                  /\ recon'[q].lines \subseteq InFile' /\ Still(recon'[q].todo) \subseteq InFile'
                  /\ recon'[q].pc = "emit" => recon'[q].at \in InFile'
      PROVE  Lined' /\ Packed'
  <2>1. Lined'
    BY <1>1, <1>6 DEF Lined, Logged
  <2> QED
    BY <1>6, <2>1 DEF Packed
<1>7. CASE LoadLines(r)
  <2>1. Becomes(r, "scan", InFile, lines, NoGrade, {}) /\ events' = events
    BY <1>7, PassIs DEF LoadLines
  <2>2. HeldBy("scan", InFile, lines, NoGrade) /\ SweptBy("scan", InFile, lines, NoGrade, {})
    BY DEF Still, InFile
  <2> HIDE DEF HeldBy, SweptBy
  <2> QED
    BY <1>5, <1>6, <2>1, <2>2
<1>8. CASE Scan(r)
  <2>1. events' = events /\ recon[r].pc = "scan"
    BY <1>8 DEF Scan
  <2>2. PICK g \in Still(recon[r].todo), todo \in [Grades -> Nat] :
             /\ Still(todo) \subseteq Still(recon[r].todo) /\ Still(recon[r].todo) \subseteq Still(todo) \cup {g}
             /\ \/ g \in Logged /\ Becomes(r, "scan", recon[r].lines, todo, NoGrade, recon[r].failed)
                \/ g \notin Logged /\ Becomes(r, "emit", recon[r].lines, todo, g, recon[r].failed)
    BY <1>8, ScanIs
  <2>3. HeldBy("scan", recon[r].lines, todo, NoGrade) /\ HeldBy("emit", recon[r].lines, todo, g)
    BY <1>4, <2>2
  <2>4. /\ g \in Logged => SweptBy("scan", recon[r].lines, todo, NoGrade, recon[r].failed)
        /\ SweptBy("emit", recon[r].lines, todo, g, recon[r].failed)
    BY <1>2, <1>4, <2>1, <2>2
  <2> HIDE DEF HeldBy, SweptBy
  <2> QED
    BY <1>5, <1>6, <2>1, <2>2, <2>3, <2>4
<1>9. CASE ReEmit(r)
  <2>1. recon[r].pc = "emit" /\ recon[r].at \in InFile /\ recon[r].at \in Grades
    BY <1>9 DEF ReEmit, Lined, InFile
  <2>2. /\ HeldBy("scan", recon[r].lines, recon[r].todo, NoGrade)
        /\ SweptBy("scan", recon[r].lines, recon[r].todo, NoGrade, recon[r].failed \cup {recon[r].at})
        /\ recon[r].at \in Logged' => SweptBy("scan", recon[r].lines, recon[r].todo, NoGrade, recon[r].failed)
    BY <1>4, <2>1
  <2>3. CASE /\ \E e \in EventType : /\ e.of = recon[r].at /\ (e.packed <=> Served[recon[r].at] # {})
                                     /\ events' = Append(events, e)
             /\ Becomes(r, "scan", recon[r].lines, recon[r].todo, NoGrade, recon[r].failed)
    <3>1. PICK e \in EventType : /\ e.of = recon[r].at /\ (e.packed <=> Served[recon[r].at] # {})
                                 /\ events' = Append(events, e)
      BY <2>3
    <3>2. Logged' = Logged \cup {recon[r].at} /\ Packed'
      BY <2>1, <3>1, EventAdded
    <3> HIDE DEF HeldBy, SweptBy
    <3>3. Swept' /\ \A q \in Reconcilers :
                  /\ recon'[q].lines \subseteq InFile' /\ Still(recon'[q].todo) \subseteq InFile'
                  /\ recon'[q].pc = "emit" => recon'[q].at \in InFile'
      BY <1>5, <2>2, <2>3, <3>2
    <3>4. Lined'
      BY <1>1, <2>1, <3>2, <3>3 DEF Lined
    <3> QED
      BY <3>2, <3>3, <3>4
  <2>4. CASE /\ events' = events
             /\ Becomes(r, "scan", recon[r].lines, recon[r].todo, NoGrade, recon[r].failed \cup {recon[r].at})
    <3> HIDE DEF HeldBy, SweptBy
    <3> QED
      BY <1>5, <1>6, <2>2, <2>4
  <2> QED
    BY <1>9, <2>1, <2>3, <2>4, ReEmitIs
<1>10. CASE Report(r)
  <2>1. events' = events /\ recon[r].pc = "scan" /\ Still(recon[r].todo) = {}
    BY <1>10 DEF Report, Still
  <2>2. Becomes(r, "done", recon[r].lines, recon[r].todo, recon[r].at, recon[r].failed)
    BY <1>10, PassIs
  <2>3. /\ HeldBy("done", recon[r].lines, recon[r].todo, recon[r].at)
        /\ SweptBy("done", recon[r].lines, recon[r].todo, recon[r].at, recon[r].failed)
    BY <1>4, <2>1
  <2> HIDE DEF HeldBy, SweptBy
  <2> QED
    BY <1>5, <1>6, <2>1, <2>2, <2>3
<1>11. CASE ReconcileStops(r)
  <2>1. events' = events
    BY <1>11 DEF ReconcileStops
  <2>2. Becomes(r, "idle", recon[r].lines, recon[r].todo, recon[r].at, recon[r].failed)
    BY <1>11, PassIs
  <2>3. /\ HeldBy("idle", recon[r].lines, recon[r].todo, recon[r].at)
        /\ SweptBy("idle", recon[r].lines, recon[r].todo, recon[r].at, recon[r].failed)
    BY <1>4
  <2> HIDE DEF HeldBy, SweptBy
  <2> QED
    BY <1>5, <1>6, <2>1, <2>2, <2>3
<1> QED
  BY <1>7, <1>8, <1>9, <1>10, <1>11 DEF Reconcile

-----------------------------------------------------------------------------
LEMMA EmittersNext ==
    ASSUME FeedbackTypeOK, NEW r \in Reconcilers, NEW pc, NEW loaded, NEW todo, NEW at, NEW failed,
           Becomes(r, pc, loaded, todo, at, failed), NEW h
    PROVE  Emitters(h)' = (Emitters(h) \ {r}) \cup (IF pc = "emit" /\ at = h THEN {r} ELSE {})
BY DEF Emitters, Becomes

LEMMA ReconcileKeepsOnce ==
    ASSUME FeedbackTypeOK, Turns, Lined, Once, NEW r \in Reconcilers, Reconcile(r)
    PROVE  Once'
<1>1. UNCHANGED <<env, call>>
  BY DEF Reconcile, LoadLines, Scan, ReEmit, Report, ReconcileStops
<1>2. Most' = Most /\ \A h : Due(h)' = Due(h)
  BY <1>1 DEF Most, InTurn, Due
<1>3. \A h \in Grades : /\ Cardinality(EventsOf(h)) \in Nat /\ Cardinality(Emitters(h)) \in Nat
                        /\ IsFiniteSet(Emitters(h)) /\ Due(h) \in {0, 1} /\ Most \in Nat
                        /\ Cardinality(EventsOf(h)) + Cardinality(Emitters(h)) + Due(h) <= Most
  BY EventsAre, EmittersAre DEF Due, Once, Most
<1> SUFFICES ASSUME NEW h \in Grades
             PROVE  Cardinality(EventsOf(h)') + Cardinality(Emitters(h)') + Due(h) <= Most
  BY <1>2 DEF Once
<1>4. PICK a \in Nat, b \in Nat, d \in {0, 1}, m \in Nat :
        a = Cardinality(EventsOf(h)) /\ b = Cardinality(Emitters(h)) /\ d = Due(h) /\ m = Most
  BY <1>3
<1>5. a + b + d <= m
  BY <1>3, <1>4
<1>6. PICK x : x = Cardinality(EventsOf(h)')
  OBVIOUS
<1>7. PICK E, S : E = Emitters(h)' /\ S = Emitters(h)
  OBVIOUS
<1> SUFFICES x + Cardinality(E) + d <= m
  BY <1>4, <1>6, <1>7
<1>8. ASSUME events' = events PROVE x = a
  BY <1>4, <1>6, <1>8 DEF EventsOf
<1>9. IsFiniteSet(S) /\ Cardinality(S) = b
  BY <1>3, <1>4, <1>7
<1>10. ASSUME E \subseteq S PROVE Cardinality(E) \in Nat /\ Cardinality(E) <= b
  BY <1>9, <1>10, FS_Subset, FS_CardinalityType
<1>11. ASSUME NEW pc, NEW loaded, NEW todo, NEW at, NEW failed, Becomes(r, pc, loaded, todo, at, failed)
       PROVE  E = (S \ {r}) \cup (IF pc = "emit" /\ at = h THEN {r} ELSE {})
  BY <1>7, <1>11, EmittersNext
<1>12. CASE events' = events /\ E \subseteq S
  BY <1>5, <1>8, <1>10, <1>12
<1>13. CASE Scan(r) /\ h \notin Logged
  <2>1. x = 0
    <3>1. events' = events
      BY <1>13 DEF Scan
    <3> QED
      BY <1>4, <1>8, <1>13, <3>1, EventsAre
  <2>2. Cardinality(E) \in Nat /\ Cardinality(E) + d <= m
    <3>1. E \subseteq Reconcilers /\ IsFiniteSet(Reconcilers)
      BY <1>7, FeedbackConstants DEF Emitters
    <3>2. PICK n \in Nat : n = Cardinality(Reconcilers)
      BY <3>1, FS_CardinalityType
    <3>3. Cardinality(E) \in Nat /\ Cardinality(E) <= n
      BY <3>1, <3>2, FS_Subset, FS_CardinalityType
    <3>4. CASE ~InTurn
      <4>1. m = 1 + n
        BY <1>4, <3>2, <3>4 DEF Most
      <4> QED
        BY <3>3, <4>1
    <3>5. CASE InTurn
      <4>1. Active(r)
        BY <1>13 DEF Scan, Active
      <4>2. CallsRest /\ \A q \in Reconcilers : Active(q) => q = r
        BY <3>5, <4>1 DEF Turns
      <4>3. d = 0
        BY <1>4, <4>2 DEF Due, CallsRest
      <4>4. E \subseteq {r}
        <5>1. \A q \in S : q = r
          BY <1>7, <4>2 DEF Emitters, Active
        <5>2. E \subseteq (S \ {r}) \cup {r}
          BY <1>11, <1>13, ScanIs
        <5> QED
          BY <5>1, <5>2
      <4>5. PICK R : R = {r}
        OBVIOUS
      <4>6. IsFiniteSet(R) /\ Cardinality(R) = 1
        BY <4>5, FS_Singleton
      <4>7. Cardinality(E) <= 1
        BY <4>4, <4>5, <4>6, FS_Subset
      <4>8. m = 1
        BY <1>4, <3>5 DEF Most
      <4> QED
        BY <3>3, <4>3, <4>7, <4>8
    <3> QED
      BY <3>4, <3>5
  <2> QED
    BY <2>1, <2>2
<1>14. CASE LoadLines(r) \/ Report(r) \/ ReconcileStops(r)
  <2>1. events' = events
    BY <1>14 DEF LoadLines, Report, ReconcileStops
  <2>2. E = S \ {r}
    BY <1>11, <1>14, PassIs
  <2> QED
    BY <1>12, <2>1, <2>2
<1>15. CASE Scan(r) /\ h \in Logged
  <2>1. events' = events
    BY <1>15 DEF Scan
  <2>2. E = S \ {r}
    <3>1. PICK g \in Grades, todo \in [Grades -> Nat] :
             \/ Becomes(r, "scan", recon[r].lines, todo, NoGrade, recon[r].failed)
             \/ g \notin Logged /\ Becomes(r, "emit", recon[r].lines, todo, g, recon[r].failed)
      BY <1>15, ScanIs DEF Still
    <3>2. g \notin Logged => g # h
      BY <1>15
    <3> QED
      BY <1>11, <3>1, <3>2
  <2> QED
    BY <1>12, <2>1, <2>2
<1>16. CASE ReEmit(r)
  <2>1. recon[r].pc = "emit" /\ recon[r].at \in Grades
    BY <1>16 DEF ReEmit, Lined, InFile
  <2>2. E = S \ {r}
    <3>1. PICK F : Becomes(r, "scan", recon[r].lines, recon[r].todo, NoGrade, F)
      BY <1>16, <2>1, ReEmitIs
    <3> QED
      BY <1>11, <3>1
  <2>3. CASE events' = events
    BY <1>12, <2>2, <2>3
  <2>4. CASE \E e \in EventType : e.of = recon[r].at /\ events' = Append(events, e)
    <3>1. PICK e \in EventType : e.of = recon[r].at /\ events' = Append(events, e)
      BY <2>4
    <3>2. CASE h = e.of
      <4>1. x = a + 1
        BY <1>4, <1>6, <3>1, <3>2, EventAdded
      <4>2. r \in S
        BY <1>7, <2>1, <3>1, <3>2 DEF Emitters
      <4>3. Cardinality(E) = b - 1 /\ b >= 1
        <5>1. Cardinality(S \ {r}) = Cardinality(S) - 1 /\ IsFiniteSet(S \ {r})
          BY <1>9, <4>2, FS_RemoveElement
        <5>2. Cardinality(S \ {r}) \in Nat
          BY <5>1, FS_CardinalityType
        <5> QED
          BY <1>9, <2>2, <5>1, <5>2
      <4> QED
        BY <1>5, <4>1, <4>3
    <3>3. CASE h # e.of
      <4>1. x = a
        BY <1>4, <1>6, <3>1, <3>3, EventAdded
      <4> QED
        BY <1>5, <1>10, <2>2, <4>1
    <3> QED
      BY <3>2, <3>3
  <2> QED
    BY <1>16, <2>1, <2>3, <2>4, ReEmitIs
<1> QED
  BY <1>13, <1>14, <1>15, <1>16 DEF Reconcile

LEMMA BackfillKeepsEvents ==
    ASSUME FeedbackTypeOK, EventInv, Backfill
    PROVE  EventInv'
<1>1. UNCHANGED <<env, lines, events, call, recon>>
  BY DEF Backfill, Plan, CountRows, QueryRows, WriteChunk, BackfillStops
<1>2. Lined' /\ Once' /\ Packed' /\ Swept'
  <2>1. Lined'
    BY <1>1 DEF EventInv, Lined, Logged, InFile
  <2>2. Once'
    BY <1>1 DEF EventInv, Once, EventsOf, Emitters, Due, Most, InTurn
  <2>3. Packed'
    BY <1>1 DEF EventInv, Packed
  <2>4. Swept'
    BY <1>1 DEF EventInv, Swept, Logged
  <2> QED
    BY <2>1, <2>2, <2>3, <2>4
<1>3. Turns'
  <2> SUFFICES ASSUME InTurn PROVE Turns'
    BY <1>1 DEF Turns, InTurn
  <2>1. CASE Plan
    <3>1. CallsRest /\ \A r \in Reconcilers : ~Active(r)
      BY <2>1 DEF Plan, BeginPass, InTurn, PassesRest, Active
    <3> QED
      BY <1>1, <3>1 DEF Turns, Active, CallsRest
  <2>2. CASE Filling
    <3>1. CallsRest /\ \A r \in Reconcilers : ~Active(r)
      BY <2>2 DEF EventInv, Turns
    <3> QED
      BY <1>1, <3>1 DEF Turns, Active, CallsRest
  <2>3. Plan \/ Filling
    BY DEF Backfill, CountRows, QueryRows, WriteChunk, BackfillStops, Filling
  <2> QED
    BY <2>1, <2>2, <2>3
<1> QED
  BY <1>2, <1>3 DEF EventInv

-----------------------------------------------------------------------------
(* Rows: what was to come is not in place, and nothing is lost.            *)

LEMMA CopiesAre ==
    ASSUME FeedbackTypeOK, NEW g, NEW c
    PROVE  /\ IsFiniteSet(Copies(g, c)) /\ Cardinality(Copies(g, c)) \in Nat
           /\ <<g, c>> \notin KeysOf(rows) => Cardinality(Copies(g, c)) = 0
           /\ Owed(g, c) \in {0, 1}
<1>1. DOMAIN rows = 1..Len(rows) /\ Len(rows) \in Nat
  BY DEF FeedbackTypeOK
<1>2. Copies(g, c) \subseteq 1..Len(rows) /\ IsFiniteSet(1..Len(rows))
  BY <1>1, FS_Interval DEF Copies
<1>3. IsFiniteSet(Copies(g, c))
  BY <1>2, FS_Subset
<1>4. <<g, c>> \notin KeysOf(rows) => Copies(g, c) = {}
  BY DEF Copies, KeysOf
<1> QED
  BY <1>3, <1>4, FS_CardinalityType, FS_EmptySet DEF Owed

\* One row more, or it is lost.
LEMMA CopyAdded ==
    ASSUME FeedbackTypeOK, NEW r \in RowType, Recorded(r), NEW g, NEW c
    PROVE  /\ Cardinality(Copies(g, c)') \in Nat
           /\ Cardinality(Copies(g, c)') <= Cardinality(Copies(g, c)) + 1
           /\ <<r.of, r.at>> # <<g, c>> => Cardinality(Copies(g, c)') = Cardinality(Copies(g, c))
<1>0. IsFiniteSet(Copies(g, c)) /\ Cardinality(Copies(g, c)) \in Nat
  BY CopiesAre
<1>1. CASE rows' = rows
  BY <1>0, <1>1 DEF Copies
<1>2. CASE rows' = Append(rows, r)
  <2>1. PICK n \in Nat : n = Len(rows) /\ DOMAIN rows = 1..n
    BY DEF FeedbackTypeOK
  <2>2. /\ DOMAIN rows' = 1..(n + 1) /\ rows'[n + 1] = r
        /\ \A i \in 1..n : rows'[i] = rows[i]
    BY <1>2, <2>1 DEF FeedbackTypeOK
  <2>3. \A i : i \in 1..(n + 1) <=> i \in 1..n \/ i = n + 1
    OBVIOUS
  <2>4. n + 1 \notin Copies(g, c)
    <3>1. n + 1 \notin 1..n
      OBVIOUS
    <3> QED
      BY <2>1, <3>1 DEF Copies
  <2>5. Copies(g, c)' = Copies(g, c) \cup (IF RowKey(r) = <<g, c>> THEN {n + 1} ELSE {})
    BY <2>1, <2>2, <2>3 DEF Copies
  <2>6. RowKey(r) = <<r.of, r.at>>
    BY KeyIs
  <2>7. CASE RowKey(r) = <<g, c>>
    <3>1. Copies(g, c)' = Copies(g, c) \cup {n + 1}
      BY <2>5, <2>7
    <3>2. Cardinality(Copies(g, c)') = Cardinality(Copies(g, c)) + 1
      BY <1>0, <2>4, <3>1, FS_AddElement
    <3> QED
      BY <1>0, <2>6, <2>7, <3>2
  <2>8. CASE RowKey(r) # <<g, c>>
    <3>1. Copies(g, c)' = Copies(g, c)
      BY <2>5, <2>8
    <3> QED
      BY <1>0, <3>1
  <2> QED
    BY <2>7, <2>8
<1> QED
  BY <1>1, <1>2 DEF Recorded

\* Rows none of which was there.
LEMMA CopiesJoined ==
    ASSUME FeedbackTypeOK, NEW t \in Seq(RowType), NoneTwice(t), KeysOf(rows) \cap KeysOf(t) = {},
           rows' = rows \o t, NEW g, NEW c
    PROVE  /\ Cardinality(Copies(g, c)') \in Nat
           /\ <<g, c>> \in KeysOf(t) => Cardinality(Copies(g, c)') <= 1
           /\ <<g, c>> \notin KeysOf(t) => Cardinality(Copies(g, c)') = Cardinality(Copies(g, c))
<1>1. PICK n \in Nat, k \in Nat : /\ n = Len(rows) /\ DOMAIN rows = 1..n
                                  /\ k = Len(t) /\ DOMAIN t = 1..k
  BY DEF FeedbackTypeOK
<1>2. /\ DOMAIN rows' = 1..(n + k)
      /\ \A i \in 1..n : rows'[i] = rows[i]
      /\ \A i \in 1..(n + k) : i \notin 1..n => i - n \in 1..k /\ rows'[i] = t[i - n]
  BY <1>1 DEF FeedbackTypeOK
<1>3. \A i \in 1..n : i \in 1..(n + k)
  BY <1>1
<1>4. CASE <<g, c>> \in KeysOf(t)
  <2>1. \A i \in Copies(g, c)' : i \in 1..(n + k) /\ i - n \in 1..k /\ RowKey(t[i - n]) = <<g, c>>
    <3> SUFFICES ASSUME NEW i \in Copies(g, c)'
                 PROVE  i \in 1..(n + k) /\ i - n \in 1..k /\ RowKey(t[i - n]) = <<g, c>>
      OBVIOUS
    <3>1. i \in 1..(n + k) /\ RowKey(rows'[i]) = <<g, c>>
      BY <1>2 DEF Copies
    <3>2. ASSUME i \in 1..n PROVE FALSE
      <4>1. RowKey(rows[i]) \in KeysOf(rows) /\ RowKey(rows[i]) = <<g, c>>
        BY <1>1, <1>2, <3>1, <3>2 DEF KeysOf
      <4> QED
        BY <1>4, <4>1
    <3> QED
      BY <1>2, <3>1, <3>2
  <2>2. \A i, j \in Copies(g, c)' : i = j
    <3> SUFFICES ASSUME NEW i \in Copies(g, c)', NEW j \in Copies(g, c)' PROVE i = j
      OBVIOUS
    <3>1. i - n = j - n
      BY <1>1, <2>1 DEF NoneTwice
    <3> QED
      BY <2>1, <3>1
  <2>3. PICK S : S = Copies(g, c)'
    OBVIOUS
  <2>4. Cardinality(S) \in Nat /\ Cardinality(S) <= 1
    <3>1. CASE S = {}
      BY <3>1, FS_EmptySet
    <3>2. CASE S # {}
      <4>1. PICK i \in S : S = {i}
        BY <2>2, <2>3, <3>2
      <4>2. Cardinality({i}) = 1
        BY FS_Singleton
      <4> QED
        BY <4>1, <4>2
    <3> QED
      BY <3>1, <3>2
  <2> QED
    BY <1>4, <2>3, <2>4
<1>5. CASE <<g, c>> \notin KeysOf(t)
  <2>1. \A i \in DOMAIN t : RowKey(t[i]) # <<g, c>>
    BY <1>5 DEF KeysOf
  <2>2. Copies(g, c)' = Copies(g, c)
    BY <1>1, <1>2, <1>3, <2>1 DEF Copies
  <2> QED
    BY <1>5, <2>2, CopiesAre
<1> QED
  BY <1>4, <1>5

\* A step that adds no row and plans none.
LEMMA RowsRest ==
    ASSUME FeedbackTypeOK, RowInv, UNCHANGED <<env, rows, fill>>, Logged \subseteq Logged',
           \A g \in Grades : call'[g] = call[g] \/ call'[g].pc # "fan",
           \A g \in Grades, c \in Components : /\ lines'[g] \in Nat /\ Owed(g, c)' \in {0, 1}
                                               /\ lines[g] + Owed(g, c)' <= lines'[g] + Owed(g, c)
    PROVE  RowInv'
<1>1. Celled'
  BY DEF RowInv, Celled, Reading
<1>2. Filled'
  BY DEF RowInv, Filled, Reading, Filling
<1>3. Single'
  <2> SUFFICES ASSUME InTurn PROVE Counted' /\ Planned'
    BY DEF Single, InTurn
  <2>1. Counted /\ Planned
    BY DEF RowInv, Single
  <2>2. Counted'
    <3> SUFFICES ASSUME NEW g \in Grades, NEW c \in Components
                 PROVE  Cardinality(Copies(g, c)') + Owed(g, c)' <= lines'[g]
      BY DEF Counted
    <3>1. Copies(g, c)' = Copies(g, c)
      BY DEF Copies
    <3>2. /\ Cardinality(Copies(g, c)) \in Nat /\ Owed(g, c) \in {0, 1} /\ lines[g] \in Nat
          /\ Cardinality(Copies(g, c)) + Owed(g, c) <= lines[g]
      BY <2>1, CopiesAre DEF Counted, FeedbackTypeOK
    <3>3. lines'[g] \in Nat /\ Owed(g, c)' \in {0, 1} /\ lines[g] + Owed(g, c)' <= lines'[g] + Owed(g, c)
      OBVIOUS
    <3>4. PICK n \in Nat, o \in {0, 1}, l \in Nat, p \in {0, 1}, m \in Nat :
            /\ n = Cardinality(Copies(g, c)) /\ o = Owed(g, c) /\ l = lines[g]
            /\ p = Owed(g, c)' /\ m = lines'[g]
      BY <3>2, <3>3
    <3>5. n + p <= m
      BY <3>2, <3>3, <3>4
    <3> QED
      BY <3>1, <3>4, <3>5
  <2>3. Planned'
    BY <2>1 DEF Planned, Filling
  <2> QED
    BY <2>2, <2>3
<1> QED
  BY <1>1, <1>2, <1>3 DEF RowInv

LEMMA ReconcileKeepsRows ==
    ASSUME FeedbackTypeOK, Lined, RowInv, NEW r \in Reconcilers, Reconcile(r)
    PROVE  RowInv'
<1>1. UNCHANGED <<env, lines, rows, fill, call>>
  BY DEF Reconcile, LoadLines, Scan, ReEmit, Report, ReconcileStops
<1>2. Logged \subseteq Logged'
  BY LoggedGrows DEF FeedbackNext
<1>3. \A g \in Grades, c \in Components : Owed(g, c)' = Owed(g, c) /\ Owed(g, c) \in {0, 1} /\ lines[g] \in Nat
  BY <1>1 DEF Owed, FeedbackTypeOK
<1> QED
  BY <1>1, <1>2, <1>3, RowsRest

\* A row that a call adds, or loses, for a component it had yet to add it for.
LEMMA CallAddsRow ==
    ASSUME FeedbackTypeOK, RowInv, NEW g \in Grades, Call(g), ~Filling \/ ~InTurn,
           NEW r \in RowType, Recorded(r), r.of = g,
           UNCHANGED <<env, lines, events, fill>>, \A h \in Grades : h # g => call'[h] = call[h],
           Reading => r.cell = CellOf(g) /\ (call'[g].pc = "fan" => call'[g].cell = CellOf(g)),
           Owed(g, r.at) = 1 /\ Owed(g, r.at)' = 0,
           \A c \in Components : Owed(g, c)' <= Owed(g, c)
    PROVE  RowInv'
<1>1. rows \in Seq(RowType) /\ fill \in FillType
  BY DEF FeedbackTypeOK
<1>2. /\ Append(rows, r) \in Seq(RowType) /\ KeysOf(Append(rows, r)) = KeysOf(rows) \cup {RowKey(r)}
      /\ InCell(rows) /\ r.cell = CellOf(r.of) => InCell(Append(rows, r))
  BY <1>1, AppendedRow
<1>3. /\ KeysOf(rows) \subseteq KeysOf(rows')
      /\ Reading /\ InCell(rows) => InCell(rows')
  <2>1. CASE rows' = Append(rows, r)
    BY <1>2, <2>1
  <2>2. CASE rows' = rows
    BY <2>2
  <2> QED
    BY <2>1, <2>2 DEF Recorded
<1>4. Celled'
  BY <1>3 DEF RowInv, Celled, Reading
<1>5. Filled'
  BY <1>3 DEF RowInv, Filled, Reading, Filling
<1>6. Single'
  <2> SUFFICES ASSUME InTurn PROVE Counted' /\ Planned'
    BY DEF Single, InTurn
  <2>1. Planned'
    BY DEF Planned, Filling
  <2>2. Counted'
    <3> SUFFICES ASSUME NEW h \in Grades, NEW c \in Components
                 PROVE  Cardinality(Copies(h, c)') + Owed(h, c)' <= lines[h]
      BY DEF Counted
    <3>1. /\ Cardinality(Copies(h, c)) \in Nat /\ Owed(h, c) \in {0, 1} /\ lines[h] \in Nat
          /\ Cardinality(Copies(h, c)) + Owed(h, c) <= lines[h]
      BY CopiesAre DEF RowInv, Single, Counted, FeedbackTypeOK
    <3>2. /\ Cardinality(Copies(h, c)') \in Nat
          /\ Cardinality(Copies(h, c)') <= Cardinality(Copies(h, c)) + 1
          /\ <<r.of, r.at>> # <<h, c>> => Cardinality(Copies(h, c)') = Cardinality(Copies(h, c))
      BY CopyAdded
    <3>3. Owed(h, c)' \in {0, 1} /\ Owed(h, c)' <= Owed(h, c)
      <4>1. h # g => Owed(h, c)' = Owed(h, c)
        BY DEF Owed
      <4>2. Owed(h, c)' \in {0, 1}
        BY DEF Owed
      <4> QED
        BY <3>1, <4>1, <4>2
    <3>4. PICK n \in Nat, o \in {0, 1}, l \in Nat, p \in {0, 1}, m \in Nat :
            /\ n = Cardinality(Copies(h, c)) /\ o = Owed(h, c) /\ l = lines[h]
            /\ p = Owed(h, c)' /\ m = Cardinality(Copies(h, c)')
      BY <3>1, <3>2, <3>3
    <3>5. n + o <= l /\ p <= o /\ m <= n + 1
      BY <3>1, <3>2, <3>3, <3>4
    <3>6. CASE h = g /\ c = r.at
      <4>1. o = 1 /\ p = 0
        BY <3>4, <3>6
      <4>2. m + p <= l
        BY <3>5, <4>1
      <4> QED
        BY <3>4, <4>2
    <3>7. CASE ~(h = g /\ c = r.at)
      <4>1. m = n
        BY <3>2, <3>4, <3>7
      <4>2. m + p <= l
        BY <3>5, <4>1
      <4> QED
        BY <3>4, <4>2
    <3> QED
      BY <3>6, <3>7
  <2> QED
    BY <2>1, <2>2
<1> QED
  BY <1>4, <1>5, <1>6 DEF RowInv

LEMMA CallKeepsRows ==
    ASSUME FeedbackTypeOK, EventInv, RowInv, NEW g \in Grades, Call(g)
    PROVE  RowInv'
<1>1. call \in [Grades -> CallType] /\ rows \in Seq(RowType) /\ lines \in [Grades -> Nat]
  BY DEF FeedbackTypeOK
<1>2. CASE AppendLine(g) \/ CheckEvent(g) \/ EmitEvent(g) \/ CallDies(g)
  <2>1. UNCHANGED <<env, rows, fill>>
    BY <1>2 DEF AppendLine, CheckEvent, EmitEvent, CallDies
  <2>2. Logged \subseteq Logged'
    BY LoggedGrows DEF FeedbackNext, EventInv
  <2>3. \E from, to : /\ Moves(g, from, to) /\ to # "fan"
                      /\ \/ AppendLine(g) /\ from \in {"new", "done"}
                         \/ lines' = lines /\ to = "done"
                         \/ lines' = lines /\ from \in {"check", "emit", "pack"}
    <3>1. ASSUME CheckEvent(g) \/ EmitEvent(g) PROVE ~PackRow(g) /\ ~StrategyRow(g) /\ ~AppendLine(g) /\ lines' = lines
      BY <3>1 DEF CheckEvent, EmitEvent, PackRow, StrategyRow, AppendLine
    <3>2. ASSUME AppendLine(g) PROVE \E from \in {"new", "done"} : Moves(g, from, "check")
      BY <1>1, <3>2 DEF AppendLine, Stage, Moves, CallType
    <3>3. ASSUME CallDies(g) PROVE lines' = lines /\ \E from : Moves(g, from, "done")
      BY <1>1, <3>3 DEF CallDies, Stage, Moves, CallType
    <3>4. ASSUME CheckEvent(g) \/ EmitEvent(g)
          PROVE  \E from \in {"check", "emit"}, to \in {"emit", "pack"} : Moves(g, from, to)
      BY <1>1, <3>4 DEF CheckEvent, EmitEvent, Stage, Moves, CallType
    <3> QED
      BY <1>2, <3>1, <3>2, <3>3, <3>4
  <2>4. \A h \in Grades : call'[h] = call[h] \/ call'[h].pc # "fan"
    BY <2>3 DEF Moves
  <2>5. \A h \in Grades, c \in Components :
          /\ lines'[h] \in Nat /\ Owed(h, c)' \in {0, 1} /\ lines[h] + Owed(h, c)' <= lines'[h] + Owed(h, c)
    <3> SUFFICES ASSUME NEW h \in Grades, NEW c \in Components
                 PROVE  /\ lines'[h] \in Nat /\ Owed(h, c)' \in {0, 1}
                        /\ lines[h] + Owed(h, c)' <= lines'[h] + Owed(h, c)
      OBVIOUS
    <3>1. lines[h] \in Nat /\ Owed(h, c) \in {0, 1} /\ Owed(h, c)' \in {0, 1}
      BY <1>1 DEF Owed
    <3>2. h # g => Owed(h, c)' = Owed(h, c)
      BY <2>3 DEF Owed, Moves
    <3>3. AppendLine(g) => /\ lines'[g] = lines[g] + 1
                           /\ h # g => lines'[h] = lines[h]
      BY <1>1 DEF AppendLine
    <3>4. lines' = lines => Owed(g, c)' <= Owed(g, c)
      <4>1. ASSUME NEW from, NEW to, Moves(g, from, to), to = "done" PROVE Owed(g, c)' = 0
        BY <4>1 DEF Owed, Moves
      <4>2. ASSUME NEW from, NEW to, Moves(g, from, to), from \in {"check", "emit", "pack"} PROVE Owed(g, c) = 1
        BY <4>2 DEF Owed, Moves
      <4>3. lines' = lines => ~AppendLine(g)
        BY <1>1, <3>3
      <4> QED
        BY <2>3, <4>1, <4>2, <4>3 DEF Owed
    <3>5. AppendLine(g) \/ lines' = lines
      BY <2>3
    <3> QED
      BY <3>1, <3>2, <3>3, <3>4, <3>5
  <2> QED
    BY <2>1, <2>2, <2>4, <2>5, RowsRest
<1>3. ~Filling \/ ~InTurn
  BY CallAlone DEF EventInv
<1>4. CASE PackRow(g)
  <2>1. PICK f \in Lookups(g) :
          /\ Recorded(Row(g, PackBuilder, f[1]))
          /\ call' = [call EXCEPT ![g] = [pc |-> IF f[2] = {} THEN "done" ELSE "fan",
                                          cell |-> f[1], todo |-> f[2]]]
    BY <1>4 DEF PackRow
  <2>2. /\ f[1] \in Cells /\ PackBuilder \notin f[2]
        /\ Reading => f[1] = CellOf(g)
    BY LookupsAre
  <2>3. PICK r : r = Row(g, PackBuilder, f[1])
    OBVIOUS
  <2>4. r \in RowType /\ r.of = g /\ r.at = PackBuilder /\ r.cell = f[1]
    BY <2>2, <2>3, RowIs, PackThere DEF PackIsComponent
  <2>5. /\ call'[g].pc = IF f[2] = {} THEN "done" ELSE "fan"
        /\ call'[g].cell = f[1] /\ call'[g].todo = f[2]
        /\ \A h \in Grades : h # g => call'[h] = call[h]
    BY <1>1, <2>1
  <2>6. \A c : Owed(g, c) = 1 /\ Owed(g, c)' \in {0, 1}
    BY <1>4 DEF PackRow, Owed
  <2>7. Owed(g, r.at)' = 0
    BY <2>2, <2>4, <2>5 DEF Owed
  <2>8. UNCHANGED <<env, lines, events, fill>>
    BY <1>4 DEF PackRow
  <2>9. \A c \in Components : Owed(g, c)' <= Owed(g, c)
    BY <2>6
  <2> QED
    BY <1>3, <2>1, <2>2, <2>3, <2>4, <2>5, <2>6, <2>7, <2>8, <2>9, CallAddsRow
<1>5. CASE StrategyRow(g)
  <2>1. PICK c \in call[g].todo :
          /\ Recorded(Row(g, c, call[g].cell))
          /\ call' = [call EXCEPT ![g].todo = @ \ {c}, ![g].pc = IF call[g].todo = {c} THEN "done" ELSE @]
    BY <1>5 DEF StrategyRow
  <2>2. /\ call[g].pc = "fan" /\ call[g].cell \in Cells /\ c \in Components
        /\ Reading => call[g].cell = CellOf(g)
    BY <1>1, <1>5 DEF StrategyRow, CallType, RowInv, Celled
  <2>3. PICK r : r = Row(g, c, call[g].cell)
    OBVIOUS
  <2>4. r \in RowType /\ r.of = g /\ r.at = c /\ r.cell = call[g].cell
    BY <2>2, <2>3, RowIs
  <2>5. PICK to \in {"fan", "done"} : to = IF call[g].todo = {c} THEN "done" ELSE "fan"
    OBVIOUS
  <2>6. /\ call'[g].pc = to /\ call'[g].cell = call[g].cell /\ call'[g].todo = call[g].todo \ {c}
        /\ \A h \in Grades : h # g => call'[h] = call[h]
    BY <1>1, <2>1, <2>2, <2>5 DEF CallType
  <2>7. Owed(g, r.at) = 1 /\ Owed(g, r.at)' = 0
    BY <2>1, <2>2, <2>4, <2>6 DEF Owed
  <2>8. \A d \in Components : Owed(g, d)' <= Owed(g, d)
    BY <2>2, <2>6 DEF Owed
  <2>9. UNCHANGED <<env, lines, events, fill>>
    BY <1>5 DEF StrategyRow
  <2> QED
    BY <1>3, <2>1, <2>2, <2>3, <2>4, <2>6, <2>7, <2>8, <2>9, CallAddsRow
<1> QED
  BY <1>2, <1>4, <1>5 DEF Call

-----------------------------------------------------------------------------
LEMMA OneEvent ==
    ASSUME FeedbackTypeOK, Once, InTurn, NEW i \in DOMAIN events, NEW j \in DOMAIN events,
           events[i].of \in Grades, events[i].of = events[j].of
    PROVE  i = j
<1> SUFFICES ASSUME i # j PROVE FALSE
  OBVIOUS
<1>1. PICK g \in Grades : g = events[i].of
  OBVIOUS
<1>2. Cardinality(EventsOf(g)) <= 1
  <2>1. /\ Cardinality(EventsOf(g)) \in Nat /\ Cardinality(Emitters(g)) \in Nat /\ Due(g) \in {0, 1}
        /\ Most = 1 /\ Cardinality(EventsOf(g)) + Cardinality(Emitters(g)) + Due(g) <= Most
    BY EventsAre, EmittersAre DEF Due, Once, Most
  <2>2. PICK a \in Nat, b \in Nat, d \in {0, 1} :
          a = Cardinality(EventsOf(g)) /\ b = Cardinality(Emitters(g)) /\ d = Due(g)
    BY <2>1
  <2> QED
    BY <2>1, <2>2
<1>3. PICK S, T : S = {i} /\ T = S \cup {j}
  OBVIOUS
<1>4. IsFiniteSet(S) /\ Cardinality(S) = 1
  BY <1>3, FS_Singleton
<1>5. Cardinality(T) = 2
  <2>1. j \notin S
    BY <1>3
  <2> QED
    BY <1>3, <1>4, <2>1, FS_AddElement
<1>6. T \subseteq EventsOf(g) /\ IsFiniteSet(EventsOf(g))
  BY <1>1, <1>3, EventsAre DEF EventsOf
<1>7. Cardinality(T) <= Cardinality(EventsOf(g)) /\ Cardinality(EventsOf(g)) \in Nat
  BY <1>6, FS_Subset, EventsAre
<1> QED
  BY <1>2, <1>5, <1>7

LEMMA BackfillKeepsRows ==
    ASSUME FeedbackTypeOK, EventInv, RowInv, Backfill
    PROVE  RowInv'
<1>1. /\ rows \in Seq(RowType) /\ fill \in FillType /\ fill.plan \in Seq(RowType)
      /\ fill.count \in Nat /\ Len(rows) \in Nat
  BY DEF FeedbackTypeOK, FillType
<1>2. UNCHANGED <<env, lines, events, call, recon>>
  BY DEF Backfill, Plan, CountRows, QueryRows, WriteChunk, BackfillStops
<1>3. Reading' = Reading /\ InTurn' = InTurn /\ Logged' = Logged
  BY <1>2 DEF Reading, InTurn, Logged
<1> SUFFICES /\ Reading => InCell(rows') /\ InCell(fill'.plan)
             /\ InTurn => Counted' /\ Planned'
             /\ Filled'
  BY <1>2, <1>3 DEF RowInv, Celled, Single
<1>4. ASSUME rows' = rows PROVE (Reading => InCell(rows')) /\ (InTurn => Counted')
  BY <1>2, <1>4 DEF RowInv, Celled, Single, Counted, Copies, Owed
<1>5. CASE Plan
  <2>1. PICK found \in [Grades -> Cells \X SUBSET Components] :
          /\ \A g \in Grades : found[g] \in Lookups(g)
          /\ fill' = [pc |-> "count", seen |-> Logged \ Governed, count |-> 0, plan |-> PlanOf(found)]
    BY <1>5 DEF Plan, PlanOf
  <2>2. PICK plan : plan = PlanOf(found)
    OBVIOUS
  <2>3. /\ plan \in Seq(RowType)
        /\ \A r \in Items(plan) : r.of \in Logged /\ r.of \in Grades
        /\ (\A i, j \in DOMAIN events : events[i].of \in Grades /\ events[i].of = events[j].of => i = j)
             => NoneTwice(plan)
        /\ Reading => /\ InCell(plan)
                      /\ \A g \in Logged \ Governed : Fan(g) \subseteq KeysOf(plan)
    BY <2>1, <2>2, PlanIs DEF EventInv
  <2>4. fill'.pc = "count" /\ fill'.plan = plan /\ fill'.seen = Logged \ Governed /\ rows' = rows
    BY <1>5, <2>1, <2>2 DEF Plan
  <2>5. ASSUME InTurn PROVE Planned'
    <3>1. NoneTwice(plan)
      BY <2>3, <2>5, OneEvent DEF EventInv
    <3> QED
      BY <1>3, <2>3, <2>4, <3>1 DEF Planned
  <2>6. Filled'
    BY <1>3, <2>3, <2>4 DEF Filled, Filling
  <2> QED
    BY <1>4, <2>3, <2>4, <2>5, <2>6
<1>6. CASE CountRows
  <2>1. fill'.pc = "query" /\ fill'.count = Len(rows) /\ fill'.plan = fill.plan /\ fill'.seen = fill.seen /\ rows' = rows
    BY <1>1, <1>6 DEF CountRows, FillType
  <2>2. Filling
    BY <1>6 DEF CountRows, Filling
  <2>3. InTurn => Planned'
    BY <1>3, <2>1, <2>2 DEF Planned, RowInv, Single
  <2>4. Filled'
    BY <1>3, <2>1 DEF Filled, Filling, RowInv
  <2> QED
    BY <1>4, <2>1, <2>3, <2>4 DEF RowInv, Celled
<1>7. CASE QueryRows
  <2>0. PICK found : found = FirstRows(fill.count + 1)
    OBVIOUS
  <2>1. PICK t \in Seq(RowType) : t = Left(fill.plan, found)
    BY <1>7, <2>0, QueryIs DEF Pending
  <2>2. /\ fill' = [fill EXCEPT !.plan = t, !.count = 0, !.pc = IF t = <<>> THEN "done" ELSE "write"]
        /\ rows' = rows
    BY <1>7, <2>0, <2>1, QueryIs DEF Pending
  <2>3. fill'.plan = t /\ fill'.seen = fill.seen /\ fill'.pc = IF t = <<>> THEN "done" ELSE "write"
    BY <1>1, <2>2 DEF FillType
  <2>4. Items(t) = {r \in Items(fill.plan) : ~Present(r, found)} /\ (NoneTwice(fill.plan) => NoneTwice(t))
    BY <1>1, <2>1, LeftAre
  <2>5. found \subseteq Items(rows) /\ (Len(rows) = fill.count => found = Items(rows))
    <3>1. PICK n \in Nat : n = fill.count + 1
      BY <1>1
    <3>2. found \subseteq Items(rows) /\ (Len(rows) < n => found = Items(rows))
      BY <2>0, <3>1, FirstRowsAre
    <3> QED
      BY <1>1, <3>1, <3>2
  <2>6. /\ KeysOf(t) = {RowKey(r) : r \in Items(t)} /\ KeysOf(rows) = {RowKey(r) : r \in Items(rows)}
        /\ KeysOf(fill.plan) = {RowKey(r) : r \in Items(fill.plan)}
    BY <1>1, KeysAre
  <2>7. Reading => InCell(t)
    <3>1. /\ InCell(t) <=> \A r \in Items(t) : r.cell = CellOf(r.of)
          /\ InCell(fill.plan) <=> \A r \in Items(fill.plan) : r.cell = CellOf(r.of)
      BY <1>1, KeysAre
    <3> QED
      BY <2>4, <3>1 DEF RowInv, Celled
  <2>8. ASSUME InTurn PROVE Planned'
    <3>1. /\ NoneTwice(fill.plan) /\ \A r \in Items(fill.plan) : r.of \in Logged
          /\ fill.count = Len(rows)
      BY <1>7, <2>8 DEF RowInv, Single, Planned, QueryRows, Filling
    <3>2. KeysOf(t) \cap KeysOf(rows) = {}
      BY <2>4, <2>5, <2>6, <3>1 DEF Present
    <3> QED
      BY <1>3, <2>2, <2>3, <2>4, <3>1, <3>2 DEF Planned
  <2>9. Filled'
    <3>1. KeysOf(fill.plan) \subseteq KeysOf(t) \cup KeysOf(rows)
      BY <2>4, <2>5, <2>6 DEF Present
    <3>2. Reading => \A g \in fill.seen : Fan(g) \subseteq KeysOf(t) \cup KeysOf(rows)
      BY <3>1 DEF RowInv, Filled
    <3> QED
      BY <1>3, <2>2, <2>3, <3>2 DEF Filled, Filling
  <2> QED
    BY <1>4, <2>2, <2>3, <2>7, <2>8, <2>9
<1>8. CASE WriteChunk
  <2>1. PICK n, t, u : /\ n = IF Len(fill.plan) < ChunkSize THEN Len(fill.plan) ELSE ChunkSize
                       /\ t = SubSeq(fill.plan, 1, n) /\ u = SubSeq(fill.plan, n + 1, Len(fill.plan))
    OBVIOUS
  <2>2. /\ rows' = rows \o t
        /\ fill' = [fill EXCEPT !.plan = u, !.pc = IF n = Len(fill.plan) THEN "done" ELSE fill.pc]
    BY <1>8, <2>1 DEF WriteChunk
  <2>3. n \in 0..Len(fill.plan)
    <3>1. Len(fill.plan) \in Nat /\ ChunkSize \in Nat
      BY <1>1, FeedbackConstants
    <3> QED
      BY <2>1, <3>1
  <2>4. /\ t \in Seq(RowType) /\ u \in Seq(RowType) /\ Items(fill.plan) = Items(t) \cup Items(u)
        /\ KeysOf(fill.plan) = KeysOf(t) \cup KeysOf(u)
        /\ NoneTwice(fill.plan) => NoneTwice(t) /\ NoneTwice(u) /\ KeysOf(t) \cap KeysOf(u) = {}
        /\ InCell(fill.plan) => InCell(t) /\ InCell(u)
        /\ n = Len(fill.plan) => u = <<>>
    <3>1. Cut(fill.plan, n, t, u)
      BY <2>1, <2>3 DEF Cut
    <3> QED
      BY <1>1, <3>1, CutRows
  <2>5. /\ Items(rows') = Items(rows) \cup Items(t) /\ KeysOf(rows') = KeysOf(rows) \cup KeysOf(t)
        /\ InCell(rows) /\ InCell(t) => InCell(rows')
    BY <1>1, <2>2, <2>4, JoinedRows
  <2>6. /\ fill.pc = "write" /\ fill'.plan = u /\ fill'.seen = fill.seen
        /\ fill'.pc = IF n = Len(fill.plan) THEN "done" ELSE "write"
    BY <1>1, <1>8, <2>2 DEF WriteChunk, FillType
  <2>7. Reading => InCell(rows') /\ InCell(fill'.plan)
    BY <2>4, <2>5, <2>6 DEF RowInv, Celled
  <2>8. ASSUME InTurn PROVE Counted' /\ Planned'
    <3>1. /\ NoneTwice(fill.plan) /\ \A r \in Items(fill.plan) : r.of \in Logged
          /\ KeysOf(fill.plan) \cap KeysOf(rows) = {} /\ Counted /\ CallsRest
      BY <2>6, <2>8 DEF RowInv, Single, Planned, Filling, EventInv, Turns
    <3>3. Planned'
      <4>1. KeysOf(u) \cap KeysOf(rows') = {}
        BY <2>4, <2>5, <3>1
      <4> QED
        BY <1>3, <2>4, <2>6, <3>1, <4>1 DEF Planned
    <3>4. Counted'
      <4> SUFFICES ASSUME NEW g \in Grades, NEW c \in Components
                   PROVE  Cardinality(Copies(g, c)') + Owed(g, c) <= lines[g]
        BY <1>2 DEF Counted, Owed
      <4>1. /\ Cardinality(Copies(g, c)) \in Nat /\ Owed(g, c) = 0 /\ lines[g] \in Nat
            /\ Cardinality(Copies(g, c)) + Owed(g, c) <= lines[g]
        BY <3>1, CopiesAre DEF Counted, Owed, CallsRest, FeedbackTypeOK
      <4>2. /\ Cardinality(Copies(g, c)') \in Nat
            /\ <<g, c>> \in KeysOf(t) => Cardinality(Copies(g, c)') <= 1
            /\ <<g, c>> \notin KeysOf(t) => Cardinality(Copies(g, c)') = Cardinality(Copies(g, c))
        <5>1. NoneTwice(t) /\ KeysOf(rows) \cap KeysOf(t) = {}
          BY <2>4, <3>1
        <5> QED
          BY <2>2, <2>4, <5>1, CopiesJoined
      <4>3. <<g, c>> \in KeysOf(t) => lines[g] >= 1
        <5>1. ASSUME <<g, c>> \in KeysOf(t) PROVE g \in Logged
          <6>1. PICK r \in Items(t) : RowKey(r) = <<g, c>>
            BY <2>4, <5>1, KeysAre
          <6>2. r.of = g
            BY <6>1 DEF RowKey
          <6> QED
            BY <2>4, <3>1, <6>1, <6>2
        <5>2. g \in Logged => g \in InFile
          BY DEF EventInv, Lined
        <5> QED
          BY <4>1, <5>1, <5>2 DEF InFile
      <4> QED
        BY <4>1, <4>2, <4>3
    <3> QED
      BY <3>3, <3>4
  <2>9. Filled'
    <3>1. Reading => \A g \in fill.seen : Fan(g) \subseteq KeysOf(u) \cup KeysOf(rows')
      BY <2>4, <2>5 DEF RowInv, Filled
    <3> QED
      BY <1>3, <2>4, <2>6, <3>1 DEF Filled, Filling
  <2> QED
    BY <2>7, <2>8, <2>9
<1>9. CASE BackfillStops
  <2>1. fill'.pc = "idle" /\ fill'.plan = <<>> /\ fill'.seen = {} /\ rows' = rows
    BY <1>9 DEF BackfillStops
  <2>2. Planned' /\ Filled' /\ InCell(<<>>)
    BY <2>1 DEF Planned, Filled, Filling, InCell
  <2> QED
    BY <1>4, <2>1, <2>2
<1> QED
  BY <1>5, <1>6, <1>7, <1>8, <1>9 DEF Backfill

-----------------------------------------------------------------------------
(* Feedback: the theorems.                                                 *)

LEMMA FeedbackStarts == FeedbackInit => FeedbackInv
<1> SUFFICES ASSUME FeedbackInit PROVE FeedbackInv
  OBVIOUS
<1>1. FeedbackTypeOK
  BY TypesAtFirst
<1>2. /\ events \in Seq(EventType) /\ Logged = InFile \cup Governed /\ Packed
      /\ \A i, j \in DOMAIN events : events[i].of = events[j].of => i = j
      /\ lines \in [Grades -> Nat] /\ InFile \subseteq Grades
      /\ call = [g \in Grades |-> [pc |-> IF g \in InFile THEN "done" ELSE "new",
                                   cell |-> "unscoped", todo |-> {}]]
  BY FirstEvents
<1>3. /\ rows = <<>> /\ fill = [pc |-> "idle", seen |-> {}, plan |-> <<>>, count |-> 0]
      /\ recon = [r \in Reconcilers |->
                    [pc |-> "idle", lines |-> {}, todo |-> [g \in Grades |-> 0],
                     at |-> NoGrade, failed |-> {}]]
  BY DEF FeedbackInit
<1>4. Turns /\ Swept
  BY <1>3 DEF Turns, Swept, Active, Filling
<1>5. Lined
  <2>1. Grades \cap Governed = {}
    BY FeedbackConstants
  <2> QED
    <3>1. \A r \in Reconcilers : /\ recon[r].lines = {} /\ recon[r].pc = "idle"
                                 /\ \A g \in Grades : recon[r].todo[g] = 0
      BY <1>3
    <3>2. \A r \in Reconcilers : Still(recon[r].todo) = {}
      BY <3>1 DEF Still
    <3> QED
      BY <1>2, <2>1, <3>1, <3>2 DEF Lined
<1>6. Once
  <2> SUFFICES ASSUME NEW g \in Grades
               PROVE  Cardinality(EventsOf(g)) + Cardinality(Emitters(g)) + Due(g) <= Most
    BY DEF Once
  <2>1. Cardinality(EventsOf(g)) \in Nat /\ Cardinality(EventsOf(g)) <= 1
    <3>1. CASE EventsOf(g) = {}
      BY <3>1, FS_EmptySet
    <3>2. CASE EventsOf(g) # {}
      <4>1. PICK i \in EventsOf(g) : TRUE
        BY <3>2
      <4>2. EventsOf(g) = {i}
        BY <1>2, <4>1 DEF EventsOf
      <4> QED
        BY <4>2, FS_Singleton
    <3> QED
      BY <3>1, <3>2
  <2>2. Cardinality(Emitters(g)) = 0
    <3>1. Emitters(g) = {}
      BY <1>3 DEF Emitters
    <3> QED
      BY <3>1, FS_EmptySet
  <2>3. Due(g) = 0
    BY <1>2 DEF Due
  <2>4. Most \in Nat /\ Most >= 1
    BY EmittersAre DEF Most
  <2> QED
    BY <2>1, <2>2, <2>3, <2>4
<1>7. RowInv
  <2>1. Counted
    <3> SUFFICES ASSUME NEW g \in Grades, NEW c \in Components
                 PROVE  Cardinality(Copies(g, c)) + Owed(g, c) <= lines[g]
      BY DEF Counted
    <3>1. Copies(g, c) = {}
      BY <1>3 DEF Copies
    <3>2. Cardinality(Copies(g, c)) = 0
      BY <3>1, FS_EmptySet
    <3>3. Owed(g, c) = 0 /\ lines[g] \in Nat
      BY <1>2 DEF Owed
    <3> QED
      BY <3>2, <3>3
  <2> QED
    BY <1>2, <1>3, <2>1 DEF RowInv, Celled, Single, Filled, Planned, Filling, InCell
<1> QED
  BY <1>1, <1>2, <1>4, <1>5, <1>6, <1>7 DEF FeedbackInv, EventInv

LEMMA FeedbackSteps == FeedbackInv /\ [FeedbackNext]_feedbackVars => FeedbackInv'
<1> SUFFICES ASSUME FeedbackInv, [FeedbackNext]_feedbackVars PROVE FeedbackInv'
  OBVIOUS
<1>1. FeedbackTypeOK /\ EventInv /\ RowInv /\ Turns /\ Lined /\ Once /\ Packed /\ Swept
  BY DEF FeedbackInv, EventInv
<1>2. ASSUME NEW g \in Grades, Call(g) PROVE FeedbackInv'
  BY <1>1, <1>2, CallTyped, CallKeepsOrder, CallKeepsOnce, CallKeepsRows DEF FeedbackInv, EventInv
<1>3. ASSUME NEW r \in Reconcilers, Reconcile(r) PROVE FeedbackInv'
  BY <1>1, <1>3, ReconcileTyped, ReconcileKeepsTurns, ReconcileKeepsOrder, ReconcileKeepsOnce,
     ReconcileKeepsRows DEF FeedbackInv, EventInv
<1>4. CASE Backfill
  BY <1>1, <1>4, BackfillTyped, BackfillKeepsEvents, BackfillKeepsRows DEF FeedbackInv
<1>5. CASE UNCHANGED feedbackVars
  <2>1. UNCHANGED <<env, lines, events, rows, call, recon, fill, passes>>
    BY <1>5 DEF feedbackVars
  <2>2. FeedbackTypeOK'
    BY <1>1, <2>1 DEF FeedbackTypeOK
  <2>3. Turns' /\ Swept' /\ Packed'
    BY <1>1, <2>1 DEF Turns, Swept, Packed, Active, Filling, InTurn, CallsRest, Logged
  <2>4. Lined' /\ Once'
    BY <1>1, <2>1 DEF Lined, InFile, Once, Logged, EventsOf, Emitters, Due, Most, InTurn
  <2>5. RowInv'
    BY <1>1, <2>1 DEF RowInv, Celled, Single, Filled, Planned, Counted, Copies, Owed, Filling, Reading, InTurn, Logged
  <2> QED
    BY <2>2, <2>3, <2>4, <2>5 DEF FeedbackInv, EventInv
<1> QED
  BY <1>2, <1>3, <1>4, <1>5 DEF FeedbackNext

LEMMA FeedbackHolds == FeedbackSpec => []FeedbackInv
BY FeedbackStarts, FeedbackSteps, PTL DEF FeedbackSpec

\* The file, the log, the rows and the locals of every call and pass keep their
\* types: what a call looked up is of the pack's, and what a backfill plans is
\* rows of grades.
THEOREM FeedbackTypesHold == FeedbackSpec => []FeedbackTypeOK
<1>1. FeedbackInv => FeedbackTypeOK
  BY DEF FeedbackInv
<1> QED
  BY <1>1, FeedbackHolds, PTL

\* "A record or replay cannot double-count the same feedback", for any number of
\* grades, calls with one feedback_id, reconcilers and passes: record_feedback
\* and the reconcile leave one event where they take turns, and one more at most
\* for each reconciler where they do not.
THEOREM EventsLoggedOnce == FeedbackSpec => []EventLoggedOnce
<1>1. FeedbackInv => EventLoggedOnce
  <2> SUFFICES ASSUME FeedbackInv, NEW g \in Grades
               PROVE  Cardinality(EventsOf(g)) <= 1 + IF "overlap" \in env THEN Cardinality(Reconcilers) ELSE 0
    BY DEF EventLoggedOnce
  <2>1. PICK m : m = 1 + IF "overlap" \in env THEN Cardinality(Reconcilers) ELSE 0
    OBVIOUS
  <2>2. m = Most
    BY <2>1 DEF Most, InTurn
  <2>3. /\ Cardinality(EventsOf(g)) \in Nat /\ Cardinality(Emitters(g)) \in Nat /\ Due(g) \in {0, 1}
        /\ Most \in Nat /\ Cardinality(EventsOf(g)) + Cardinality(Emitters(g)) + Due(g) <= Most
    BY EventsAre, EmittersAre DEF Due, Once, Most, FeedbackInv, EventInv
  <2>4. PICK a \in Nat, b \in Nat, d \in {0, 1} :
          a = Cardinality(EventsOf(g)) /\ b = Cardinality(Emitters(g)) /\ d = Due(g)
    BY <2>3
  <2>5. a + b + d <= m /\ m \in Nat
    BY <2>2, <2>3, <2>4
  <2> QED
    BY <2>1, <2>4, <2>5
<1> QED
  BY <1>1, FeedbackHolds, PTL

\* A replayed feedback_id writes each row once more and nothing else does: where
\* calls and passes take turns no backfill, of any chunk size and cut short
\* anywhere, adds a row that is in place, and a call adds one of each component
\* at most.  Where the log can be read all rows of a grade are in one cell.
THEOREM RowsAreWrittenOnce == FeedbackSpec => []RowsWrittenOnce
<1>1. FeedbackInv => RowsWrittenOnce
  <2> SUFFICES ASSUME FeedbackInv PROVE RowsWrittenOnce
    OBVIOUS
  <2>1. ASSUME "overlap" \notin env, NEW g \in Grades, NEW c \in Components
        PROVE  Cardinality(Copies(g, c)) <= lines[g]
    <3>1. Cardinality(Copies(g, c)) + Owed(g, c) <= lines[g]
      BY <2>1 DEF FeedbackInv, RowInv, Single, InTurn, Counted
    <3>2. Cardinality(Copies(g, c)) \in Nat /\ Owed(g, c) \in {0, 1} /\ lines[g] \in Nat
      BY CopiesAre DEF FeedbackInv, FeedbackTypeOK, Owed
    <3> QED
      BY <3>1, <3>2
  <2>2. "read" \notin env => \A i, j \in DOMAIN rows : rows[i].of = rows[j].of => rows[i].cell = rows[j].cell
    BY DEF FeedbackInv, RowInv, Celled, Reading, InCell
  <2> QED
    BY <2>1, <2>2 DEF RowsWrittenOnce
<1> QED
  BY <1>1, FeedbackHolds, PTL

\* A reconcile that reports has logged or named every line it loaded, and a
\* backfill that reports has every row of every grade it read the event of,
\* whatever was cut short before and whatever ran beside it.
THEOREM PassesAlwaysComplete == FeedbackSpec => []PassesComplete
<1>1. FeedbackInv => PassesComplete
  <2> SUFFICES ASSUME FeedbackInv PROVE PassesComplete
    OBVIOUS
  <2>1. \A r \in Reconcilers : recon[r].pc = "done" => recon[r].lines \subseteq Logged \cup recon[r].failed
    BY DEF FeedbackInv, EventInv, Swept
  <2>2. fill.pc = "done" => KeysOf(fill.plan) = {}
    BY DEF FeedbackInv, RowInv, Filled, Filling, KeysOf
  <2>3. fill.pc = "done" /\ "read" \notin env => \A g \in fill.seen : Fan(g) \subseteq KeysOf(rows)
    BY <2>2 DEF FeedbackInv, RowInv, Filled, Reading
  <2> QED
    BY <2>1, <2>3 DEF PassesComplete
<1> QED
  BY <1>1, FeedbackHolds, PTL
=============================================================================
