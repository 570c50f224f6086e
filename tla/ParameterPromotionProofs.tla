----------------------- MODULE ParameterPromotionProofs -----------------------
(* Proofs about ParameterPromotion.  A rollback is only as good as the       *)
(* baseline it restores, and that baseline is found through an event: so     *)
(* the invariant says, for each point an actor can have reached between its  *)
(* writes, what the stores already say of the version it is working on.      *)
EXTENDS ParameterPromotion, FiniteSetTheorems, WellFoundedInduction, TLAPS

Row == [scope : Scopes, vals : Partial(Vals), prop : Proposals \cup {None},
        from : 0..MaxSnaps]
Event == [version : Versions, base : 0..MaxSnaps, from : 0..MaxSnaps]

AnchorsIn(U, v) == {e \in U : e.version = v /\ e.from = NoVersion}

\* Version v in S is a promotion, on record in U with an older baseline.
Sound(v, S, U) ==
    /\ v \in 1..Len(S) /\ S[v].from = NoVersion
    /\ AnchorsIn(U, v) # {}
    /\ \A e \in AnchorsIn(U, v) : e.base \in 1..(v - 1)

\* Version v in S undoes one of A, and restores the baseline U names.
Undoes(v, S, U, A) ==
    /\ S[v].from \in A
    /\ S[v].scope = S[S[v].from].scope
    /\ \E e \in AnchorsIn(U, S[v].from) : S[v].vals = S[e.base].vals

\* What an actor that has stored its version and has not recorded it knows.
Stored(r, a, S, U, A) ==
    /\ r.version \in 1..Len(S) /\ S[r.version].from = NoVersion
    /\ r.base \in 0..(r.version - 1) /\ (a \in Workers => r.base # NoVersion)
    /\ AnchorsIn(U, r.version) = {} /\ r.version \notin A

Holding(r) == r.pc \in {"mark", "emit"}

\* What the locals of actor a say about the stores.
Good(r, a, S, U, A) ==
    /\ r.sweep \subseteq A
    /\ a \in Workers => r.policy = "auto"
    /\ r.pc \in {"write", "gate", "refuse", "put", "mark"} => r.q \in Proposals
    /\ r.pc = "put" => r.base \in 0..Len(S) /\ (a \in Workers => r.base # NoVersion)
    /\ Holding(r) => Stored(r, a, S, U, A)
    /\ r.pc = "announce" => Sound(r.version, S, U)
    /\ r.pc \in {"monitor", "demote", "revert"} => r.version \in A
    /\ r.pc = "demote" => \E e \in AnchorsIn(U, r.version) : e.base = r.base
    /\ r.pc \in {"revert", "report"} => r.by \in 1..Len(S) /\ r.version \in 1..Len(S)

Inv ==
    /\ TypeOK
    /\ \A a \in Actors : Good(run[a], a, snaps, updated, auto)
    /\ \A a, b \in Actors : a # b /\ Holding(run[a]) /\ Holding(run[b])
                            => run[a].version # run[b].version
    /\ \A e \in updated : e.version \in 1..Len(snaps)
    /\ \A v \in auto : Sound(v, snaps, updated)
    /\ \A v \in 1..Len(snaps) :
         snaps[v].from # NoVersion => Undoes(v, snaps, updated, auto)

-----------------------------------------------------------------------------
(* Values                                                                    *)

LEMMA EmptyIsPartial == <<>> \in Partial(Vals) /\ DOMAIN <<>> = {}
<1>1. DOMAIN <<>> = {}
  OBVIOUS
<1>2. <<>> \in [{} -> Vals]
  BY <1>1
<1> QED
  BY <1>1, <1>2 DEF Partial

\* Merging a change onto a baseline gives values again.
LEMMA MergeIsPartial ==
    ASSUME NEW x \in Partial(Vals), NEW y \in Partial(Vals)
    PROVE  Merge(x, y) \in Partial(Vals)
<1>1. PICK S \in SUBSET Keys : x \in [S -> Vals]
  BY DEF Partial
<1>2. PICK T \in SUBSET Keys : y \in [T -> Vals]
  BY DEF Partial
<1>3. Merge(x, y) \in [S \cup T -> Vals]
  BY <1>1, <1>2 DEF Merge
<1> QED
  BY <1>1, <1>2, <1>3 DEF Partial

LEMMA GreatestNatural ==
    ASSUME NEW n \in Nat, NEW T, T \subseteq 1..n, T # {}
    PROVE  \E v \in T : \A w \in T : w <= v
<1> DEFINE R == {ss \in Nat \X Nat : ss[1] < ss[2]}
<1> DEFINE C == {m \in Nat : n - m \in T}
<1>1. IsWellFoundedOn(R, Nat)
  BY NatLessThanWellFounded DEF OpToRel
<1>2. C \subseteq Nat /\ C # {}
  <2>1. PICK v \in T : v \in 1..n
    OBVIOUS
  <2>2. n - v \in Nat /\ n - (n - v) = v
    BY <2>1
  <2> QED
    BY <2>1, <2>2
<1>3. PICK x \in C : \A y \in C : ~(<<y, x>> \in R)
  <2> HIDE DEF R, C
  <2> QED
    BY <1>1, <1>2, WFMin
<1>4. \A y \in C : ~(y < x)
  BY <1>3
<1>5. n - x \in T
  BY <1>3
<1>6. ASSUME NEW w \in T
      PROVE  w <= n - x
  <2>1. w \in 1..n /\ n - w \in Nat /\ n - (n - w) = w
    OBVIOUS
  <2>2. n - w \in C
    BY <2>1
  <2> QED
    BY <1>4, <1>5, <2>1, <2>2
<1> QED
  BY <1>5, <1>6

LEMMA HighestIsOf ==
    ASSUME NEW n \in Nat, NEW T, T \subseteq 1..n
    PROVE  Highest(T) \in 0..n
<1>1. CASE T = {}
  <2>1. Highest(T) = 0
    BY <1>1 DEF Highest, NoVersion
  <2> QED
    BY <2>1
<1>2. CASE T # {}
  <2>1. \E v \in T : \A w \in T : w <= v
    BY <1>2, GreatestNatural
  <2>2. Highest(T) \in T
    BY <1>2, <2>1 DEF Highest
  <2>3. Highest(T) \in 1..n
    BY <2>2
  <2>4. \A v \in 1..n : v \in 0..n
    OBVIOUS
  <2> QED
    BY <2>3, <2>4
<1> QED
  BY <1>1, <1>2

\* A scope resolves to a version there is, or to none.
LEMMA ResolveIsVersion ==
    ASSUME TypeOK, NEW s \in Scopes
    PROVE  Resolve(s) \in 0..Len(snaps)
<1>1. Len(snaps) \in Nat
  BY DEF TypeOK
<1>2. ASSUME NEW c
      PROVE  Highest(At(c)) \in 0..Len(snaps)
  <2>1. At(c) \subseteq 1..Len(snaps)
    BY DEF At
  <2> QED
    BY <1>1, <2>1, HighestIsOf
<1>3. 0 \in 0..Len(snaps)
  BY <1>1
<1> QED
  BY <1>2, <1>3 DEF Resolve, NoVersion

LEMMA ValuesArePartial ==
    ASSUME TypeOK, NEW v \in 0..Len(snaps)
    PROVE  ValuesOf(v) \in Partial(Vals)
<1>1. CASE v = NoVersion
  BY <1>1, EmptyIsPartial DEF ValuesOf
<1>2. CASE v # NoVersion
  <2>1. v \in 1..Len(snaps)
    BY <1>2 DEF NoVersion, TypeOK
  <2>2. snaps \in Seq(Row)
    BY DEF TypeOK, Row
  <2>3. snaps[v] \in Row
    BY <2>1, <2>2
  <2>4. snaps[v].vals \in Partial(Vals)
    BY <2>3 DEF Row
  <2> QED
    BY <1>2, <2>4 DEF ValuesOf
<1> QED
  BY <1>1, <1>2

\* The unattended gate lets nothing through that has no baseline.
LEMMA PassedHasBase ==
    ASSUME TypeOK, NEW q, NEW size, NEW base \in 0..Len(snaps),
           ApplyPolicy(q, size, base, "auto") = "passed"
    PROVE  base # NoVersion
<1>1. Comparable(q, base) # {}
  BY DEF ApplyPolicy
<1>2. base = NoVersion => DOMAIN ValuesOf(base) = {}
  BY EmptyIsPartial DEF ValuesOf
<1> QED
  BY <1>1, <1>2 DEF Comparable

-----------------------------------------------------------------------------
(* What a write of one actor leaves standing                                 *)

LEMMA MoreSnaps ==
    ASSUME NEW S \in Seq(Row), NEW row \in Row, NEW U, NEW A, NEW r, NEW a,
           Good(r, a, S, U, A)
    PROVE  Good(r, a, Append(S, row), U, A)
<1>1. /\ Len(S) \in Nat /\ Len(Append(S, row)) = Len(S) + 1
      /\ \A v \in 1..Len(S) : Append(S, row)[v] = S[v]
  OBVIOUS
<1>2. Sound(r.version, S, U) => Sound(r.version, Append(S, row), U)
  BY <1>1 DEF Sound
<1>3. Stored(r, a, S, U, A) => Stored(r, a, Append(S, row), U, A)
  BY <1>1 DEF Stored
<1>4. r.base \in 0..Len(S) => r.base \in 0..Len(Append(S, row))
  BY <1>1
<1> QED
  BY <1>2, <1>3, <1>4 DEF Good

\* A rollback's event anchors nothing, and a promotion's is the first of its
\* version.
LEMMA MoreEvents ==
    ASSUME NEW S, NEW U, NEW A, NEW e, NEW r, NEW a, Good(r, a, S, U, A),
           \/ e.from # NoVersion
           \/ AnchorsIn(U, e.version) = {} /\ (Holding(r) => r.version # e.version)
    PROVE  Good(r, a, S, U \cup {e}, A)
<1>1. \A v : AnchorsIn(U, v) \subseteq AnchorsIn(U \cup {e}, v)
  BY DEF AnchorsIn
<1>2. \A v : \/ e.from = NoVersion /\ v = e.version
             \/ AnchorsIn(U \cup {e}, v) = AnchorsIn(U, v)
  BY DEF AnchorsIn
<1>3. Sound(r.version, S, U) => Sound(r.version, S, U \cup {e})
  BY <1>2 DEF Sound
<1>4. Holding(r) /\ Stored(r, a, S, U, A) => Stored(r, a, S, U \cup {e}, A)
  BY <1>2 DEF Stored
<1> QED
  BY <1>1, <1>3, <1>4 DEF Good

LEMMA MoreAuto ==
    ASSUME NEW S, NEW U, NEW A, NEW v, NEW r, NEW a, Good(r, a, S, U, A), Sound(v, S, U)
    PROVE  Good(r, a, S, U, A \cup {v})
<1>1. Stored(r, a, S, U, A) => Stored(r, a, S, U, A \cup {v})
  BY DEF Stored, Sound
<1> QED
  BY <1>1 DEF Good

-----------------------------------------------------------------------------
(* Types of the locals                                                       *)

LEMMA Constants0 ==
    /\ 0 \in 0..MaxSnaps /\ None \in Proposals \cup {None}
    /\ \A v \in Versions : v \in 0..MaxSnaps
    /\ {} \in SUBSET Proposals /\ {} \in SUBSET Versions
    /\ [q \in Proposals |-> Unlisted] \in [Proposals -> Tiers \cup {Unlisted}]
BY PromotionAssumption DEF Versions

LEMMA IdleOK == Idle \in RunState
BY Constants0 DEF Idle, RunState, NoVersion, Policies

LEMMA IdleIsGood ==
    ASSUME NEW a, NEW S, NEW U, NEW A
    PROVE  Good(Idle, a, S, U, A) /\ ~Holding(Idle)
BY DEF Idle, Good, Holding

\* Locals after a step that leaves the lists alone.
LEMMA MovedOK ==
    ASSUME NEW r \in RunState, NEW pc \in {"tune", "write", "gate", "refuse", "put",
              "mark", "emit", "announce", "monitor", "demote", "revert", "report", "sweep"},
           NEW q \in Proposals \cup {None}, NEW base \in 0..MaxSnaps,
           NEW version \in 0..MaxSnaps, NEW by \in 0..MaxSnaps
    PROVE  [r EXCEPT !.pc = pc, !.q = q, !.base = base, !.version = version,
                     !.by = by] \in RunState
<1>1. [r EXCEPT !.pc = pc, !.q = q] \in RunState
  BY DEF RunState
<1>2. [[r EXCEPT !.pc = pc, !.q = q] EXCEPT !.base = base, !.version = version, !.by = by]
        \in RunState
  BY <1>1 DEF RunState
<1>3. [[r EXCEPT !.pc = pc, !.q = q] EXCEPT !.base = base, !.version = version, !.by = by]
        = [r EXCEPT !.pc = pc, !.q = q, !.base = base, !.version = version, !.by = by]
  BY DEF RunState
<1> QED
  BY <1>2, <1>3

LEMMA VersionStored ==
    ASSUME NEW r \in RunState, NEW n \in 1..MaxSnaps
    PROVE  /\ [r EXCEPT !.pc = "mark", !.version = n] \in RunState
           /\ [r EXCEPT !.pc = "mark", !.version = n].version = n
           /\ [r EXCEPT !.pc = "mark", !.version = n].base = r.base
<1>1. n \in 0..MaxSnaps
  BY PromotionAssumption
<1> QED
  BY <1>1 DEF RunState

-----------------------------------------------------------------------------
(* Steps by what they write                                                  *)

RestOK ==
    /\ env \in SUBSET Events
    /\ health \in [Versions -> {"few", "fine", "worse"}]
    /\ rolled \in SUBSET [version : Versions, by : Versions]
    /\ spent \in [acts : 0..MaxActs, faults : 0..MaxFaults]
PropOK == prop \in [Proposals -> [status : Terminal \cup {"pending", None}, size : Tiers]]

LEMMA TypeParts ==
    TypeOK <=> /\ RestOK /\ PropOK
               /\ snaps \in Seq(Row) /\ Len(snaps) <= MaxSnaps
               /\ updated \in SUBSET Event
               /\ auto \in SUBSET Versions
               /\ run \in [Actors -> RunState]
BY DEF TypeOK, RestOK, PropOK, Row, Event

\* No version comes or goes and no event that names one: only actor a has
\* moved, and it holds no version it did not hold.
LEMMA StepLocal ==
    ASSUME Inv, NEW a \in Actors, NEW r \in RunState, run' = [run EXCEPT ![a] = r],
           UNCHANGED <<snaps, updated, auto>>, RestOK', PropOK',
           Good(r, a, snaps, updated, auto),
           Holding(r) => Holding(run[a]) /\ r.version = run[a].version
    PROVE  Inv'
<1>1. TypeOK /\ run \in [Actors -> RunState]
  BY DEF Inv, TypeOK
<1>2. run'[a] = r /\ \A b \in Actors \ {a} : run'[b] = run[b]
  BY <1>1
<1>3. TypeOK'
  <2>1. run' \in [Actors -> RunState]
    BY <1>1
  <2> QED
    BY <1>1, <2>1 DEF TypeOK, RestOK, PropOK
<1>4. \A b \in Actors : Good(run'[b], b, snaps', updated', auto')
  BY <1>2 DEF Inv
<1>5. \A b, c \in Actors : b # c /\ Holding(run'[b]) /\ Holding(run'[c])
                             => run'[b].version # run'[c].version
  BY <1>2 DEF Inv
<1> QED
  BY <1>3, <1>4, <1>5 DEF Inv

\* A rollback on record stays one as more snapshots come.
LEMMA UndoesStays ==
    ASSUME NEW S \in Seq(Row), NEW T \in Seq(Row), Len(S) <= Len(T),
           \A v \in 1..Len(S) : T[v] = S[v], NEW U, NEW A,
           \A v \in A : Sound(v, S, U),
           NEW v \in 1..Len(S), Undoes(v, S, U, A)
    PROVE  Undoes(v, T, U, A)
<1>1. Sound(S[v].from, S, U) /\ T[v] = S[v]
  BY DEF Undoes
<1>2. T[S[v].from] = S[S[v].from]
  BY <1>1 DEF Sound
<1>3. \A e \in AnchorsIn(U, S[v].from) : e.base \in 1..Len(S)
  BY <1>1 DEF Sound
<1> QED
  BY <1>1, <1>2, <1>3 DEF Undoes

\* Actor a stores a snapshot, of a promotion or of a rollback.
LEMMA StepSnap ==
    ASSUME Inv, NEW a \in Actors, NEW row \in Row, NEW n, n = Len(snaps) + 1,
           n <= MaxSnaps, snaps' = Append(snaps, row),
           NEW r \in RunState, run' = [run EXCEPT ![a] = r],
           UNCHANGED <<env, prop, updated, auto, rolled, health, spent>>,
           Good(r, a, snaps', updated, auto),
           Holding(r) => r.version = n,
           row.from # NoVersion => Undoes(n, snaps', updated, auto)
    PROVE  Inv'
<1>1. /\ TypeOK /\ snaps \in Seq(Row) /\ Len(snaps) \in Nat
      /\ run \in [Actors -> RunState]
  BY TypeParts DEF Inv
<1>2. n \in 1..MaxSnaps /\ n \notin 1..Len(snaps)
  BY <1>1, PromotionAssumption
<1>3. /\ snaps' \in Seq(Row) /\ Len(snaps') = n /\ snaps'[n] = row
      /\ \A v \in 1..Len(snaps) : snaps'[v] = snaps[v]
  BY <1>1
<1>4. /\ run' \in [Actors -> RunState] /\ run'[a] = r
      /\ \A b \in Actors \ {a} : run'[b] = run[b]
  BY <1>1
<1>5. TypeOK'
  <2>1. Len(snaps') <= MaxSnaps
    BY <1>2, <1>3
  <2> QED
    BY <1>1, <1>3, <1>4, <2>1 DEF TypeOK, Row
<1>6. \A b \in Actors : Good(run'[b], b, snaps', updated', auto')
  <2>1. \A b \in Actors : Good(run[b], b, snaps, updated, auto)
    BY DEF Inv
  <2>2. \A b \in Actors : Good(run[b], b, snaps', updated, auto)
    BY <1>1, <2>1, MoreSnaps
  <2> QED
    BY <1>4, <2>2
<1>7. \A b, c \in Actors : b # c /\ Holding(run'[b]) /\ Holding(run'[c])
                             => run'[b].version # run'[c].version
  <2>1. \A b \in Actors : Holding(run[b]) => run[b].version # n
    BY <1>2 DEF Inv, Good, Stored
  <2> QED
    BY <1>4, <2>1 DEF Inv
<1>8. /\ \A e \in updated' : e.version \in 1..Len(snaps')
      /\ \A v \in auto' : Sound(v, snaps', updated')
  BY <1>1, <1>3 DEF Inv, Sound
<1>9. \A v \in 1..Len(snaps') :
        snaps'[v].from # NoVersion => Undoes(v, snaps', updated', auto')
  <2>1. ASSUME NEW v \in 1..Len(snaps), Undoes(v, snaps, updated, auto)
        PROVE  Undoes(v, snaps', updated', auto')
    <3>1. Len(snaps) <= Len(snaps') /\ \A u \in auto : Sound(u, snaps, updated)
      BY <1>1, <1>3 DEF Inv
    <3>2. Undoes(v, snaps', updated, auto)
      BY <1>1, <1>3, <2>1, <3>1, UndoesStays
    <3> QED
      BY <3>2
  <2>2. \A v \in 1..Len(snaps') : v = n \/ v \in 1..Len(snaps)
    BY <1>1, <1>3
  <2> QED
    BY <1>3, <2>1, <2>2 DEF Inv
<1> QED
  BY <1>5, <1>6, <1>7, <1>8, <1>9 DEF Inv

\* A promotion: the baseline is older than what is stored onto it.
LEMMA StepPut ==
    ASSUME Inv, NEW a \in Actors, Put(a)
    PROVE  Inv'
<1>1. /\ TypeOK /\ run[a] \in RunState /\ snaps \in Seq(Row) /\ Len(snaps) \in Nat
      /\ run \in [Actors -> RunState] /\ Good(run[a], a, snaps, updated, auto)
  BY TypeParts DEF Inv
<1>2. PICK n : n = Len(snaps) + 1
  OBVIOUS
<1>3. PICK row : row = Snapshot(Scope[run[a].q],
                  Merge(ValuesOf(run[a].base), Sets[run[a].q]), run[a].q, NoVersion)
  OBVIOUS
<1>4. PICK r : r = [run[a] EXCEPT !.pc = "mark", !.version = n]
  OBVIOUS
<1>5. /\ run[a].pc = "put" /\ n <= MaxSnaps /\ snaps' = Append(snaps, row)
      /\ run' = [run EXCEPT ![a] = r]
      /\ UNCHANGED <<env, prop, updated, auto, rolled, health, spent>>
  <2>1. /\ run[a].pc = "put" /\ snaps' = Append(snaps, row) /\ Len(snaps) < MaxSnaps
        /\ UNCHANGED <<env, prop, updated, auto, rolled, health, spent>>
    BY <1>3 DEF Put
  <2>2. run' = [run EXCEPT ![a].pc = "mark", ![a].version = n]
    BY <1>2 DEF Put
  <2>3. run' = [run EXCEPT ![a] = r]
    BY <1>1, <1>4, <2>2 DEF RunState
  <2>4. n <= MaxSnaps
    BY <1>1, <1>2, <2>1, PromotionAssumption
  <2> QED
    BY <2>1, <2>3, <2>4
<1>6. /\ run[a].q \in Proposals /\ run[a].base \in 0..Len(snaps)
      /\ a \in Workers => run[a].base # NoVersion
  BY <1>1, <1>5 DEF Good
<1>7. row \in Row /\ row.from = NoVersion
  <2>1. Scope[run[a].q] \in Scopes /\ Sets[run[a].q] \in Partial(Vals)
    BY <1>6, PromotionAssumption
  <2>2. Merge(ValuesOf(run[a].base), Sets[run[a].q]) \in Partial(Vals)
    BY <1>1, <1>6, <2>1, ValuesArePartial, MergeIsPartial
  <2> QED
    BY <1>3, <1>6, <2>1, <2>2, Constants0 DEF Snapshot, Row, NoVersion
<1>8. n \in 1..MaxSnaps /\ n \notin 1..Len(snaps)
  BY <1>1, <1>2, <1>5, PromotionAssumption
<1>9. r \in RunState /\ r.version = n /\ r.base = run[a].base
  BY <1>1, <1>4, <1>8, VersionStored
<1>10. r.pc = "mark" /\ r.q = run[a].q /\ r.policy = run[a].policy /\ r.sweep = run[a].sweep
  BY <1>1, <1>4 DEF RunState
<1>11. Len(snaps') = n /\ snaps'[n] = row
  BY <1>1, <1>2, <1>5, <1>7
<1>12. AnchorsIn(updated, n) = {} /\ n \notin auto
  BY <1>8 DEF Inv, AnchorsIn, Sound
<1>13. Stored(r, a, snaps', updated, auto)
  <2>1. n \in 1..Len(snaps') /\ run[a].base \in 0..(n - 1)
    BY <1>2, <1>6, <1>8, <1>11
  <2> QED
    BY <1>6, <1>7, <1>9, <1>11, <1>12, <2>1 DEF Stored
<1>14. Good(r, a, snaps', updated, auto)
  BY <1>1, <1>6, <1>10, <1>13 DEF Good
<1> QED
  BY <1>2, <1>5, <1>7, <1>9, <1>14, StepSnap

\* A rollback: the baseline it restores is the one on record.
LEMMA StepDemote ==
    ASSUME Inv, NEW w \in Workers, Demote(w)
    PROVE  Inv'
<1>1. /\ TypeOK /\ run[w] \in RunState /\ snaps \in Seq(Row) /\ Len(snaps) \in Nat
      /\ run \in [Actors -> RunState] /\ Good(run[w], w, snaps, updated, auto)
      /\ w \in Actors /\ auto \subseteq Versions
  BY TypeParts DEF Inv, Actors
<1>2. PICK n : n = Len(snaps) + 1
  OBVIOUS
<1>3. PICK v : v = run[w].version
  OBVIOUS
<1>4. PICK row : row = Snapshot(snaps[v].scope, Restored(v, run[w].base), None, v)
  OBVIOUS
<1>5. PICK r : r = [run[w] EXCEPT !.pc = "revert", !.by = n]
  OBVIOUS
<1>6. /\ run[w].pc = "demote" /\ n <= MaxSnaps /\ snaps' = Append(snaps, row)
      /\ run' = [run EXCEPT ![w] = r]
      /\ UNCHANGED <<env, prop, updated, auto, rolled, health, spent>>
  <2>1. /\ run[w].pc = "demote" /\ snaps' = Append(snaps, row) /\ Len(snaps) < MaxSnaps
        /\ UNCHANGED <<env, prop, updated, auto, rolled, health, spent>>
    BY <1>3, <1>4 DEF Demote
  <2>2. run' = [run EXCEPT ![w].pc = "revert", ![w].by = n]
    BY <1>2 DEF Demote
  <2>3. run' = [run EXCEPT ![w] = r]
    BY <1>1, <1>5, <2>2 DEF RunState
  <2>4. n <= MaxSnaps
    BY <1>1, <1>2, <2>1, PromotionAssumption
  <2> QED
    BY <2>1, <2>3, <2>4
<1>7. v \in auto /\ Sound(v, snaps, updated)
  BY <1>1, <1>3, <1>6 DEF Good, Inv
<1>8. PICK e \in AnchorsIn(updated, v) : e.base = run[w].base
  BY <1>1, <1>3, <1>6 DEF Good
<1>9. v \in 1..Len(snaps) /\ e.base \in 1..(v - 1) /\ e.base \in 1..Len(snaps)
  BY <1>1, <1>7, <1>8 DEF Sound
<1>10. n \in 1..MaxSnaps /\ n \in 0..MaxSnaps /\ n \notin 1..Len(snaps) /\ v \in 0..MaxSnaps
  BY <1>1, <1>2, <1>6, <1>9, PromotionAssumption
<1>11. /\ row \in Row /\ row.from = v /\ row.scope = snaps[v].scope
       /\ row.vals = snaps[e.base].vals
  <2>1. snaps[v] \in Row /\ snaps[e.base] \in Row
    BY <1>1, <1>9
  <2>2. snaps[v].scope \in Scopes /\ snaps[e.base].vals \in Partial(Vals)
    BY <2>1 DEF Row
  <2> QED
    BY <1>4, <1>8, <1>10, <2>2 DEF Snapshot, Restored, Row
<1>12. /\ r \in RunState /\ r.pc = "revert" /\ r.by = n /\ r.version = v
       /\ r.sweep = run[w].sweep /\ r.policy = run[w].policy
  BY <1>1, <1>3, <1>5, <1>10 DEF RunState
<1>13. /\ snaps' \in Seq(Row) /\ Len(snaps') = n /\ snaps'[n] = row
       /\ \A u \in 1..Len(snaps) : snaps'[u] = snaps[u]
  BY <1>1, <1>2, <1>6, <1>11
<1>14. Undoes(n, snaps', updated, auto)
  BY <1>7, <1>8, <1>9, <1>11, <1>13 DEF Undoes
<1>15. Good(r, w, snaps', updated, auto)
  <2>1. n \in 1..Len(snaps') /\ v \in 1..Len(snaps')
    BY <1>2, <1>9, <1>10, <1>13
  <2> QED
    BY <1>1, <1>7, <1>12, <2>1 DEF Good, Holding
<1>16. ~Holding(r)
  BY <1>12 DEF Holding
<1> QED
  BY <1>1, <1>2, <1>6, <1>11, <1>12, <1>14, <1>15, <1>16, StepSnap

\* Actor a records event e: of a rollback, or of the version it holds.
LEMMA StepEvent ==
    ASSUME Inv, NEW a \in Actors, NEW e \in Event, updated' = updated \cup {e},
           NEW r \in RunState, run' = [run EXCEPT ![a] = r], ~Holding(r),
           UNCHANGED <<env, prop, snaps, auto, rolled, health, spent>>,
           e.version \in 1..Len(snaps),
           \/ e.from # NoVersion
           \/ Holding(run[a]) /\ run[a].version = e.version,
           Good(r, a, snaps, updated', auto)
    PROVE  Inv'
<1>1. /\ TypeOK /\ run \in [Actors -> RunState]
      /\ Good(run[a], a, snaps, updated, auto)
  BY TypeParts DEF Inv
<1>2. /\ run' \in [Actors -> RunState] /\ run'[a] = r
      /\ \A b \in Actors \ {a} : run'[b] = run[b]
  BY <1>1
<1>3. TypeOK'
  BY <1>1, <1>2 DEF TypeOK, Event
<1>4. \/ e.from # NoVersion
      \/ AnchorsIn(updated, e.version) = {} /\ e.version \notin auto
  BY <1>1 DEF Good, Stored
<1>5. \A b \in Actors : Good(run'[b], b, snaps', updated', auto')
  <2>1. ASSUME NEW b \in Actors \ {a}
        PROVE  Good(run[b], b, snaps, updated', auto)
    <3>1. Good(run[b], b, snaps, updated, auto)
      BY DEF Inv
    <3>2. e.from # NoVersion \/ (Holding(run[b]) => run[b].version # e.version)
      BY DEF Inv
    <3> QED
      BY <1>4, <3>1, <3>2, MoreEvents
  <2> QED
    BY <1>2, <2>1
<1>6. \A b, c \in Actors : b # c /\ Holding(run'[b]) /\ Holding(run'[c])
                             => run'[b].version # run'[c].version
  BY <1>2 DEF Inv
<1>7. \A v : v # e.version \/ e.from # NoVersion
               => AnchorsIn(updated', v) = AnchorsIn(updated, v)
  BY DEF AnchorsIn
<1>8. \A v \in auto : AnchorsIn(updated', v) = AnchorsIn(updated, v)
  BY <1>4, <1>7
<1>9. /\ \A d \in updated' : d.version \in 1..Len(snaps')
      /\ \A v \in auto' : Sound(v, snaps', updated')
  BY <1>8 DEF Inv, Sound
<1>10. \A v \in 1..Len(snaps') :
         snaps'[v].from # NoVersion => Undoes(v, snaps', updated', auto')
  BY <1>8 DEF Inv, Undoes
<1> QED
  BY <1>3, <1>5, <1>6, <1>9, <1>10 DEF Inv

LEMMA StepEmit ==
    ASSUME Inv, NEW a \in Actors, Emit(a)
    PROVE  Inv'
<1>1. /\ TypeOK /\ run[a] \in RunState /\ run \in [Actors -> RunState]
      /\ Good(run[a], a, snaps, updated, auto) /\ Len(snaps) \in 0..MaxSnaps
  BY TypeParts DEF Inv
<1>2. PICK e : e = Updated(run[a].version, run[a].base, NoVersion)
  OBVIOUS
<1>3. PICK r : r = IF a \in Clerks THEN Idle ELSE [run[a] EXCEPT !.pc = "announce"]
  OBVIOUS
<1>4. /\ run[a].pc = "emit" /\ updated' = updated \cup {e}
      /\ UNCHANGED <<env, prop, snaps, auto, rolled, health, spent>>
  BY <1>2 DEF Emit
<1>5. run' = [run EXCEPT ![a] = r]
  BY <1>1, <1>3 DEF Emit, Returned
<1>6. Stored(run[a], a, snaps, updated, auto) /\ Holding(run[a])
  BY <1>1, <1>4 DEF Good, Holding
<1>7. /\ e \in Event /\ e.version = run[a].version /\ e.base = run[a].base
      /\ e.from = NoVersion /\ e.version \in 1..Len(snaps)
  <2>1. run[a].version \in 1..MaxSnaps /\ run[a].base \in 0..MaxSnaps /\ 0 \in 0..MaxSnaps
    BY <1>1, <1>6, PromotionAssumption DEF Stored, RunState
  <2> QED
    BY <1>2, <1>6, <2>1 DEF Updated, Event, Versions, NoVersion, Stored
<1>8. CASE a \in Clerks
  <2>1. r = Idle
    BY <1>3, <1>8
  <2> QED
    BY <1>4, <1>5, <1>6, <1>7, <2>1, IdleOK, IdleIsGood, StepEvent
<1>9. CASE a \notin Clerks
  <2>1. /\ r = [run[a] EXCEPT !.pc = "announce"] /\ a \in Workers
    BY <1>3, <1>9 DEF Actors
  <2>2. /\ r \in RunState /\ r.pc = "announce" /\ r.version = run[a].version
        /\ r.sweep = run[a].sweep /\ r.policy = run[a].policy
    BY <1>1, <2>1 DEF RunState
  <2>3. AnchorsIn(updated', r.version) = {e}
    BY <1>4, <1>6, <1>7, <2>2 DEF Stored, AnchorsIn
  <2>4. e.base \in 1..(r.version - 1)
    BY <1>6, <1>7, <2>1, <2>2 DEF Stored, NoVersion
  <2>5. Sound(r.version, snaps, updated')
    BY <1>6, <2>2, <2>3, <2>4 DEF Sound, Stored
  <2>6. Good(r, a, snaps, updated', auto) /\ ~Holding(r)
    BY <1>1, <2>2, <2>5 DEF Good, Holding
  <2> QED
    BY <1>4, <1>5, <1>6, <1>7, <2>2, <2>6, StepEvent
<1> QED
  BY <1>8, <1>9

LEMMA StepRevert ==
    ASSUME Inv, NEW w \in Workers, Revert(w)
    PROVE  Inv'
<1>1. /\ TypeOK /\ run[w] \in RunState /\ run \in [Actors -> RunState]
      /\ Good(run[w], w, snaps, updated, auto) /\ Len(snaps) \in 0..MaxSnaps
      /\ w \in Actors
  BY TypeParts DEF Inv, Actors
<1>2. PICK e : e = Updated(run[w].by, run[w].version, run[w].version)
  OBVIOUS
<1>3. PICK r : r = [run[w] EXCEPT !.pc = "report"]
  OBVIOUS
<1>4. /\ run[w].pc = "revert" /\ updated' = updated \cup {e}
      /\ UNCHANGED <<env, prop, snaps, auto, rolled, health, spent>>
  BY <1>2 DEF Revert
<1>5. run' = [run EXCEPT ![w] = r]
  BY <1>1, <1>3 DEF Revert
<1>6. run[w].by \in 1..Len(snaps) /\ run[w].version \in 1..Len(snaps)
  BY <1>1, <1>4 DEF Good
<1>7. /\ e \in Event /\ e.version \in 1..Len(snaps) /\ e.from # NoVersion
  <2>1. run[w].by \in 1..MaxSnaps /\ run[w].version \in 0..MaxSnaps /\ run[w].version # 0
    BY <1>1, <1>6, PromotionAssumption
  <2> QED
    BY <1>2, <1>6, <2>1 DEF Updated, Event, Versions, NoVersion
<1>8. /\ r \in RunState /\ r.pc = "report" /\ r.version = run[w].version
      /\ r.by = run[w].by /\ r.sweep = run[w].sweep /\ r.policy = run[w].policy
  BY <1>1, <1>3 DEF RunState
<1>9. Good(r, w, snaps, updated', auto) /\ ~Holding(r)
  BY <1>1, <1>6, <1>8 DEF Good, Holding
<1> QED
  BY <1>1, <1>4, <1>5, <1>7, <1>8, <1>9, StepEvent

LEMMA StepAnnounce ==
    ASSUME Inv, NEW w \in Workers, Announce(w)
    PROVE  Inv'
<1>1. /\ TypeOK /\ run[w] \in RunState /\ run \in [Actors -> RunState]
      /\ Good(run[w], w, snaps, updated, auto) /\ Len(snaps) \in 0..MaxSnaps
      /\ w \in Actors
  BY TypeParts DEF Inv, Actors
<1>2. PICK v : v = run[w].version
  OBVIOUS
<1>3. PICK r : r = [run[w] EXCEPT !.pc = "monitor"]
  OBVIOUS
<1>4. /\ run[w].pc = "announce" /\ auto' = auto \cup {v}
      /\ UNCHANGED <<env, prop, snaps, updated, rolled, health, spent>>
  BY <1>2 DEF Announce
<1>5. run' = [run EXCEPT ![w] = r]
  BY <1>1, <1>3 DEF Announce
<1>6. Sound(v, snaps, updated) /\ v \in Versions
  <2>1. Sound(v, snaps, updated)
    BY <1>1, <1>2, <1>4 DEF Good
  <2> QED
    BY <1>1, <2>1, PromotionAssumption DEF Sound, Versions
<1>7. /\ r \in RunState /\ r.pc = "monitor" /\ r.version = v
      /\ r.sweep = run[w].sweep /\ r.policy = run[w].policy
  BY <1>1, <1>2, <1>3 DEF RunState
<1>8. Good(r, w, snaps, updated, auto') /\ ~Holding(r)
  BY <1>1, <1>4, <1>7 DEF Good, Holding
<1>9. /\ run' \in [Actors -> RunState] /\ run'[w] = r
      /\ \A b \in Actors \ {w} : run'[b] = run[b]
  BY <1>1, <1>5, <1>7
<1>10. TypeOK'
  BY <1>1, <1>4, <1>6, <1>9 DEF TypeOK
<1>11. \A b \in Actors : Good(run'[b], b, snaps', updated', auto')
  <2>1. \A b \in Actors : Good(run[b], b, snaps, updated, auto)
    BY DEF Inv
  <2>2. \A b \in Actors : Good(run[b], b, snaps, updated, auto')
    BY <1>4, <1>6, <2>1, MoreAuto
  <2> QED
    BY <1>4, <1>8, <1>9, <2>2
<1>12. \A b, c \in Actors : b # c /\ Holding(run'[b]) /\ Holding(run'[c])
                             => run'[b].version # run'[c].version
  BY <1>8, <1>9 DEF Inv
<1>13. /\ \A e \in updated' : e.version \in 1..Len(snaps')
       /\ \A u \in auto' : Sound(u, snaps', updated')
       /\ \A u \in 1..Len(snaps') :
            snaps'[u].from # NoVersion => Undoes(u, snaps', updated', auto')
  BY <1>4, <1>6 DEF Inv, Undoes
<1> QED
  BY <1>10, <1>11, <1>12, <1>13 DEF Inv

-----------------------------------------------------------------------------
(* Steps that write no version and no event of one                           *)

\* What every such step starts from.
Before(a) ==
    /\ TypeOK /\ run[a] \in RunState /\ run \in [Actors -> RunState]
    /\ Good(run[a], a, snaps, updated, auto)
    /\ RestOK /\ PropOK /\ Len(snaps) \in 0..MaxSnaps

LEMMA InvBefore ==
    ASSUME Inv, NEW a \in Actors
    PROVE  Before(a)
BY TypeParts DEF Inv, Before

\* An actor goes back to its loop, or starts over.
LEMMA StepIdle ==
    ASSUME Inv, NEW a \in Actors, run' = [run EXCEPT ![a] = Idle],
           UNCHANGED <<snaps, updated, auto>>, RestOK', PropOK'
    PROVE  Inv'
BY IdleOK, IdleIsGood, StepLocal

LEMMA ReturnedIsGood ==
    ASSUME Inv, NEW a \in Actors
    PROVE  /\ Returned(a) \in RunState /\ ~Holding(Returned(a))
           /\ Good(Returned(a), a, snaps, updated, auto)
<1>1. Before(a)
  BY InvBefore
<1>2. CASE a \in Clerks
  BY <1>2, IdleOK, IdleIsGood DEF Returned
<1>3. CASE a \notin Clerks
  <2>1. PICK r : r = [run[a] EXCEPT !.pc = "tune", !.q = None, !.base = NoVersion,
                                    !.version = NoVersion]
    OBVIOUS
  <2>2. r = Returned(a)
    BY <1>3, <2>1 DEF Returned
  <2>3. r = [run[a] EXCEPT !.pc = "tune", !.q = None, !.base = NoVersion,
                           !.version = NoVersion, !.by = run[a].by]
    BY <1>1, <2>1 DEF Before, RunState
  <2>4. r \in RunState
    <3>1. run[a].by \in 0..MaxSnaps /\ NoVersion \in 0..MaxSnaps
      BY <1>1, Constants0 DEF Before, RunState, NoVersion
    <3> QED
      BY <1>1, <2>3, <3>1, MovedOK DEF Before
  <2>5. r.pc = "tune" /\ r.sweep = run[a].sweep /\ r.policy = run[a].policy
    BY <1>1, <2>1 DEF Before, RunState
  <2>6. Good(r, a, snaps, updated, auto) /\ ~Holding(r)
    BY <1>1, <2>5 DEF Before, Good, Holding
  <2> QED
    BY <2>2, <2>4, <2>6
<1> QED
  BY <1>2, <1>3

LEMMA StepDecide ==
    ASSUME Inv, NEW a \in Actors, NEW q \in Proposals, NEW st \in Terminal,
           prop' = [prop EXCEPT ![q].status = st],
           UNCHANGED <<env, snaps, updated, auto, rolled, health, spent>>,
           NEW r \in RunState, run' = [run EXCEPT ![a] = r],
           Good(r, a, snaps, updated, auto),
           Holding(r) => Holding(run[a]) /\ r.version = run[a].version
    PROVE  Inv'
<1>1. RestOK'
  BY InvBefore DEF Before, RestOK
<1>2. PropOK'
  <2>1. PropOK
    BY InvBefore DEF Before
  <2> QED
    BY <2>1 DEF PropOK
<1> QED
  BY <1>1, <1>2, StepLocal

LEMMA StepMark ==
    ASSUME Inv, NEW a \in Actors, Mark(a)
    PROVE  Inv'
<1>1. Before(a)
  BY InvBefore
<1>2. PICK r : r = [run[a] EXCEPT !.pc = "emit"]
  OBVIOUS
<1>3. /\ run[a].pc = "mark" /\ run' = [run EXCEPT ![a] = r]
      /\ prop' = [prop EXCEPT ![run[a].q].status = "promoted"]
      /\ UNCHANGED <<env, snaps, updated, auto, rolled, health, spent>>
  BY <1>1, <1>2 DEF Mark, Before
<1>4. /\ r \in RunState /\ r.pc = "emit" /\ r.version = run[a].version
      /\ r.base = run[a].base /\ r.sweep = run[a].sweep /\ r.policy = run[a].policy
  BY <1>1, <1>2 DEF Before, RunState
<1>5. Holding(run[a]) /\ run[a].q \in Proposals
  BY <1>1, <1>3 DEF Holding, Before, Good
<1>6. Stored(r, a, snaps, updated, auto)
  BY <1>1, <1>4, <1>5 DEF Before, Good, Stored
<1>7. Good(r, a, snaps, updated, auto)
  BY <1>1, <1>4, <1>6 DEF Before, Good
<1> QED
  BY <1>3, <1>4, <1>5, <1>7, StepDecide DEF Terminal

LEMMA StepRefuse ==
    ASSUME Inv, NEW a \in Actors, Refuse(a)
    PROVE  Inv'
<1>1. PICK r : r = Returned(a)
  OBVIOUS
<1>2. run[a].q \in Proposals
  BY InvBefore DEF Refuse, Before, Good
<1> QED
  BY <1>1, <1>2, ReturnedIsGood, StepDecide DEF Refuse, Terminal

LEMMA StepGate ==
    ASSUME Inv, NEW a \in Actors, Gate(a)
    PROVE  Inv'
<1>1. Before(a)
  BY InvBefore
<1>2. /\ run[a].pc = "gate" /\ run[a].q \in Proposals
      /\ UNCHANGED <<env, stores, health, spent>>
  BY <1>1 DEF Gate, Before, Good
<1>3. RestOK' /\ PropOK' /\ UNCHANGED <<snaps, updated, auto>>
  BY <1>1, <1>2 DEF Before, RestOK, PropOK, stores
<1>4. CASE run' = [run EXCEPT ![a] = Returned(a)]
  <2>1. PICK r : r = Returned(a)
    OBVIOUS
  <2> QED
    BY <1>3, <1>4, <2>1, ReturnedIsGood, StepLocal
<1>5. CASE run' = [run EXCEPT ![a] = [run[a] EXCEPT !.pc = "refuse"]]
  <2>1. PICK r : r = [run[a] EXCEPT !.pc = "refuse"]
    OBVIOUS
  <2>2. /\ r \in RunState /\ r.pc = "refuse" /\ r.q = run[a].q
        /\ r.sweep = run[a].sweep /\ r.policy = run[a].policy
    BY <1>1, <2>1 DEF Before, RunState
  <2>3. Good(r, a, snaps, updated, auto) /\ ~Holding(r)
    BY <1>1, <1>2, <2>2 DEF Before, Good, Holding
  <2> QED
    BY <1>3, <1>5, <2>1, <2>2, <2>3, StepLocal
<1>6. CASE /\ Verdict(run[a]) = "passed"
           /\ run' = [run EXCEPT ![a] = [run[a] EXCEPT !.pc = "put",
                                             !.base = Resolve(Scope[run[a].q])]]
  <2>1. PICK base : base = Resolve(Scope[run[a].q])
    OBVIOUS
  <2>2. base \in 0..Len(snaps) /\ base \in 0..MaxSnaps
    <3>1. Scope[run[a].q] \in Scopes
      BY <1>2, PromotionAssumption
    <3>2. base \in 0..Len(snaps)
      BY <1>1, <2>1, <3>1, ResolveIsVersion DEF Before
    <3> QED
      BY <1>1, <3>2, PromotionAssumption DEF Before
  <2>3. a \in Workers => base # NoVersion
    <3>1. SUFFICES ASSUME a \in Workers
                   PROVE  base # NoVersion
      OBVIOUS
    <3>2. run[a].policy = "auto"
      BY <1>1, <3>1 DEF Before, Good
    <3>3. ApplyPolicy(run[a].q, prop[run[a].q].size, Resolve(Scope[run[a].q]), "auto")
            = "passed"
      BY <1>6, <3>2 DEF Verdict
    <3> QED
      BY <1>1, <2>1, <2>2, <3>3, PassedHasBase DEF Before
  <2>4. PICK r : r = [run[a] EXCEPT !.pc = "put", !.base = base]
    OBVIOUS
  <2>5. /\ r \in RunState /\ r.pc = "put" /\ r.q = run[a].q /\ r.base = base
        /\ r.sweep = run[a].sweep /\ r.policy = run[a].policy
    BY <1>1, <2>2, <2>4 DEF Before, RunState
  <2>6. Good(r, a, snaps, updated, auto) /\ ~Holding(r)
    BY <1>1, <1>2, <2>2, <2>3, <2>5 DEF Before, Good, Holding
  <2> QED
    BY <1>3, <1>6, <2>1, <2>4, <2>5, <2>6, StepLocal
<1>7. Verdict(run[a]) \in {"passed", "refused", "bare"}
  BY DEF Verdict, ApplyPolicy
<1> QED
  BY <1>4, <1>5, <1>6, <1>7 DEF Gate

\* A pass begins, or an act by hand.
LEMMA StepBegin ==
    ASSUME Inv, NEW a \in Actors, NEW r \in RunState, r.pc \in {"tune", "gate", "refuse"},
           r.pc # "tune" => r.q \in Proposals, a \in Workers => r.policy = "auto",
           r.sweep = {}, run' = [run EXCEPT ![a] = r],
           UNCHANGED <<env, stores, health>>,
           spent' = spent \/ (spent.acts < MaxActs /\ Spend("acts"))
    PROVE  Inv'
<1>1. Before(a)
  BY InvBefore
<1>2. Good(r, a, snaps, updated, auto) /\ ~Holding(r)
  BY DEF Good, Holding
<1>3. spent' \in [acts : 0..MaxActs, faults : 0..MaxFaults]
  <2>1. CASE spent' = spent
    BY <1>1, <2>1 DEF Before, RestOK
  <2>2. CASE spent.acts < MaxActs /\ Spend("acts")
    <3>1. spent.acts + 1 \in 0..MaxActs
      BY <1>1, <2>2, PromotionAssumption DEF Before, RestOK
    <3>2. spent' = [spent EXCEPT !.acts = spent.acts + 1]
      BY <1>1, <2>2 DEF Spend, Before, RestOK
    <3> QED
      BY <1>1, <3>1, <3>2 DEF Before, RestOK
  <2> QED
    BY <2>1, <2>2
<1>4. RestOK' /\ PropOK' /\ UNCHANGED <<snaps, updated, auto>>
  BY <1>1, <1>3 DEF Before, RestOK, PropOK, stores
<1> QED
  BY <1>2, <1>4, StepLocal

LEMMA StepHand ==
    ASSUME Inv, NEW c \in Clerks, NEW q \in Proposals,
           Reject(c, q) \/ \E policy \in Policies \ {"auto"} : Promote(c, q, policy)
    PROVE  Inv'
<1>1. c \in Actors /\ c \notin Workers
  BY PromotionAssumption DEF Actors
<1>2. ASSUME NEW pc \in {"gate", "refuse"}, NEW policy \in Policies,
             spent.acts < MaxActs, Spend("acts"), UNCHANGED <<env, stores, health>>,
             run' = [run EXCEPT ![c] = [Idle EXCEPT !.pc = pc, !.q = q, !.policy = policy]]
      PROVE  Inv'
  <2>1. PICK r : r = [Idle EXCEPT !.pc = pc, !.q = q, !.policy = policy]
    OBVIOUS
  <2>2. r \in RunState /\ r.pc = pc /\ r.q = q
    BY <2>1, IdleOK DEF RunState
  <2>3. r.sweep = {}
    BY <2>1 DEF Idle
  <2>4. run' = [run EXCEPT ![c] = r]
    BY <1>2, <2>1
  <2> QED
    BY <1>1, <1>2, <2>2, <2>3, <2>4, StepBegin
<1>3. CASE Reject(c, q)
  BY <1>2, <1>3 DEF Reject, Policies
<1>4. ASSUME NEW policy \in Policies, Promote(c, q, policy)
      PROVE  Inv'
  BY <1>2, <1>4 DEF Promote
<1> QED
  BY <1>3, <1>4

LEMMA StepTune ==
    ASSUME Inv, NEW w \in Workers, Tune(w)
    PROVE  Inv'
<1>1. w \in Actors
  BY DEF Actors
<1>2. PICK fired \in SUBSET (Proposals \ Unreachable) :
        run' = [run EXCEPT ![w] = [Idle EXCEPT !.pc = "tune", !.todo = fired]]
  BY DEF Tune
<1>3. PICK r : r = [Idle EXCEPT !.pc = "tune", !.todo = fired]
  OBVIOUS
<1>4. r \in RunState /\ r.pc = "tune"
  BY <1>3, IdleOK DEF RunState
<1>5. r.sweep = {} /\ r.policy = "auto"
  BY <1>3 DEF Idle
<1>6. UNCHANGED <<env, stores, health>> /\ spent' = spent
  BY DEF Tune
<1>7. run' = [run EXCEPT ![w] = r]
  BY <1>2, <1>3
<1> QED
  BY <1>1, <1>4, <1>5, <1>6, <1>7, StepBegin

\* The lists of a pass only shrink to what they held, or take a tier.
LEMMA StepListed ==
    ASSUME Inv, NEW w \in Workers, NEW pc \in {"tune", "write", "gate"},
           NEW q \in Proposals \cup {None}, pc # "tune" => q \in Proposals,
           NEW todo \in SUBSET Proposals, NEW list \in [Proposals -> Tiers \cup {Unlisted}],
           NEW r, r = [run[w] EXCEPT !.pc = pc, !.q = q, !.todo = todo, !.list = list],
           run' = [run EXCEPT ![w] = r],
           UNCHANGED <<env, snaps, updated, auto, rolled, health, spent>>, PropOK'
    PROVE  Inv'
<1>1. Before(w) /\ w \in Actors
  BY InvBefore DEF Actors
<1>2. r \in RunState
  <2>1. [run[w] EXCEPT !.pc = pc, !.q = q] \in RunState
    BY <1>1 DEF Before, RunState
  <2>2. r = [[run[w] EXCEPT !.pc = pc, !.q = q] EXCEPT !.todo = todo, !.list = list]
    BY <1>1 DEF Before, RunState
  <2> QED
    BY <2>1, <2>2 DEF RunState
<1>3. r.pc = pc /\ r.q = q /\ r.sweep = run[w].sweep /\ r.policy = run[w].policy
  BY <1>1 DEF Before, RunState
<1>4. Good(r, w, snaps, updated, auto) /\ ~Holding(r)
  BY <1>1, <1>3 DEF Before, Good, Holding
<1>5. RestOK'
  BY <1>1 DEF Before, RestOK
<1> QED
  BY <1>1, <1>2, <1>4, <1>5, StepLocal

LEMMA StepTuneRead ==
    ASSUME Inv, NEW w \in Workers, TuneRead(w)
    PROVE  Inv'
<1>1. Before(w) /\ w \in Actors
  BY InvBefore DEF Actors
<1>2. PICK f : f = First(run[w].todo)
  OBVIOUS
<1>3. f \in Proposals /\ run[w].todo \in SUBSET Proposals
  BY <1>1, <1>2 DEF TuneRead, First, Before, RunState
<1>4. PICK pc \in {"tune", "write"}, q \in Proposals \cup {None} :
        /\ pc # "tune" => q \in Proposals
        /\ run' = [run EXCEPT ![w].todo = @ \ {f}, ![w].pc = pc, ![w].q = q]
  <2>1. CASE Settled(f)
    BY <1>2, <2>1 DEF TuneRead
  <2>2. CASE ~Settled(f)
    BY <1>2, <1>3, <2>2 DEF TuneRead
  <2> QED
    BY <2>1, <2>2
<1>5. PICK todo : todo = run[w].todo \ {f}
  OBVIOUS
<1>6. PICK list : list = run[w].list
  OBVIOUS
<1>7. PICK r : r = [run[w] EXCEPT !.pc = pc, !.q = q, !.todo = todo, !.list = list]
  OBVIOUS
<1>8. list \in [Proposals -> Tiers \cup {Unlisted}] /\ todo \in SUBSET Proposals
  BY <1>1, <1>3, <1>5, <1>6 DEF Before, RunState
<1>9. run' = [run EXCEPT ![w] = r]
  BY <1>1, <1>4, <1>5, <1>6, <1>7 DEF Before, RunState
<1>10. PropOK' /\ UNCHANGED <<env, snaps, updated, auto, rolled, health, spent>>
  BY <1>1 DEF TuneRead, stores, Before, PropOK
<1>11. CASE pc = "tune"
  BY <1>7, <1>8, <1>9, <1>10, <1>11, StepListed
<1>12. CASE pc = "write"
  <2>1. q \in Proposals
    BY <1>4, <1>12
  <2>2. r = [run[w] EXCEPT !.pc = "write", !.q = q, !.todo = todo, !.list = list]
    BY <1>7, <1>12
  <2> QED
    BY <1>8, <1>9, <1>10, <2>1, <2>2, StepListed
<1> QED
  BY <1>11, <1>12

LEMMA StepTuneWrite ==
    ASSUME Inv, NEW w \in Workers, TuneWrite(w)
    PROVE  Inv'
<1>1. Before(w) /\ w \in Actors
  BY InvBefore DEF Actors
<1>2. PICK f : f = run[w].q
  OBVIOUS
<1>3. f \in Proposals
  BY <1>1, <1>2 DEF TuneWrite, Before, Good
<1>4. PICK size \in Tiers :
        /\ prop' = [prop EXCEPT ![f] = [status |-> "pending", size |-> size]]
        /\ run' = [run EXCEPT ![w].pc = "tune", ![w].q = None, ![w].list[f] = size]
  BY <1>2 DEF TuneWrite
<1>5. PICK list : list = [run[w].list EXCEPT ![f] = size]
  OBVIOUS
<1>6. PICK todo : todo = run[w].todo
  OBVIOUS
<1>7. PICK r : r = [run[w] EXCEPT !.pc = "tune", !.q = None, !.todo = todo, !.list = list]
  OBVIOUS
<1>8. list \in [Proposals -> Tiers \cup {Unlisted}] /\ todo \in SUBSET Proposals
  BY <1>1, <1>3, <1>4, <1>5, <1>6 DEF Before, RunState
<1>9. run' = [run EXCEPT ![w] = r]
  BY <1>1, <1>4, <1>5, <1>6, <1>7 DEF Before, RunState
<1>10. PropOK'
  BY <1>1, <1>3, <1>4 DEF Before, PropOK
<1>11. UNCHANGED <<env, snaps, updated, auto, rolled, health, spent>>
  BY DEF TuneWrite
<1> QED
  BY <1>7, <1>8, <1>9, <1>10, <1>11, StepListed

LEMMA StepEvaluate ==
    ASSUME Inv, NEW w \in Workers, Evaluate(w)
    PROVE  Inv'
<1>1. Before(w) /\ w \in Actors
  BY InvBefore DEF Actors
<1>2. PICK f : f = First(Listed(w))
  OBVIOUS
<1>3. f \in Proposals
  BY <1>2 DEF Evaluate, First, Listed
<1>4. PICK list : list = [run[w].list EXCEPT ![f] = Unlisted]
  OBVIOUS
<1>5. PICK todo : todo = run[w].todo
  OBVIOUS
<1>6. list \in [Proposals -> Tiers \cup {Unlisted}] /\ todo \in SUBSET Proposals
  BY <1>1, <1>3, <1>4, <1>5 DEF Before, RunState
<1>7. PropOK' /\ UNCHANGED <<env, snaps, updated, auto, rolled, health, spent>>
  BY <1>1 DEF Evaluate, stores, Before, PropOK
<1>8. CASE run' = [run EXCEPT ![w].list[f] = Unlisted, ![w].pc = "gate", ![w].q = f]
  <2>1. PICK r : r = [run[w] EXCEPT !.pc = "gate", !.q = f, !.todo = todo, !.list = list]
    OBVIOUS
  <2>2. run' = [run EXCEPT ![w] = r]
    BY <1>1, <1>4, <1>5, <1>8, <2>1 DEF Before, RunState
  <2> QED
    BY <1>3, <1>6, <1>7, <2>1, <2>2, StepListed
<1>9. CASE run' = [run EXCEPT ![w].list[f] = Unlisted, ![w].pc = "tune", ![w].q = None]
  <2>1. PICK r : r = [run[w] EXCEPT !.pc = "tune", !.q = None, !.todo = todo, !.list = list]
    OBVIOUS
  <2>2. run' = [run EXCEPT ![w] = r]
    BY <1>1, <1>4, <1>5, <1>9, <2>1 DEF Before, RunState
  <2> QED
    BY <1>6, <1>7, <2>1, <2>2, StepListed
<1>10. PICK goes \in BOOLEAN :
         run' = [run EXCEPT ![w].list[f] = Unlisted,
                            ![w].pc = IF goes THEN "gate" ELSE "tune",
                            ![w].q = IF goes THEN f ELSE None]
  <2>1. PICK g \in BOOLEAN : g = ("off" \notin env /\
          ApplyPolicy(f, run[w].list[f], Resolve(Scope[f]), "auto") = "passed")
    OBVIOUS
  <2> QED
    BY <1>2, <2>1 DEF Evaluate
<1> QED
  BY <1>8, <1>9, <1>10

\* A version has been watched, and the pass takes up the next.
LEMMA WatchedIsGood ==
    ASSUME Inv, NEW w \in Workers
    PROVE  /\ Watched(w) \in RunState /\ ~Holding(Watched(w))
           /\ Good(Watched(w), w, snaps, updated, auto)
<1>1. Before(w)
  BY InvBefore DEF Actors
<1>2. PICK pc \in {"sweep", "tune"} : pc = IF run[w].q = None THEN "sweep" ELSE "tune"
  OBVIOUS
<1>3. PICK r : r = [run[w] EXCEPT !.pc = pc, !.q = None, !.base = NoVersion,
                                  !.version = NoVersion, !.by = NoVersion]
  OBVIOUS
<1>4. r = Watched(w)
  BY <1>2, <1>3 DEF Watched
<1>5. NoVersion \in 0..MaxSnaps /\ None \in Proposals \cup {None}
  BY Constants0 DEF NoVersion
<1>6. r \in RunState
  <2>1. CASE pc = "sweep"
    BY <1>1, <1>3, <1>5, <2>1, MovedOK DEF Before
  <2>2. CASE pc = "tune"
    BY <1>1, <1>3, <1>5, <2>2, MovedOK DEF Before
  <2> QED
    BY <2>1, <2>2
<1>7. r.pc = pc /\ r.sweep = run[w].sweep /\ r.policy = run[w].policy
  BY <1>1, <1>3 DEF Before, RunState
<1>8. Good(r, w, snaps, updated, auto) /\ ~Holding(r)
  BY <1>1, <1>2, <1>7 DEF Before, Good, Holding
<1> QED
  BY <1>4, <1>6, <1>8

LEMMA StepWatched ==
    ASSUME Inv, NEW w \in Workers, run' = [run EXCEPT ![w] = Watched(w)],
           UNCHANGED <<snaps, updated, auto>>, RestOK', PropOK'
    PROVE  Inv'
<1>1. PICK r : r = Watched(w)
  OBVIOUS
<1>2. w \in Actors
  BY DEF Actors
<1> QED
  BY <1>1, <1>2, WatchedIsGood, StepLocal

LEMMA StepMonitor ==
    ASSUME Inv, NEW w \in Workers, Monitor(w)
    PROVE  Inv'
<1>1. Before(w) /\ w \in Actors
  BY InvBefore DEF Actors
<1>2. PICK v : v = run[w].version
  OBVIOUS
<1>3. RestOK' /\ PropOK' /\ UNCHANGED <<snaps, updated, auto>>
  BY <1>1 DEF Monitor, Before, RestOK, PropOK, stores
<1>4. CASE run' = [run EXCEPT ![w] = Watched(w)]
  BY <1>3, <1>4, StepWatched
<1>5. CASE /\ Demotes(v)
           /\ run' = [run EXCEPT ![w] = [run[w] EXCEPT !.pc = "demote",
                                           !.base = (CHOOSE e \in Anchors(v) : TRUE).base]]
  <2>1. PICK e : e = CHOOSE x \in Anchors(v) : TRUE
    OBVIOUS
  <2>2. e \in Anchors(v)
    BY <1>5, <2>1 DEF Demotes
  <2>3. e \in AnchorsIn(updated, v) /\ e \in Event
    BY <1>1, <2>2 DEF Anchors, AnchorsIn, Before, TypeOK, Event
  <2>4. PICK r : r = [run[w] EXCEPT !.pc = "demote", !.base = e.base]
    OBVIOUS
  <2>5. /\ r \in RunState /\ r.pc = "demote" /\ r.base = e.base /\ r.version = v
        /\ r.sweep = run[w].sweep /\ r.policy = run[w].policy
    BY <1>1, <1>2, <2>3, <2>4 DEF Before, RunState, Event
  <2>6. v \in auto
    BY <1>1, <1>2 DEF Monitor, Before, Good
  <2>7. Good(r, w, snaps, updated, auto) /\ ~Holding(r)
    BY <1>1, <2>3, <2>5, <2>6 DEF Before, Good, Holding
  <2>8. run' = [run EXCEPT ![w] = r]
    BY <1>5, <2>1, <2>4
  <2> QED
    BY <1>1, <1>3, <2>5, <2>7, <2>8, StepLocal
<1> QED
  BY <1>1, <1>2, <1>4, <1>5 DEF Monitor, Before

LEMMA StepReport ==
    ASSUME Inv, NEW w \in Workers, Report(w)
    PROVE  Inv'
<1>1. Before(w) /\ w \in Actors
  BY InvBefore DEF Actors
<1>2. run[w].version \in Versions /\ run[w].by \in Versions
  BY <1>1, PromotionAssumption DEF Report, Before, Good, Versions
<1>3. rolled' \in SUBSET [version : Versions, by : Versions]
  BY <1>1, <1>2 DEF Report, Before, RestOK
<1>4. RestOK' /\ PropOK' /\ UNCHANGED <<snaps, updated, auto>>
  BY <1>1, <1>3 DEF Report, Before, RestOK, PropOK
<1> QED
  BY <1>4, StepWatched DEF Report

LEMMA StepSweep ==
    ASSUME Inv, NEW w \in Workers, Sweep(w) \/ SweepNext(w)
    PROVE  Inv'
<1>1. Before(w) /\ w \in Actors /\ auto \in SUBSET Versions
  BY InvBefore DEF Actors, Before, TypeOK
<1>2. RestOK' /\ PropOK' /\ UNCHANGED <<snaps, updated, auto>>
  BY <1>1 DEF Sweep, SweepNext, Before, RestOK, PropOK, stores
<1>3. CASE run' = [run EXCEPT ![w] = Idle]
  BY <1>1, <1>2, <1>3, StepIdle
<1>4. CASE run' = [run EXCEPT ![w] = [run[w] EXCEPT !.pc = "sweep", !.sweep = Outstanding]]
  <2>1. PICK swept : swept = Outstanding
    OBVIOUS
  <2>2. swept \in SUBSET Versions /\ swept \subseteq auto
    BY <1>1, <2>1 DEF Outstanding
  <2>3. PICK r : r = [run[w] EXCEPT !.pc = "sweep", !.sweep = swept]
    OBVIOUS
  <2>4. r \in RunState /\ r.pc = "sweep" /\ r.sweep = swept /\ r.policy = run[w].policy
    BY <1>1, <2>2, <2>3 DEF Before, RunState
  <2>5. Good(r, w, snaps, updated, auto) /\ ~Holding(r)
    BY <1>1, <2>2, <2>4 DEF Before, Good, Holding
  <2> QED
    BY <1>1, <1>2, <1>4, <2>1, <2>3, <2>4, <2>5, StepLocal
<1>5. ASSUME NEW v \in run[w].sweep,
             run' = [run EXCEPT ![w].pc = "monitor", ![w].version = v, ![w].sweep = @ \ {v}]
      PROVE  Inv'
  <2>1. v \in auto /\ v \in 0..MaxSnaps /\ run[w].sweep \subseteq auto
    BY <1>1, Constants0 DEF Before, Good
  <2>2. PICK r : r = [run[w] EXCEPT !.pc = "monitor", !.version = v,
                                    !.sweep = run[w].sweep \ {v}]
    OBVIOUS
  <2>3. run[w].sweep \ {v} \in SUBSET Versions
    BY <1>1, <2>1
  <2>4. /\ r \in RunState /\ r.pc = "monitor" /\ r.version = v
        /\ r.sweep = run[w].sweep \ {v} /\ r.policy = run[w].policy
    BY <1>1, <2>1, <2>2, <2>3 DEF Before, RunState
  <2>5. Good(r, w, snaps, updated, auto) /\ ~Holding(r)
    BY <1>1, <2>1, <2>4 DEF Before, Good, Holding
  <2>6. run' = [run EXCEPT ![w] = r]
    BY <1>1, <1>5, <2>2 DEF Before, RunState
  <2> QED
    BY <1>1, <1>2, <2>4, <2>5, <2>6, StepLocal
<1>6. CASE Sweep(w)
  BY <1>1, <1>3, <1>4, <1>6 DEF Sweep, Before
<1>7. CASE SweepNext(w)
  BY <1>3, <1>5, <1>7 DEF SweepNext
<1> QED
  BY <1>6, <1>7

LEMMA StepDie ==
    ASSUME Inv, NEW a \in Actors, Die(a)
    PROVE  Inv'
<1>1. Before(a)
  BY InvBefore
<1>2. spent' \in [acts : 0..MaxActs, faults : 0..MaxFaults]
  <2>1. spent.faults + 1 \in 0..MaxFaults
    BY <1>1, PromotionAssumption DEF Die, Before, RestOK
  <2>2. spent' = [spent EXCEPT !.faults = spent.faults + 1]
    BY <1>1 DEF Die, Spend, Before, RestOK
  <2> QED
    BY <1>1, <2>1, <2>2 DEF Before, RestOK
<1>3. RestOK' /\ PropOK' /\ UNCHANGED <<snaps, updated, auto>>
  BY <1>1, <1>2 DEF Die, Before, RestOK, PropOK, stores
<1> QED
  BY <1>3, StepIdle DEF Die

LEMMA StepObserve ==
    ASSUME Inv, NEW v \in Versions, Observe(v)
    PROVE  Inv'
<1>1. PICK h \in {"fine", "worse"} : health' = [health EXCEPT ![v] = h]
  BY DEF Observe
<1>2. UNCHANGED <<env, prop, snaps, updated, auto, rolled, run, spent>>
  BY DEF Observe, stores
<1>3. TypeOK'
  BY <1>1, <1>2 DEF Inv, TypeOK
<1> QED
  BY <1>2, <1>3 DEF Inv

-----------------------------------------------------------------------------
(* The invariant                                                             *)

LEMMA InvInit == Init => Inv
<1> SUFFICES ASSUME Init
             PROVE  Inv
  OBVIOUS
<1>1. /\ updated = {} /\ auto = {} /\ rolled = {} /\ run = [a \in Actors |-> Idle]
      /\ env \in SUBSET Events
  BY PromotionAssumption DEF Init
<1>2. Snapshot(Seed.scope, Seed.vals, None, NoVersion) \in Row
  BY PromotionAssumption DEF Snapshot, Row, NoVersion
<1>3. /\ snaps \in Seq(Row)
      /\ \A v \in 1..Len(snaps) : snaps[v].from = NoVersion
  <2>1. CASE snaps = <<>>
    BY <2>1
  <2>2. CASE snaps = <<Snapshot(Seed.scope, Seed.vals, None, NoVersion)>>
    BY <1>2, <2>2 DEF Snapshot
  <2> QED
    BY <2>1, <2>2 DEF Init
<1>4. Len(snaps) <= MaxSnaps
  BY PromotionAssumption DEF Init
<1>5. \A a \in Actors : run[a] = Idle /\ run[a] \in RunState
  BY <1>1, IdleOK
<1>6. TypeOK
  <2>1. prop \in [Proposals -> [status : Terminal \cup {"pending", None}, size : Tiers]]
    BY DEF Init, Tiers
  <2>2. spent \in [acts : 0..MaxActs, faults : 0..MaxFaults]
    BY PromotionAssumption DEF Init
  <2>3. health \in [Versions -> {"few", "fine", "worse"}]
    BY DEF Init
  <2> QED
    BY <1>1, <1>3, <1>4, <1>5, <2>1, <2>2, <2>3 DEF TypeOK, Row
<1>7. \A a \in Actors : Good(run[a], a, snaps, updated, auto) /\ ~Holding(run[a])
  BY <1>5, IdleIsGood
<1> QED
  BY <1>1, <1>3, <1>6, <1>7 DEF Inv

LEMMA InvNext == Inv /\ [Next]_vars => Inv'
<1> SUFFICES ASSUME Inv, [Next]_vars
             PROVE  Inv'
  OBVIOUS
<1>1. CASE UNCHANGED vars
  <2>1. UNCHANGED <<env, prop, snaps, updated, auto, rolled, health, run, spent>>
    BY <1>1 DEF vars, stores
  <2>2. TypeOK'
    BY <2>1 DEF Inv, TypeOK
  <2> QED
    BY <2>1, <2>2 DEF Inv
<1>2. ASSUME NEW v \in Versions, Observe(v)
      PROVE  Inv'
  BY <1>2, StepObserve
<1>3. ASSUME NEW a \in Actors, Step(a) \/ Die(a)
      PROVE  Inv'
  BY <1>3, StepGate, StepRefuse, StepPut, StepMark, StepEmit, StepDie DEF Step
<1>4. ASSUME NEW w \in Workers, Pass(w)
      PROVE  Inv'
  BY <1>4, StepTune, StepTuneRead, StepTuneWrite, StepEvaluate, StepAnnounce,
     StepMonitor, StepDemote, StepRevert, StepReport, StepSweep DEF Pass
<1>5. ASSUME NEW c \in Clerks, NEW q \in Proposals,
             Reject(c, q) \/ \E policy \in Policies \ {"auto"} : Promote(c, q, policy)
      PROVE  Inv'
  BY <1>5, StepHand
<1> QED
  BY <1>1, <1>2, <1>3, <1>4, <1>5 DEF Next

LEMMA Invariance == Spec => []Inv
BY InvInit, InvNext, PTL DEF Spec

\* Every variable keeps its type, whoever overlaps and whoever dies.
THEOREM TypeCorrect == Spec => []TypeOK
<1>1. Inv => TypeOK
  BY DEF Inv
<1> QED
  BY <1>1, Invariance, PTL

\* What the unattended pass says it promoted can be taken back: the event of
\* the version names an older one, for any number of passes and people.
THEOREM AutoAlwaysReversible == Spec => []AutoReversible
<1>1. Inv => AutoReversible
  <2> SUFFICES ASSUME Inv, NEW v \in auto
               PROVE  \E e \in Anchors(v) : e.base \in 1..(v - 1)
    BY DEF AutoReversible
  <2>1. Sound(v, snaps, updated)
    BY DEF Inv
  <2>2. Anchors(v) = AnchorsIn(updated, v)
    BY DEF Anchors, AnchorsIn
  <2> QED
    BY <2>1, <2>2 DEF Sound
<1> QED
  BY <1>1, Invariance, PTL

\* A rollback undoes an unattended promotion, never a rollback, and stores
\* the values of the baseline that the promotion's event names.
THEOREM RollbackAlwaysRestores == Spec => []RollbackRestores
<1>1. Inv => RollbackRestores
  <2> SUFFICES ASSUME Inv, NEW v \in Snaps, snaps[v].from # NoVersion
               PROVE  /\ snaps[v].from \in auto
                      /\ snaps[snaps[v].from].from = NoVersion
                      /\ snaps[v].scope = snaps[snaps[v].from].scope
                      /\ \E e \in Anchors(snaps[v].from) : snaps[v].vals = snaps[e.base].vals
    BY DEF RollbackRestores
  <2>1. Undoes(v, snaps, updated, auto)
    BY DEF Inv, Snaps
  <2>2. Sound(snaps[v].from, snaps, updated)
    BY <2>1 DEF Inv, Undoes
  <2>3. Anchors(snaps[v].from) = AnchorsIn(updated, snaps[v].from)
    BY DEF Anchors, AnchorsIn
  <2> QED
    BY <2>1, <2>2, <2>3 DEF Undoes, Sound
<1> QED
  BY <1>1, Invariance, PTL

-----------------------------------------------------------------------------
(* What the proposals table says of the snapshots                            *)

\* A snapshot is stored before its proposal is marked: whoever is about to mark
\* one holds its version.
Proves(a) == run[a].pc = "mark" => snaps[run[a].version].prop = run[a].q

MarkedInv ==
    /\ \A a \in Actors : Proves(a)
    /\ \A q \in Proposals : prop[q].status = "promoted" => OfProposal(q) # {}

LEMMA OfProposalGrows ==
    ASSUME Inv, NEW row \in Row, snaps' = Append(snaps, row), NEW q
    PROVE  /\ OfProposal(q) \subseteq OfProposal(q)'
           /\ row.prop # q => OfProposal(q)' = OfProposal(q)
           /\ OfProposal(q)' \subseteq OfProposal(q) \cup {Len(snaps) + 1}
           /\ \A v \in Snaps : snaps'[v] = snaps[v]
           /\ Snaps' = Snaps \cup {Len(snaps) + 1} /\ snaps'[Len(snaps) + 1] = row
           /\ Len(snaps) + 1 \notin Snaps
<1>1. snaps \in Seq(Row)
  BY DEF Inv, TypeOK, Row
<1>2. /\ Len(snaps) \in Nat /\ Len(snaps') = Len(snaps) + 1
      /\ \A v \in 1..Len(snaps) : snaps'[v] = snaps[v]
      /\ snaps'[Len(snaps) + 1] = row
  BY <1>1
<1>3. 1..Len(snaps') = 1..Len(snaps) \cup {Len(snaps) + 1} /\ Len(snaps) + 1 \notin 1..Len(snaps)
  BY <1>2
<1> QED
  BY <1>2, <1>3 DEF OfProposal, Snaps

\* The two steps that store a version.
LEMMA PutStores ==
    ASSUME Inv, NEW a \in Actors, Put(a)
    PROVE  /\ run[a].q \in Proposals /\ prop' = prop /\ rolled' = rolled
           /\ \E row \in Row : /\ snaps' = Append(snaps, row)
                               /\ row.prop = run[a].q /\ row.from = NoVersion
           /\ run'[a].pc = "mark" /\ run'[a].q = run[a].q
           /\ run'[a].version = Len(snaps) + 1 /\ run'[a].sweep = run[a].sweep
<1>1. Before(a)
  BY InvBefore
<1>2. run[a].q \in Proposals
  BY <1>1 DEF Before, Put, Good
<1>3. PICK row : row = Snapshot(Scope[run[a].q], Merge(ValuesOf(run[a].base), Sets[run[a].q]),
                                run[a].q, NoVersion)
  OBVIOUS
<1>4. row \in Row /\ row.prop = run[a].q /\ row.from = NoVersion
  <2>1. run[a].base \in 0..Len(snaps)
    BY <1>1 DEF Before, Put, Good
  <2>2. ValuesOf(run[a].base) \in Partial(Vals) /\ Sets[run[a].q] \in Partial(Vals)
    BY <1>1, <1>2, <2>1, ValuesArePartial, PromotionAssumption DEF Before
  <2>3. PICK m \in Partial(Vals) : m = Merge(ValuesOf(run[a].base), Sets[run[a].q])
    BY <2>2, MergeIsPartial
  <2>4. Scope[run[a].q] \in Scopes /\ NoVersion \in 0..MaxSnaps
    BY <1>2, PromotionAssumption, Constants0 DEF NoVersion
  <2> QED
    BY <1>2, <1>3, <2>3, <2>4 DEF Snapshot, Row
<1>5. snaps' = Append(snaps, row)
  BY <1>3 DEF Put
<1>6. /\ run'[a].pc = "mark" /\ run'[a].q = run[a].q
      /\ run'[a].version = Len(snaps) + 1 /\ run'[a].sweep = run[a].sweep
  BY <1>1 DEF Before, Put, RunState
<1> QED
  BY <1>2, <1>4, <1>5, <1>6 DEF Put

LEMMA DemoteStores ==
    ASSUME Inv, NEW w \in Workers, Demote(w)
    PROVE  /\ prop' = prop /\ rolled' = rolled
           /\ \E row \in Row : /\ snaps' = Append(snaps, row)
                               /\ row.prop = None /\ row.from = run[w].version
           /\ run[w].version \in Snaps
           /\ run'[w].pc = "revert" /\ run'[w].q = run[w].q
           /\ run'[w].version = run[w].version /\ run'[w].sweep = run[w].sweep
<1>1. Before(w) /\ w \in Actors
  BY InvBefore DEF Actors
<1>2. run[w].version \in auto /\ \E e \in AnchorsIn(updated, run[w].version) : e.base = run[w].base
  BY <1>1 DEF Before, Demote, Good
<1>3. Sound(run[w].version, snaps, updated)
  BY <1>2 DEF Inv
<1>4. run[w].version \in 1..Len(snaps) /\ run[w].base \in 1..Len(snaps)
  <2>1. run[w].version \in 1..Len(snaps) /\ run[w].base \in 1..(run[w].version - 1)
    BY <1>2, <1>3 DEF Sound
  <2> QED
    BY <1>1, <2>1 DEF Before
<1>5. snaps \in Seq(Row)
  BY <1>1 DEF Before, TypeOK, Row
<1>6. PICK row : row = Snapshot(snaps[run[w].version].scope,
                                Restored(run[w].version, run[w].base), None, run[w].version)
  OBVIOUS
<1>7. row \in Row /\ row.prop = None /\ row.from = run[w].version
  <2>1. snaps[run[w].version] \in Row /\ snaps[run[w].base] \in Row
    BY <1>4, <1>5
  <2>2. run[w].version \in 0..MaxSnaps
    BY <1>1, <1>4 DEF Before, RunState
  <2> QED
    BY <1>6, <2>1, <2>2 DEF Snapshot, Row, Restored
<1>8. snaps' = Append(snaps, row)
  BY <1>6 DEF Demote
<1>9. /\ run'[w].pc = "revert" /\ run'[w].q = run[w].q
      /\ run'[w].version = run[w].version /\ run'[w].sweep = run[w].sweep
  BY <1>1 DEF Before, Demote, RunState
<1> QED
  BY <1>4, <1>7, <1>8, <1>9 DEF Demote, Snaps

\* Where a step leaves the locals of its actor.
Now(a, pc, q, version, sweep) ==
    /\ run'[a].pc = pc /\ run'[a].q = q
    /\ run'[a].version = version /\ run'[a].sweep = sweep

LEMMA ReturnedFields ==
    ASSUME Inv, NEW a \in Actors, run' = [run EXCEPT ![a] = Returned(a)]
    PROVE  \/ Now(a, "idle", None, NoVersion, {})
           \/ Now(a, "tune", None, NoVersion, run[a].sweep)
<1>1. Before(a)
  BY InvBefore
<1>2. run'[a] = Returned(a)
  BY <1>1 DEF Before
<1> QED
  BY <1>1, <1>2 DEF Returned, Before, RunState, Idle, Now

LEMMA WatchedFields ==
    ASSUME Inv, NEW w \in Workers, run' = [run EXCEPT ![w] = Watched(w)]
    PROVE  Now(w, IF run[w].q = None THEN "sweep" ELSE "tune", None, NoVersion, run[w].sweep)
<1>1. Before(w) /\ w \in Actors
  BY InvBefore DEF Actors
<1>2. PICK pc : pc = IF run[w].q = None THEN "sweep" ELSE "tune"
  OBVIOUS
<1>3. run'[w] = [run[w] EXCEPT !.pc = pc, !.q = None, !.base = NoVersion,
                               !.version = NoVersion, !.by = NoVersion]
  BY <1>1, <1>2 DEF Watched, Before
<1> QED
  BY <1>1, <1>2, <1>3 DEF Before, RunState, Now

\* A step moves its actor only.
LEMMA OthersRest ==
    ASSUME Inv, NEW a \in Actors, Step(a) \/ (a \in Workers /\ Pass(a))
    PROVE  env' = env /\ \A b \in Actors : b # a => run'[b] = run[b]
<1>1. run \in [Actors -> RunState]
  BY InvBefore DEF Before
<1>2. CASE Gate(a) \/ Refuse(a) \/ Put(a) \/ Mark(a) \/ Emit(a)
  BY <1>1, <1>2 DEF Gate, Refuse, Put, Mark, Emit
<1>3. CASE Tune(a) \/ TuneRead(a) \/ TuneWrite(a) \/ Evaluate(a)
  BY <1>1, <1>3 DEF Tune, TuneRead, TuneWrite, Evaluate
<1>4. CASE Announce(a) \/ Monitor(a) \/ Demote(a) \/ Revert(a) \/ Report(a)
  BY <1>1, <1>4 DEF Announce, Monitor, Demote, Revert, Report
<1>5. CASE Sweep(a) \/ SweepNext(a)
  BY <1>1, <1>5 DEF Sweep, SweepNext
<1> QED
  BY <1>2, <1>3, <1>4, <1>5 DEF Step, Pass

LEMMA TuneMoves ==
    ASSUME Inv, NEW w \in Workers, Tune(w)
    PROVE  /\ Alone /\ run[w].pc = "idle" /\ UNCHANGED stores
           /\ Now(w, "tune", None, NoVersion, {})
<1>1. Before(w) /\ w \in Actors
  BY InvBefore DEF Actors
<1>2. PICK fired : run' = [run EXCEPT ![w] = [Idle EXCEPT !.pc = "tune", !.todo = fired]]
  BY DEF Tune
<1> QED
  BY <1>1, <1>2 DEF Tune, Before, Idle, Now

LEMMA TuneReadMoves ==
    ASSUME Inv, NEW w \in Workers, TuneRead(w)
    PROVE  /\ run[w].pc = "tune" /\ UNCHANGED stores
           /\ \/ Now(w, "tune", None, run[w].version, run[w].sweep)
              \/ \E q \in Proposals : /\ ~Settled(q)
                                       /\ Now(w, "write", q, run[w].version, run[w].sweep)
<1>1. Before(w) /\ w \in Actors
  BY InvBefore DEF Actors
<1>2. PICK q : q = First(run[w].todo)
  OBVIOUS
<1>3. q \in Proposals
  BY <1>1, <1>2 DEF TuneRead, First, Before, RunState
<1>4. CASE Settled(q)
  <2>1. run' = [run EXCEPT ![w].todo = @ \ {q}, ![w].pc = "tune", ![w].q = None]
    BY <1>2, <1>4 DEF TuneRead
  <2>2. Now(w, "tune", None, run[w].version, run[w].sweep)
    BY <1>1, <2>1 DEF Before, RunState, Now
  <2> QED
    BY <2>2 DEF TuneRead
<1>5. CASE ~Settled(q)
  <2>1. run' = [run EXCEPT ![w].todo = @ \ {q}, ![w].pc = "write", ![w].q = q]
    BY <1>2, <1>5 DEF TuneRead
  <2>2. Now(w, "write", q, run[w].version, run[w].sweep)
    BY <1>1, <2>1 DEF Before, RunState, Now
  <2> QED
    BY <1>3, <1>5, <2>2 DEF TuneRead
<1> QED
  BY <1>4, <1>5

LEMMA TuneWriteMoves ==
    ASSUME Inv, NEW w \in Workers, TuneWrite(w)
    PROVE  /\ run[w].pc = "write" /\ run[w].q \in Proposals
           /\ UNCHANGED <<snaps, updated, auto, rolled>>
           /\ prop'[run[w].q].status = "pending"
           /\ \A q \in Proposals : q # run[w].q => prop'[q] = prop[q]
           /\ Now(w, "tune", None, run[w].version, run[w].sweep)
<1>1. Before(w) /\ w \in Actors
  BY InvBefore DEF Actors
<1>2. PICK size : /\ prop' = [prop EXCEPT ![run[w].q] = [status |-> "pending", size |-> size]]
                  /\ run' = [run EXCEPT ![w].pc = "tune", ![w].q = None,
                                        ![w].list[run[w].q] = size]
  BY DEF TuneWrite
<1>3. run[w].pc = "write" /\ run[w].q \in Proposals
  BY <1>1 DEF TuneWrite, Before, Good
<1>4. Now(w, "tune", None, run[w].version, run[w].sweep)
  BY <1>1, <1>2 DEF Before, RunState, Now
<1>5. /\ prop'[run[w].q].status = "pending"
      /\ \A q \in Proposals : q # run[w].q => prop'[q] = prop[q]
  BY <1>1, <1>2, <1>3 DEF Before, PropOK
<1> QED
  BY <1>3, <1>4, <1>5 DEF TuneWrite

LEMMA EvaluateMoves ==
    ASSUME Inv, NEW w \in Workers, Evaluate(w)
    PROVE  /\ run[w].pc = "tune" /\ UNCHANGED stores
           /\ \/ Now(w, "tune", None, run[w].version, run[w].sweep)
              \/ \E q \in Proposals : Now(w, "gate", q, run[w].version, run[w].sweep)
<1>1. Before(w) /\ w \in Actors
  BY InvBefore DEF Actors
<1>2. PICK f : f = First(Listed(w))
  OBVIOUS
<1>3. f \in Proposals
  BY <1>2 DEF Evaluate, First, Listed
<1>4. PICK goes \in BOOLEAN :
         run' = [run EXCEPT ![w].list[f] = Unlisted,
                            ![w].pc = IF goes THEN "gate" ELSE "tune",
                            ![w].q = IF goes THEN f ELSE None]
  <2>1. PICK g \in BOOLEAN : g = ("off" \notin env /\
          ApplyPolicy(f, run[w].list[f], Resolve(Scope[f]), "auto") = "passed")
    OBVIOUS
  <2> QED
    BY <1>2, <2>1 DEF Evaluate
<1>5. CASE goes
  <2>1. run' = [run EXCEPT ![w].list[f] = Unlisted, ![w].pc = "gate", ![w].q = f]
    BY <1>4, <1>5
  <2> QED
    BY <1>1, <1>3, <2>1 DEF Evaluate, Tuned, Before, RunState, Now
<1>6. CASE ~goes
  <2>1. run' = [run EXCEPT ![w].list[f] = Unlisted, ![w].pc = "tune", ![w].q = None]
    BY <1>4, <1>6
  <2> QED
    BY <1>1, <2>1 DEF Evaluate, Tuned, Before, RunState, Now
<1> QED
  BY <1>5, <1>6

LEMMA HandMoves ==
    ASSUME Inv, NEW c \in Clerks, NEW q \in Proposals,
           Reject(c, q) \/ \E policy \in Policies \ {"auto"} : Promote(c, q, policy)
    PROVE  /\ env' = env /\ \A b \in Actors : b # c => run'[b] = run[b]
           /\ Alone /\ run[c].pc = "idle" /\ UNCHANGED stores
           /\ \/ Now(c, "gate", q, NoVersion, {})
              \/ Now(c, "refuse", q, NoVersion, {}) /\ prop[q].status = "pending"
<1>1. Before(c) /\ c \in Actors
  BY InvBefore DEF Actors
<1>2. CASE Reject(c, q)
  BY <1>1, <1>2 DEF Reject, Before, Idle, Now
<1>3. ASSUME NEW policy \in Policies, Promote(c, q, policy)
      PROVE  /\ env' = env /\ \A b \in Actors : b # c => run'[b] = run[b]
             /\ Alone /\ run[c].pc = "idle" /\ UNCHANGED stores
             /\ Now(c, "gate", q, NoVersion, {})
  BY <1>1, <1>3 DEF Promote, Before, Idle, Now
<1> QED
  BY <1>2, <1>3

LEMMA GateMoves ==
    ASSUME Inv, NEW a \in Actors, Gate(a)
    PROVE  /\ run[a].pc = "gate" /\ UNCHANGED stores
           /\ \/ Now(a, "idle", None, NoVersion, {})
              \/ Now(a, "tune", None, NoVersion, run[a].sweep)
              \/ /\ prop[run[a].q].status = "pending"
                 /\ \/ Now(a, "refuse", run[a].q, run[a].version, run[a].sweep)
                    \/ Now(a, "put", run[a].q, run[a].version, run[a].sweep)
<1>1. Before(a)
  BY InvBefore
<1>2. CASE run' = [run EXCEPT ![a] = Returned(a)]
  BY <1>2, ReturnedFields DEF Gate
<1>3. CASE /\ prop[run[a].q].status = "pending"
           /\ run' = [run EXCEPT ![a] = [run[a] EXCEPT !.pc = "refuse"]]
  BY <1>1, <1>3 DEF Gate, Before, RunState, Now
<1>4. CASE /\ prop[run[a].q].status = "pending"
           /\ run' = [run EXCEPT ![a] = [run[a] EXCEPT !.pc = "put",
                                           !.base = Resolve(Scope[run[a].q])]]
  <2>1. PICK base : base = Resolve(Scope[run[a].q])
    OBVIOUS
  <2>2. PICK r : r = [run[a] EXCEPT !.pc = "put", !.base = base]
    OBVIOUS
  <2>3. run'[a] = r /\ r.pc = "put" /\ r.q = run[a].q /\ r.version = run[a].version
        /\ r.sweep = run[a].sweep
    BY <1>1, <1>4, <2>1, <2>2 DEF Before, RunState
  <2> QED
    BY <1>4, <2>3 DEF Gate, Now
<1> QED
  BY <1>2, <1>3, <1>4 DEF Gate

LEMMA DecideMoves ==
    ASSUME Inv, NEW a \in Actors, Refuse(a) \/ Mark(a)
    PROVE  /\ run[a].q \in Proposals /\ UNCHANGED <<snaps, updated, auto, rolled>>
           /\ \A q \in Proposals : q # run[a].q => prop'[q] = prop[q]
           /\ \/ /\ run[a].pc = "refuse" /\ prop'[run[a].q].status = "rejected"
                 /\ \/ Now(a, "idle", None, NoVersion, {})
                    \/ Now(a, "tune", None, NoVersion, run[a].sweep)
              \/ /\ run[a].pc = "mark" /\ prop'[run[a].q].status = "promoted"
                 /\ Now(a, "emit", run[a].q, run[a].version, run[a].sweep)
<1>1. Before(a)
  BY InvBefore
<1>2. run[a].q \in Proposals
  BY <1>1 DEF Before, Good, Refuse, Mark
<1>3. CASE Refuse(a)
  BY <1>1, <1>2, <1>3, ReturnedFields DEF Refuse, Before, PropOK
<1>4. CASE Mark(a)
  BY <1>1, <1>2, <1>4 DEF Mark, Before, RunState, PropOK, Now
<1> QED
  BY <1>3, <1>4

LEMMA EventMoves ==
    ASSUME Inv, NEW a \in Actors,
           Emit(a) \/ (a \in Workers /\ (Announce(a) \/ Revert(a)))
    PROVE  /\ UNCHANGED <<prop, snaps, rolled>>
           /\ \/ run[a].pc = "emit" /\ a \in Clerks /\ Now(a, "idle", None, NoVersion, {})
              \/ run[a].pc = "emit" /\ Now(a, "announce", run[a].q, run[a].version, run[a].sweep)
              \/ run[a].pc = "announce" /\ Now(a, "monitor", run[a].q, run[a].version, run[a].sweep)
              \/ run[a].pc = "revert" /\ Now(a, "report", run[a].q, run[a].version, run[a].sweep)
<1>1. Before(a)
  BY InvBefore
<1>2. CASE Emit(a) /\ a \in Clerks
  <2>1. run' = [run EXCEPT ![a] = Idle]
    BY <1>2 DEF Emit, Returned
  <2> QED
    BY <1>1, <1>2, <2>1 DEF Emit, Before, Now, Idle
<1>3. CASE Emit(a) /\ a \notin Clerks
  BY <1>1, <1>3 DEF Emit, Before, RunState, Now
<1>4. CASE Announce(a)
  BY <1>1, <1>4 DEF Announce, Before, RunState, Now
<1>5. CASE Revert(a)
  BY <1>1, <1>5 DEF Revert, Before, RunState, Now
<1> QED
  BY <1>2, <1>3, <1>4, <1>5

LEMMA MonitorMoves ==
    ASSUME Inv, NEW w \in Workers, Monitor(w)
    PROVE  /\ run[w].pc = "monitor" /\ UNCHANGED stores
           /\ \/ Now(w, "demote", run[w].q, run[w].version, run[w].sweep)
              \/ Now(w, IF run[w].q = None THEN "sweep" ELSE "tune", None, NoVersion, run[w].sweep)
<1>1. Before(w) /\ w \in Actors
  BY InvBefore DEF Actors
<1>2. CASE run' = [run EXCEPT ![w] = Watched(w)]
  BY <1>2, WatchedFields DEF Monitor
<1>3. CASE run' # [run EXCEPT ![w] = Watched(w)]
  <2>1. PICK base : run' = [run EXCEPT ![w] = [run[w] EXCEPT !.pc = "demote", !.base = base]]
    BY <1>3 DEF Monitor
  <2>2. PICK r : r = [run[w] EXCEPT !.pc = "demote", !.base = base]
    OBVIOUS
  <2>3. run'[w] = r /\ r.pc = "demote" /\ r.q = run[w].q /\ r.version = run[w].version
        /\ r.sweep = run[w].sweep
    BY <1>1, <2>1, <2>2 DEF Before, RunState
  <2> QED
    BY <2>3 DEF Monitor, Now
<1> QED
  BY <1>2, <1>3

LEMMA ReportMoves ==
    ASSUME Inv, NEW w \in Workers, Report(w)
    PROVE  /\ run[w].pc = "report" /\ UNCHANGED <<prop, snaps, updated, auto>>
           /\ RolledBack' = RolledBack \cup {run[w].version}
           /\ Now(w, IF run[w].q = None THEN "sweep" ELSE "tune", None, NoVersion, run[w].sweep)
<1>1. rolled' = rolled \cup {[version |-> run[w].version, by |-> run[w].by]}
  BY DEF Report
<1>2. RolledBack' = RolledBack \cup {run[w].version}
  <2>1. PICK r : r = [version |-> run[w].version, by |-> run[w].by]
    OBVIOUS
  <2>2. r.version = run[w].version /\ rolled' = rolled \cup {r}
    BY <1>1, <2>1
  <2> QED
    BY <2>2 DEF RolledBack
<1> QED
  BY <1>2, WatchedFields DEF Report

LEMMA SweepMoves ==
    ASSUME Inv, NEW w \in Workers, Sweep(w) \/ SweepNext(w)
    PROVE  /\ UNCHANGED stores
           /\ \/ run[w].pc \in {"tune", "sweep"} /\ Now(w, "idle", None, NoVersion, {})
              \/ /\ run[w].pc = "tune"
                 /\ Now(w, "sweep", run[w].q, run[w].version, auto \ RolledBack)
              \/ /\ run[w].pc = "sweep"
                 /\ \E v \in run[w].sweep : Now(w, "monitor", run[w].q, v, run[w].sweep \ {v})
<1>1. Before(w) /\ w \in Actors
  BY InvBefore DEF Actors
<1>2. run' = [run EXCEPT ![w] = Idle] => Now(w, "idle", None, NoVersion, {})
  BY <1>1 DEF Before, Idle, Now
<1>3. CASE Sweep(w)
  <2>1. CASE run' = [run EXCEPT ![w] = Idle]
    BY <1>2, <1>3, <2>1 DEF Sweep, Tuned
  <2>2. CASE run' = [run EXCEPT ![w] = [run[w] EXCEPT !.pc = "sweep", !.sweep = Outstanding]]
    <3>1. PICK sweep : sweep = auto \ RolledBack
      OBVIOUS
    <3>2. PICK r : r = [run[w] EXCEPT !.pc = "sweep", !.sweep = sweep]
      OBVIOUS
    <3>3. run'[w] = r /\ r.pc = "sweep" /\ r.q = run[w].q /\ r.version = run[w].version
          /\ r.sweep = sweep
      BY <1>1, <2>2, <3>1, <3>2 DEF Before, RunState, Outstanding
    <3> QED
      BY <1>3, <3>1, <3>3 DEF Sweep, Tuned, Now
  <2> QED
    BY <1>3, <2>1, <2>2 DEF Sweep
<1>4. CASE SweepNext(w)
  <2>1. CASE run[w].sweep = {}
    BY <1>2, <1>4, <2>1 DEF SweepNext
  <2>2. CASE run[w].sweep # {}
    <3>1. PICK v \in run[w].sweep :
            run' = [run EXCEPT ![w].pc = "monitor", ![w].version = v, ![w].sweep = @ \ {v}]
      BY <1>4, <2>2 DEF SweepNext
    <3>2. Now(w, "monitor", run[w].q, v, run[w].sweep \ {v})
      BY <1>1, <3>1 DEF Before, RunState, Now
    <3> QED
      BY <1>4, <3>2 DEF SweepNext
  <2> QED
    BY <2>1, <2>2
<1> QED
  BY <1>3, <1>4

LEMMA MarkedKept ==
    ASSUME Inv, MarkedInv, NEW a \in Actors, \A b \in Actors : b # a => run'[b] = run[b],
           snaps' = snaps, run'[a].pc # "mark",
           \A q \in Proposals : prop'[q].status = "promoted" =>
             prop[q].status = "promoted" \/ (run[a].pc = "mark" /\ q = run[a].q)
    PROVE  MarkedInv'
<1>1. \A b \in Actors : Proves(b)'
  BY DEF MarkedInv, Proves
<1>2. ASSUME NEW q \in Proposals, prop'[q].status = "promoted"
      PROVE  OfProposal(q)' # {}
  <2>1. CASE prop[q].status = "promoted"
    BY <2>1 DEF MarkedInv, OfProposal, Snaps
  <2>2. CASE run[a].pc = "mark" /\ q = run[a].q
    <3>1. run[a].version \in Snaps /\ snaps[run[a].version].prop = q
      BY <2>2 DEF MarkedInv, Proves, Inv, Good, Holding, Stored, Snaps
    <3> QED
      BY <3>1 DEF OfProposal, Snaps
  <2> QED
    BY <1>2, <2>1, <2>2
<1> QED
  BY <1>1, <1>2 DEF MarkedInv

LEMMA MarkedStored ==
    ASSUME Inv, MarkedInv, NEW a \in Actors, \A b \in Actors : b # a => run'[b] = run[b],
           prop' = prop, NEW row \in Row, snaps' = Append(snaps, row),
           run'[a].pc = "mark" =>
             run'[a].version = Len(snaps) + 1 /\ row.prop = run'[a].q
    PROVE  MarkedInv'
<1>1. /\ \A q : OfProposal(q) \subseteq OfProposal(q)'
      /\ \A v \in Snaps : snaps'[v] = snaps[v]
      /\ snaps'[Len(snaps) + 1] = row
  BY OfProposalGrows
<1>2. ASSUME NEW b \in Actors, b # a
      PROVE  Proves(b)'
  BY <1>1, <1>2 DEF MarkedInv, Proves, Inv, Good, Holding, Stored, Snaps
<1>3. Proves(a)'
  BY <1>1 DEF Proves
<1> QED
  BY <1>1, <1>2, <1>3 DEF MarkedInv

LEMMA MarkedStep == Inv /\ MarkedInv /\ [Next]_vars => MarkedInv'
<1> SUFFICES ASSUME Inv, MarkedInv, [Next]_vars
             PROVE  MarkedInv'
  OBVIOUS
<1> USE DEF stores
<1>1. ASSUME UNCHANGED <<prop, snaps, run>>
      PROVE  MarkedInv'
  BY <1>1 DEF MarkedInv, Proves, OfProposal, Snaps
<1>2. ASSUME NEW a \in Actors, Step(a) \/ (a \in Workers /\ Pass(a))
      PROVE  MarkedInv'
  <2>1. \A b \in Actors : b # a => run'[b] = run[b]
    BY <1>2, OthersRest
  <2>2. CASE Put(a)
    BY <2>1, <2>2, PutStores, MarkedStored
  <2>3. CASE a \in Workers /\ Demote(a)
    BY <2>1, <2>3, DemoteStores, MarkedStored
  <2>4. CASE Gate(a)
    BY <2>1, <2>4, GateMoves, MarkedKept DEF Now
  <2>5. CASE Refuse(a) \/ Mark(a)
    BY <2>1, <2>5, DecideMoves, MarkedKept DEF Now
  <2>6. CASE Emit(a) \/ (a \in Workers /\ (Announce(a) \/ Revert(a)))
    BY <2>1, <2>6, EventMoves, MarkedKept DEF Now
  <2>7. CASE a \in Workers /\ (Tune(a) \/ TuneRead(a) \/ Evaluate(a))
    BY <2>1, <2>7, TuneMoves, TuneReadMoves, EvaluateMoves, MarkedKept DEF Now
  <2>8. CASE a \in Workers /\ TuneWrite(a)
    BY <2>1, <2>8, TuneWriteMoves, MarkedKept DEF Now
  <2>9. CASE a \in Workers /\ (Monitor(a) \/ Sweep(a) \/ SweepNext(a))
    BY <2>1, <2>9, MonitorMoves, SweepMoves, MarkedKept DEF Now
  <2>10. CASE a \in Workers /\ Report(a)
    BY <2>1, <2>10, ReportMoves, MarkedKept DEF Now
  <2> QED
    BY <1>2, <2>2, <2>3, <2>4, <2>5, <2>6, <2>7, <2>8, <2>9, <2>10 DEF Step, Pass
<1>3. ASSUME NEW a \in Actors, Die(a)
      PROVE  MarkedInv'
  <2>1. /\ run'[a] = Idle /\ \A b \in Actors : b # a => run'[b] = run[b]
        /\ snaps' = snaps /\ prop' = prop
    BY <1>3 DEF Inv, TypeOK, Die
  <2> QED
    BY <2>1, MarkedKept DEF Idle
<1>4. ASSUME NEW c \in Clerks, NEW q \in Proposals,
             Reject(c, q) \/ \E policy \in Policies \ {"auto"} : Promote(c, q, policy)
      PROVE  MarkedInv'
  <2>1. c \in Actors
    BY DEF Actors
  <2> QED
    BY <1>4, <2>1, HandMoves, MarkedKept DEF Now
<1>5. ASSUME NEW v \in Versions, Observe(v)
      PROVE  MarkedInv'
  BY <1>1, <1>5 DEF Observe
<1> QED
  BY <1>1, <1>2, <1>3, <1>4, <1>5 DEF Next, vars, Actors

-----------------------------------------------------------------------------
(* While actors take turns and none dies: a proposal goes live once, and a   *)
(* version is undone once                                                    *)

\* Nothing undoes version v.
Fresh(v) == \A w \in Snaps : snaps[w].from # v

\* The pass is at the promotions of earlier passes.
Sweeping(a) ==
    \/ run[a].pc = "sweep"
    \/ run[a].pc \in {"monitor", "demote", "revert", "report"} /\ run[a].q = None

\* What an actor read is still so: it is alone.
Turn(a) ==
    /\ run[a].pc \in {"idle", "tune", "sweep"} => run[a].q = None
    /\ run[a].pc = "write" => prop[run[a].q].status \notin Terminal
    /\ run[a].pc \in {"refuse", "put"} => prop[run[a].q].status = "pending"
    /\ run[a].pc \in {"announce", "monitor", "demote"} => Fresh(run[a].version)
    /\ ~Sweeping(a) => run[a].sweep = {}
    /\ \A v \in run[a].sweep : Fresh(v)
    /\ run[a].pc # "sweep" => run[a].version \notin run[a].sweep

Lone == \A a, b \in Actors : run[a].pc # "idle" /\ run[b].pc # "idle" => a = b

\* A proposal with a snapshot is marked, or about to be.
Told == \A q \in Proposals : OfProposal(q) # {} =>
          \/ prop[q].status = "promoted"
          \/ \E a \in Actors : run[a].pc = "mark" /\ run[a].q = q

\* A version that is undone is on record as such, or about to be.
Recorded == \A v \in Snaps : snaps[v].from # NoVersion =>
              \/ snaps[v].from \in RolledBack
              \/ \E a \in Actors : /\ run[a].pc \in {"revert", "report"}
                                   /\ run[a].version = snaps[v].from

LiveOnce == \A v, w \in Snaps : snaps[v].prop = snaps[w].prop /\ snaps[v].prop # None => v = w
UndoneOnce == \A v, w \in Snaps :
                snaps[v].from = snaps[w].from /\ snaps[v].from # NoVersion => v = w

TurnInv ==
    Orderly => /\ Lone /\ \A a \in Actors : Turn(a)
               /\ Told /\ Recorded /\ LiveOnce /\ UndoneOnce

LEMMA TurnFramed ==
    ASSUME TurnInv, NEW a \in Actors, env' = env,
           \A b \in Actors : b # a => run'[b] = run[b],
           run[a].pc = "idle" => Alone,
           Orderly => Turn(a)' /\ Told' /\ Recorded' /\ LiveOnce' /\ UndoneOnce'
    PROVE  TurnInv'
<1> SUFFICES ASSUME Orderly
             PROVE  TurnInv'
  BY DEF TurnInv, Orderly
<1>1. Lone /\ \A b \in Actors : Turn(b)
  BY DEF TurnInv
<1>2. \A b \in Actors : b # a => run[b].pc = "idle"
  <2>1. CASE run[a].pc = "idle"
    BY <2>1 DEF Alone, Orderly
  <2>2. CASE run[a].pc # "idle"
    BY <1>1, <2>2 DEF Lone
  <2> QED
    BY <2>1, <2>2
<1>3. Lone'
  BY <1>2 DEF Lone
<1>4. ASSUME NEW b \in Actors, b # a
      PROVE  Turn(b)'
  <2>1. run'[b].pc = "idle" /\ run'[b] = run[b] /\ Turn(b)
    BY <1>1, <1>2, <1>4
  <2>2. run[b].q = None /\ run[b].sweep = {}
    BY <2>1 DEF Turn, Sweeping
  <2> QED
    BY <2>1, <2>2 DEF Turn, Sweeping
<1> QED
  BY <1>3, <1>4 DEF TurnInv

\* A step that stores no version and decides nothing.
LEMMA TurnKept ==
    ASSUME TurnInv, NEW a \in Actors, env' = env,
           \A b \in Actors : b # a => run'[b] = run[b],
           UNCHANGED <<prop, snaps>>,
           run[a].pc = "idle" => Alone, run[a].pc # "mark",
           \/ run[a].pc \notin {"revert", "report"} /\ RolledBack \subseteq RolledBack'
           \/ RolledBack' = RolledBack \cup {run[a].version}
           \/ run'[a].pc = "report" /\ run'[a].version = run[a].version /\ RolledBack' = RolledBack,
           Orderly => Turn(a)'
    PROVE  TurnInv'
<1> SUFFICES ASSUME Orderly
             PROVE  Turn(a)' /\ Told' /\ Recorded' /\ LiveOnce' /\ UndoneOnce'
  BY TurnFramed
<1>1. Told /\ Recorded /\ LiveOnce /\ UndoneOnce
  BY DEF TurnInv
<1>2. Told'
  BY <1>1 DEF Told, OfProposal, Snaps
<1>3. Recorded'
  BY <1>1 DEF Recorded, Snaps
<1>4. LiveOnce' /\ UndoneOnce'
  BY <1>1 DEF LiveOnce, UndoneOnce, Snaps
<1> QED
  BY <1>2, <1>3, <1>4

\* Nothing undoes a version that is not on record as promoted unattended.
LEMMA UnannouncedIsFresh ==
    ASSUME Inv, NEW v, v \notin auto, v # NoVersion
    PROVE  Fresh(v)
BY DEF Inv, Undoes, Fresh, Snaps

LEMMA TurnLocal ==
    ASSUME Inv, TurnInv, NEW a \in Actors, Step(a) \/ (a \in Workers /\ Pass(a)),
           ~Put(a), ~(a \in Workers /\ Demote(a)), ~Refuse(a), ~Mark(a),
           ~(a \in Workers /\ TuneWrite(a))
    PROVE  TurnInv'
<1>1. env' = env /\ \A b \in Actors : b # a => run'[b] = run[b]
  BY OthersRest
<1>2. Orderly => Turn(a) /\ Lone /\ Recorded
  BY DEF TurnInv
<1>3. RolledBack' = RolledBack \/ Report(a)
  BY DEF Step, Pass, Gate, Emit, Tune, TuneRead, TuneWrite, Evaluate, Announce, Monitor,
         Demote, Revert, Sweep, SweepNext, stores, RolledBack
<1>4. CASE a \in Workers /\ Tune(a)
  <2>1. Orderly => Turn(a)'
    BY <1>4, TuneMoves DEF Turn, Sweeping, Now
  <2> QED
    BY <1>1, <1>3, <1>4, <2>1, TuneMoves, TurnKept DEF stores, RolledBack
<1>5. CASE a \in Workers /\ TuneRead(a)
  <2>1. ASSUME Orderly
        PROVE  Turn(a)'
    <3>1. run[a].sweep = {} /\ Turn(a)
      BY <1>2, <1>5, <2>1, TuneReadMoves DEF Turn, Sweeping
    <3> QED
      BY <1>5, <3>1, TuneReadMoves DEF Turn, Sweeping, Now, Settled, stores
  <2> QED
    BY <1>1, <1>5, <2>1, TuneReadMoves, TurnKept DEF stores, RolledBack
<1>6. CASE a \in Workers /\ Evaluate(a)
  <2>1. ASSUME Orderly
        PROVE  Turn(a)'
    <3>1. run[a].sweep = {} /\ Turn(a)
      BY <1>2, <1>6, <2>1, EvaluateMoves DEF Turn, Sweeping
    <3> QED
      BY <1>6, <3>1, EvaluateMoves DEF Turn, Sweeping, Now, stores
  <2> QED
    BY <1>1, <1>6, <2>1, EvaluateMoves, TurnKept DEF stores, RolledBack
<1>7. CASE Gate(a)
  <2>1. ASSUME Orderly
        PROVE  Turn(a)'
    <3>1. run[a].sweep = {} /\ Turn(a)
      BY <1>2, <1>7, <2>1, GateMoves DEF Turn, Sweeping
    <3> QED
      BY <1>7, <3>1, GateMoves DEF Turn, Sweeping, Now, stores
  <2> QED
    BY <1>1, <1>7, <2>1, GateMoves, TurnKept DEF stores, RolledBack
<1>8. CASE Emit(a) \/ (a \in Workers /\ (Announce(a) \/ Revert(a)))
  <2>1. ASSUME Orderly
        PROVE  Turn(a)'
    <3>1. Turn(a) /\ \A v : Fresh(v)' <=> Fresh(v)
      BY <1>2, <1>8, <2>1, EventMoves DEF Fresh, Snaps
    <3>2. CASE run[a].pc = "emit"
      <4>1. run[a].sweep = {}
        BY <3>1, <3>2 DEF Turn, Sweeping
      <4>2. run[a].version \notin auto /\ run[a].version # NoVersion
        BY <3>2, InvBefore DEF Before, Good, Holding, Stored, NoVersion
      <4>3. Fresh(run[a].version)
        BY <4>2, UnannouncedIsFresh
      <4> QED
        BY <1>8, <3>1, <3>2, <4>1, <4>3, EventMoves DEF Turn, Sweeping, Now
    <3>3. CASE run[a].pc # "emit"
      BY <1>8, <3>1, <3>3, EventMoves DEF Turn, Sweeping, Now
    <3> QED
      BY <3>2, <3>3
  <2>2. RolledBack' = RolledBack
    BY <1>8, EventMoves DEF RolledBack
  <2> QED
    BY <1>1, <1>8, <2>1, <2>2, EventMoves, TurnKept DEF Now
<1>9. CASE a \in Workers /\ Monitor(a)
  <2>1. ASSUME Orderly
        PROVE  Turn(a)'
    <3>1. Turn(a) /\ \A v : Fresh(v)' <=> Fresh(v)
      BY <1>2, <1>9, <2>1, MonitorMoves DEF Fresh, Snaps, stores
    <3>2. PICK pc : pc = IF run[a].q = None THEN "sweep" ELSE "tune"
      OBVIOUS
    <3>3. NoVersion \notin run[a].sweep
      BY InvBefore DEF Before, Good, TypeOK, Versions, NoVersion
    <3>4. run[a].pc = "monitor" /\ (\/ Now(a, "demote", run[a].q, run[a].version, run[a].sweep)
                                    \/ Now(a, pc, None, NoVersion, run[a].sweep))
      BY <1>9, <3>2, MonitorMoves
    <3> QED
      BY <3>1, <3>2, <3>3, <3>4 DEF Turn, Sweeping, Now
  <2> QED
    BY <1>1, <1>9, <2>1, MonitorMoves, TurnKept DEF stores, RolledBack
<1>10. CASE a \in Workers /\ Report(a)
  <2>1. ASSUME Orderly
        PROVE  Turn(a)'
    <3>1. Turn(a) /\ \A v : Fresh(v)' <=> Fresh(v)
      BY <1>2, <1>10, <2>1, ReportMoves DEF Fresh, Snaps
    <3>2. PICK pc : pc = IF run[a].q = None THEN "sweep" ELSE "tune"
      OBVIOUS
    <3>3. NoVersion \notin run[a].sweep
      BY InvBefore DEF Before, Good, TypeOK, Versions, NoVersion
    <3>4. run[a].pc = "report" /\ Now(a, pc, None, NoVersion, run[a].sweep)
      BY <1>10, <3>2, ReportMoves
    <3> QED
      BY <3>1, <3>2, <3>3, <3>4 DEF Turn, Sweeping, Now
  <2> QED
    BY <1>1, <1>10, <2>1, ReportMoves, TurnKept
<1>11. CASE a \in Workers /\ (Sweep(a) \/ SweepNext(a))
  <2>1. ASSUME Orderly
        PROVE  Turn(a)'
    <3>1. Turn(a) /\ \A v : Fresh(v)' <=> Fresh(v)
      BY <1>2, <1>11, <2>1, SweepMoves DEF Fresh, Snaps, stores
    <3>2. CASE run[a].pc = "tune"
      <4>1. run[a].sweep = {} /\ run[a].q = None
        BY <3>1, <3>2 DEF Turn, Sweeping
      <4>2. \A v \in auto \ RolledBack : Fresh(v)
        <5>1. \A b \in Actors : run[b].pc \notin {"revert", "report"}
          BY <1>2, <2>1, <3>2 DEF Lone
        <5>2. Recorded
          BY <1>2, <2>1
        <5>3. NoVersion \notin auto
          BY InvBefore DEF Before, TypeOK, Versions, NoVersion
        <5> QED
          BY <5>1, <5>2, <5>3 DEF Recorded, Fresh
      <4> QED
        BY <1>11, <3>1, <3>2, <4>1, <4>2, SweepMoves DEF Turn, Sweeping, Now
    <3>3. CASE run[a].pc # "tune"
      <4>1. CASE Now(a, "idle", None, NoVersion, {})
        BY <4>1 DEF Turn, Sweeping, Now
      <4>2. CASE ~Now(a, "idle", None, NoVersion, {})
        <5>1. PICK v \in run[a].sweep : Now(a, "monitor", run[a].q, v, run[a].sweep \ {v})
          BY <1>11, <3>3, <4>2, SweepMoves
        <5>2. run[a].pc = "sweep"
          BY <1>11, <3>3, <4>2, SweepMoves
        <5> QED
          BY <3>1, <5>1, <5>2 DEF Turn, Sweeping, Now
      <4> QED
        BY <4>1, <4>2
    <3> QED
      BY <3>2, <3>3
  <2> QED
    BY <1>1, <1>11, <2>1, SweepMoves, TurnKept DEF stores, RolledBack
<1> QED
  BY <1>4, <1>5, <1>6, <1>7, <1>8, <1>9, <1>10, <1>11 DEF Step, Pass

LEMMA TurnDecides ==
    ASSUME Inv, TurnInv, NEW a \in Actors,
           Refuse(a) \/ Mark(a) \/ (a \in Workers /\ TuneWrite(a))
    PROVE  TurnInv'
<1>1. env' = env /\ \A b \in Actors : b # a => run'[b] = run[b]
  BY OthersRest DEF Step, Pass
<1>2. /\ run[a].pc \in {"refuse", "mark", "write"} /\ run[a].q \in Proposals
      /\ UNCHANGED <<snaps, updated, auto, rolled>>
      /\ \A q \in Proposals : q # run[a].q => prop'[q] = prop[q]
  BY DecideMoves, TuneWriteMoves
<1>3. SUFFICES ASSUME Orderly
               PROVE  Turn(a)' /\ Told' /\ Recorded' /\ LiveOnce' /\ UndoneOnce'
  BY <1>1, <1>2, TurnFramed
<1>4. Turn(a) /\ Lone /\ Told /\ Recorded /\ LiveOnce /\ UndoneOnce
  BY <1>3 DEF TurnInv
<1>5. run[a].sweep = {}
  BY <1>2, <1>4 DEF Turn, Sweeping
<1>6. Turn(a)'
  BY <1>4, <1>5, DecideMoves, TuneWriteMoves DEF Turn, Sweeping, Now
<1>7. Recorded'
  BY <1>1, <1>2, <1>4 DEF Recorded, Snaps, RolledBack
<1>8. LiveOnce' /\ UndoneOnce'
  BY <1>2, <1>4 DEF LiveOnce, UndoneOnce, Snaps
<1>9. ASSUME NEW q \in Proposals, OfProposal(q)' # {}
      PROVE  prop'[q].status = "promoted" \/ \E b \in Actors : run'[b].pc = "mark" /\ run'[b].q = q
  <2>1. OfProposal(q) # {}
    BY <1>2, <1>9 DEF OfProposal, Snaps
  <2>2. CASE q # run[a].q
    BY <1>1, <1>2, <1>4, <2>1, <2>2 DEF Told
  <2>3. CASE q = run[a].q /\ run[a].pc = "mark"
    BY <2>3, DecideMoves, TuneWriteMoves
  <2>4. CASE q = run[a].q /\ run[a].pc # "mark"
    <3>1. prop[q].status # "promoted"
      BY <1>2, <1>4, <2>4 DEF Turn, Terminal
    <3>2. \A b \in Actors : run[b].pc # "mark"
      BY <1>2, <1>4, <2>4 DEF Lone
    <3> QED
      BY <1>4, <2>1, <3>1, <3>2 DEF Told
  <2> QED
    BY <2>2, <2>3, <2>4
<1> QED
  BY <1>6, <1>7, <1>8, <1>9 DEF Told

LEMMA TurnPut ==
    ASSUME Inv, TurnInv, NEW a \in Actors, Put(a)
    PROVE  TurnInv'
<1>1. env' = env /\ \A b \in Actors : b # a => run'[b] = run[b]
  BY OthersRest DEF Step
<1>2. PICK row \in Row : snaps' = Append(snaps, row) /\ row.prop = run[a].q /\ row.from = NoVersion
  BY PutStores
<1>3. /\ run[a].pc = "put" /\ run[a].q \in Proposals /\ prop' = prop /\ rolled' = rolled
      /\ run'[a].pc = "mark" /\ run'[a].q = run[a].q
      /\ run'[a].version = Len(snaps) + 1 /\ run'[a].sweep = run[a].sweep
  BY PutStores DEF Put
<1>4. SUFFICES ASSUME Orderly
               PROVE  Turn(a)' /\ Told' /\ Recorded' /\ LiveOnce' /\ UndoneOnce'
  BY <1>1, <1>3, TurnFramed
<1>5. Turn(a) /\ Lone /\ Told /\ Recorded /\ LiveOnce /\ UndoneOnce
  BY <1>4 DEF TurnInv
<1>6. /\ Snaps' = Snaps \cup {Len(snaps) + 1} /\ Len(snaps) + 1 \notin Snaps
      /\ \A v \in Snaps : snaps'[v] = snaps[v]
      /\ snaps'[Len(snaps) + 1] = row
      /\ \A q : row.prop # q => OfProposal(q)' = OfProposal(q)
  BY <1>2, OfProposalGrows
<1>7. OfProposal(run[a].q) = {}
  <2>1. prop[run[a].q].status # "promoted"
    BY <1>3, <1>5 DEF Turn
  <2>2. \A b \in Actors : run[b].pc # "mark"
    BY <1>3, <1>5 DEF Lone
  <2> QED
    BY <1>3, <1>5, <2>1, <2>2 DEF Told
<1>8. run[a].sweep = {}
  BY <1>3, <1>5 DEF Turn, Sweeping
<1>9. Turn(a)'
  BY <1>3, <1>8 DEF Turn, Sweeping
<1>10. Told'
  <2> SUFFICES ASSUME NEW q \in Proposals, OfProposal(q)' # {}
               PROVE  prop'[q].status = "promoted"
                      \/ \E b \in Actors : run'[b].pc = "mark" /\ run'[b].q = q
    BY DEF Told
  <2>1. CASE q = run[a].q
    BY <1>3, <2>1
  <2>2. CASE q # run[a].q
    <3>1. OfProposal(q) # {}
      BY <1>2, <1>6, <2>2
    <3>2. \A b \in Actors : run[b].pc = "mark" => b # a
      BY <1>3
    <3> QED
      BY <1>1, <1>3, <1>5, <3>1, <3>2 DEF Told
  <2> QED
    BY <2>1, <2>2
<1>11. LiveOnce'
  <2>1. \A v \in Snaps : snaps[v].prop # row.prop
    BY <1>2, <1>7 DEF OfProposal
  <2> QED
    BY <1>5, <1>6, <2>1 DEF LiveOnce
<1>12. UndoneOnce'
  <2> SUFFICES ASSUME NEW v \in Snaps', NEW w \in Snaps', snaps'[v].from = snaps'[w].from,
                      snaps'[v].from # NoVersion
               PROVE  v = w
    BY DEF UndoneOnce
  <2>1. v # Len(snaps) + 1 /\ w # Len(snaps) + 1
    BY <1>2, <1>6
  <2>2. v \in Snaps /\ w \in Snaps /\ snaps'[v] = snaps[v] /\ snaps'[w] = snaps[w]
    BY <1>6, <2>1
  <2> QED
    BY <1>5, <2>2 DEF UndoneOnce
<1>13. Recorded'
  <2> SUFFICES ASSUME NEW v \in Snaps', snaps'[v].from # NoVersion
               PROVE  \/ snaps'[v].from \in RolledBack'
                      \/ \E b \in Actors : /\ run'[b].pc \in {"revert", "report"}
                                           /\ run'[b].version = snaps'[v].from
    BY DEF Recorded
  <2>1. v \in Snaps /\ snaps'[v] = snaps[v]
    BY <1>2, <1>6
  <2>2. \A b \in Actors : run[b].pc \in {"revert", "report"} => b # a
    BY <1>3
  <2> QED
    BY <1>1, <1>3, <1>5, <2>1, <2>2 DEF Recorded, RolledBack
<1> QED
  BY <1>9, <1>10, <1>11, <1>12, <1>13

LEMMA TurnDemote ==
    ASSUME Inv, TurnInv, NEW a \in Workers, Demote(a)
    PROVE  TurnInv'
<1> a \in Actors
  BY DEF Actors
<1>1. env' = env /\ \A b \in Actors : b # a => run'[b] = run[b]
  BY OthersRest DEF Pass
<1>2. PICK row \in Row : snaps' = Append(snaps, row) /\ row.prop = None /\ row.from = run[a].version
  BY DemoteStores
<1>3. /\ run[a].pc = "demote" /\ prop' = prop /\ rolled' = rolled
      /\ run[a].version \in Snaps
      /\ run'[a].pc = "revert" /\ run'[a].q = run[a].q
      /\ run'[a].version = run[a].version /\ run'[a].sweep = run[a].sweep
  BY DemoteStores DEF Demote
<1>4. SUFFICES ASSUME Orderly
               PROVE  Turn(a)' /\ Told' /\ Recorded' /\ LiveOnce' /\ UndoneOnce'
  BY <1>1, <1>3, TurnFramed
<1>5. Turn(a) /\ Lone /\ Told /\ Recorded /\ LiveOnce /\ UndoneOnce
  BY <1>4 DEF TurnInv
<1>6. /\ Snaps' = Snaps \cup {Len(snaps) + 1} /\ Len(snaps) + 1 \notin Snaps
      /\ \A v \in Snaps : snaps'[v] = snaps[v]
      /\ snaps'[Len(snaps) + 1] = row
      /\ \A q : row.prop # q => OfProposal(q)' = OfProposal(q)
  BY <1>2, OfProposalGrows
<1>7. Fresh(run[a].version)
  BY <1>3, <1>5 DEF Turn
<1>8. Turn(a)'
  <2>1. \A v : Fresh(v) /\ v # run[a].version => Fresh(v)'
    BY <1>2, <1>6 DEF Fresh
  <2> QED
    BY <1>3, <1>5, <2>1 DEF Turn, Sweeping
<1>9. Told'
  <2>1. \A q \in Proposals : OfProposal(q)' = OfProposal(q)
    BY <1>2, <1>6, PromotionAssumption
  <2>2. \A b \in Actors : run[b].pc = "mark" => b # a
    BY <1>3
  <2> QED
    BY <1>1, <1>3, <1>5, <2>1, <2>2 DEF Told
<1>10. LiveOnce'
  <2> SUFFICES ASSUME NEW v \in Snaps', NEW w \in Snaps', snaps'[v].prop = snaps'[w].prop,
                      snaps'[v].prop # None
               PROVE  v = w
    BY DEF LiveOnce
  <2>1. v # Len(snaps) + 1 /\ w # Len(snaps) + 1
    BY <1>2, <1>6
  <2>2. v \in Snaps /\ w \in Snaps /\ snaps'[v] = snaps[v] /\ snaps'[w] = snaps[w]
    BY <1>6, <2>1
  <2> QED
    BY <1>5, <2>2 DEF LiveOnce
<1>11. UndoneOnce'
  <2> SUFFICES ASSUME NEW v \in Snaps', NEW w \in Snaps', snaps'[v].from = snaps'[w].from,
                      snaps'[v].from # NoVersion
               PROVE  v = w
    BY DEF UndoneOnce
  <2>1. \A u \in Snaps : snaps[u].from # row.from
    BY <1>2, <1>7 DEF Fresh
  <2>2. \A u \in Snaps' : (u \in Snaps /\ snaps'[u] = snaps[u])
                           \/ (u = Len(snaps) + 1 /\ snaps'[u] = row)
    BY <1>6
  <2>3. CASE v \in Snaps /\ w \in Snaps /\ snaps'[v] = snaps[v] /\ snaps'[w] = snaps[w]
    BY <1>5, <2>3 DEF UndoneOnce
  <2> QED
    BY <2>1, <2>2, <2>3
<1>12. Recorded'
  <2> SUFFICES ASSUME NEW v \in Snaps', snaps'[v].from # NoVersion
               PROVE  \/ snaps'[v].from \in RolledBack'
                      \/ \E b \in Actors : /\ run'[b].pc \in {"revert", "report"}
                                           /\ run'[b].version = snaps'[v].from
    BY DEF Recorded
  <2>1. CASE v = Len(snaps) + 1
    BY <1>2, <1>3, <1>6, <2>1
  <2>2. CASE v # Len(snaps) + 1
    <3>1. v \in Snaps /\ snaps'[v] = snaps[v]
      BY <1>6, <2>2
    <3>2. \A b \in Actors : run[b].pc \in {"revert", "report"} => b # a
      BY <1>3
    <3> QED
      BY <1>1, <1>3, <1>5, <3>1, <3>2 DEF Recorded, RolledBack
  <2> QED
    BY <2>1, <2>2
<1> QED
  BY <1>8, <1>9, <1>10, <1>11, <1>12

LEMMA TurnStep == Inv /\ TurnInv /\ [Next]_vars => TurnInv'
<1> SUFFICES ASSUME Inv, TurnInv, [Next]_vars
             PROVE  TurnInv'
  OBVIOUS
<1>1. ASSUME UNCHANGED <<env, prop, snaps, rolled, run>>
      PROVE  TurnInv'
  BY <1>1 DEF TurnInv, Orderly, Lone, Turn, Sweeping, Fresh, Told, Recorded, LiveOnce, UndoneOnce,
              OfProposal, Snaps, RolledBack
<1>2. ASSUME NEW a \in Actors, Step(a) \/ (a \in Workers /\ Pass(a))
      PROVE  TurnInv'
  BY <1>2, TurnLocal, TurnDecides, TurnPut, TurnDemote
<1>3. ASSUME NEW a \in Actors, Die(a)
      PROVE  TurnInv'
  BY <1>3 DEF Die, TurnInv, Orderly
<1>4. ASSUME NEW c \in Clerks, NEW q \in Proposals,
             Reject(c, q) \/ \E policy \in Policies \ {"auto"} : Promote(c, q, policy)
      PROVE  TurnInv'
  <2>1. c \in Actors
    BY DEF Actors
  <2>2. Turn(c)'
    BY <1>4, HandMoves DEF Turn, Sweeping, Now, stores
  <2> QED
    BY <1>4, <2>1, <2>2, HandMoves, TurnKept DEF stores, RolledBack
<1>5. ASSUME NEW v \in Versions, Observe(v)
      PROVE  TurnInv'
  BY <1>1, <1>5 DEF Observe, stores
<1> QED
  BY <1>1, <1>2, <1>3, <1>4, <1>5 DEF Next, vars, stores, Actors

LEMMA OneAtMost ==
    ASSUME NEW S, \A x, y \in S : x = y
    PROVE  Cardinality(S) <= 1
<1>1. CASE S = {}
  BY <1>1, FS_EmptySet
<1>2. CASE S # {}
  <2>1. PICK x : x \in S
    BY <1>2
  <2>2. S = {x}
    BY <2>1
  <2> QED
    BY <2>2, FS_Singleton
<1> QED
  BY <1>1, <1>2

\* What is marked promoted has a snapshot, whoever overlaps and whoever dies.
\* And while actors take turns and none dies, exactly what has a snapshot is
\* marked, a proposal goes live once at most, and a version is rolled back once
\* at most, so that no scope flaps.
THEOREM DecisionsAlwaysTell == Spec => []DecisionsTell
<1>1. Init => MarkedInv /\ TurnInv
  <2> SUFFICES ASSUME Init PROVE MarkedInv /\ TurnInv
    OBVIOUS
  <2>1. \A a \in Actors : run[a] = Idle
    BY DEF Init
  <2>2. \A q \in Proposals : prop[q].status \in {"pending", None}
    BY DEF Init
  <2>3. \A v \in Snaps : v = 1 /\ snaps[v].prop = None /\ snaps[v].from = NoVersion
    BY DEF Init, Snaps, Snapshot
  <2>4. MarkedInv
    BY <2>1, <2>2 DEF MarkedInv, Proves, Idle, None
  <2>5. Lone /\ \A a \in Actors : Turn(a)
    BY <2>1 DEF Lone, Turn, Sweeping, Idle
  <2>6. Told
    BY <2>3, PromotionAssumption DEF Told, OfProposal
  <2>7. Recorded /\ LiveOnce /\ UndoneOnce
    BY <2>3 DEF Recorded, LiveOnce, UndoneOnce
  <2> QED
    BY <2>4, <2>5, <2>6, <2>7 DEF TurnInv
<1>2. MarkedInv /\ TurnInv => DecisionsTell
  <2> SUFFICES ASSUME MarkedInv, TurnInv PROVE DecisionsTell
    OBVIOUS
  <2>1. \A q \in Proposals : prop[q].status = "promoted" => OfProposal(q) # {}
    BY DEF MarkedInv
  <2>2. ASSUME Orderly, NEW q \in Proposals
        PROVE  /\ Cardinality(OfProposal(q)) <= 1
               /\ (\A a \in Actors : run[a].pc = "idle") /\ OfProposal(q) # {}
                    => prop[q].status = "promoted"
    <3>1. \A v, w \in OfProposal(q) : v = w
      BY <2>2, PromotionAssumption DEF TurnInv, LiveOnce, OfProposal
    <3>2. Told
      BY <2>2 DEF TurnInv
    <3> QED
      BY <3>1, <3>2, OneAtMost DEF Told
  <2>3. ASSUME Orderly, NEW v \in Snaps
        PROVE  Cardinality({w \in Snaps : snaps[w].from = v}) <= 1
    <3>1. v # NoVersion
      BY DEF Snaps, NoVersion
    <3>2. \A w, x \in {w \in Snaps : snaps[w].from = v} : w = x
      BY <2>3, <3>1 DEF TurnInv, UndoneOnce
    <3> QED
      BY <3>2, OneAtMost
  <2> QED
    BY <2>1, <2>2, <2>3 DEF DecisionsTell
<1>3. Inv /\ MarkedInv /\ TurnInv /\ [Next]_vars => (MarkedInv /\ TurnInv)'
  BY MarkedStep, TurnStep
<1> QED
  BY <1>1, <1>2, <1>3, Invariance, PTL DEF Spec
=============================================================================
