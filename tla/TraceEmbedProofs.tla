-------------------------- MODULE TraceEmbedProofs --------------------------
(* Proofs about TraceEmbed, for every value of its constants.  What a pass  *)
(* keeps is stated over its record and three sets, the traces appended, the *)
(* traces appended in order and the traces done, so that each step is one   *)
(* fact about sets of numbers.                                              *)
EXTENDS TraceEmbed, FiniteSetTheorems, WellFoundedInduction, TLAPS

Tracked == store \ late
Finished == {t \in Traces : Done(t)}

\* A cursor is a trace of the store, and behind it every tracked trace is done
\* or listed.
Safe(cursor, list, A, S, D) ==
    /\ cursor \in A \cup {0}
    /\ \A t \in S : t <= cursor => t \in D \/ t \in list

\* What the paging has not seen of the range it has walked through is newer
\* than all it has seen.
Paged(self, A, S) ==
    /\ self.seen \subseteq A /\ self.window > 0
    /\ \A u \in S : u > self.wm.cursor /\ u \notin self.seen /\ At[u] > self.upper
         => \A v \in self.seen : u > v

Walking(self) == self.pc \in {"walk", "put", "embed"} /\ self.phase = "walk"

\* While the cursor can move, what lies beyond it is to do or newer than all
\* that is to do.
Ahead(self, A, S) ==
    /\ self.todo \subseteq A
    /\ self.contiguous =>
         /\ \A v \in self.todo : v > self.frontier
         /\ \A u \in S : u > self.frontier =>
              u \in self.todo \/ \A v \in self.todo : u > v

\* The trace in hand is the oldest one to do.
InHand(self) == self.trace \in self.todo /\ \A u \in self.todo : self.trace <= u

Phased(self) ==
    /\ self.pc \in {"idle", "retry", "page"} => self.phase = "retry"
    /\ self.pc \in {"walk", "sweep", "raise", "save"} => self.phase = "walk"
    /\ self.phase = "retry" => self.frontier = self.wm.cursor
    /\ self.phase = "retry" /\ self.pc # "page" => self.seen = {}

Good(self, A, S, D) ==
    /\ self \in PassState
    /\ Phased(self)
    /\ Cardinality(self.held) <= RetryLimit
    /\ Safe(self.frontier, self.held, A, S, D)
    /\ self.pc \in {"put", "embed"} => InHand(self)
    /\ self.pc = "raise" => self.trace \in Traces
    /\ self.pc = "page" => Paged(self, A, S)
    /\ Walking(self) => Ahead(self, A, S)

OnDisk(wm, A, S, D) ==
    /\ wm \in Watermark
    /\ Cardinality(wm.retry) <= RetryLimit
    /\ Safe(wm.cursor, wm.retry, A, S, D)

Inv ==
    /\ TypeOK
    /\ OnDisk(file, store, Tracked, Finished)
    /\ \A p \in Passes : Good(pass[p], store, Tracked, Finished)

-----------------------------------------------------------------------------
(* Sets of traces.                                                          *)

LEMMA LeastNatural ==
    ASSUME NEW S, S \subseteq Nat, S # {}
    PROVE  \E x \in S : \A y \in S : x <= y
<1> DEFINE R == {ss \in Nat \X Nat : ss[1] < ss[2]}
<1>1. IsWellFoundedOn(R, Nat)
  BY NatLessThanWellFounded DEF OpToRel
<1>2. PICK x \in S : \A y \in S : ~(<<y, x>> \in R)
  <2> HIDE DEF R
  <2> QED
    BY <1>1, WFMin
<1>3. \A y \in S : ~(y < x)
  BY <1>2
<1> QED
  BY <1>3

LEMMA OldestIsLeast ==
    ASSUME NEW S, S \subseteq Traces, S # {}
    PROVE  Oldest(S) \in S /\ \A u \in S : Oldest(S) <= u
<1>1. S \subseteq Nat
  BY TraceAssumption DEF Traces
<1>2. \E x \in S : \A y \in S : x <= y
  BY <1>1, LeastNatural
<1> QED
  BY <1>2 DEF Oldest

LEMMA TracesFinite ==
    ASSUME NEW S, S \subseteq Traces
    PROVE  IsFiniteSet(S) /\ Cardinality(S) \in Nat
<1>1. IsFiniteSet(Traces)
  BY TraceAssumption, FS_Interval DEF Traces
<1>2. IsFiniteSet(S)
  BY <1>1, FS_Subset
<1> QED
  BY <1>2, FS_CardinalityType

LEMMA ListedFits ==
    ASSUME NEW S, S \subseteq Traces, NEW t \in Traces, Cardinality(S) <= RetryLimit
    PROVE  /\ Cardinality(S \ {t}) <= RetryLimit
           /\ Cardinality(S) < RetryLimit => Cardinality(S \cup {t}) <= RetryLimit
<1>1. IsFiniteSet(S) /\ Cardinality(S) \in Nat
  BY TracesFinite
<1>2. Cardinality(S \ {t}) <= Cardinality(S)
  BY <1>1, FS_RemoveElement
<1>3. Cardinality(S \cup {t}) <= Cardinality(S) + 1
  BY <1>1, FS_AddElement
<1>4. Cardinality(S \ {t}) \in Nat /\ Cardinality(S \cup {t}) \in Nat
  BY TracesFinite
<1> QED
  BY <1>1, <1>2, <1>3, <1>4, TraceAssumption

\* The slice a pass walks is downward closed beyond the cursor.
LEMMA SliceIsOldest ==
    ASSUME NEW S, S \subseteq Traces, NEW c \in 0..N
    PROVE  /\ Slice(S, c) \subseteq S /\ \A v \in Slice(S, c) : v > c
           /\ \A u \in S : u > c =>
                u \in Slice(S, c) \/ \A v \in Slice(S, c) : u > v
<1> DEFINE after == {t \in S : t > c}
<1>1. Slice(S, c) \subseteq after
  BY DEF Slice
<1>2. ASSUME NEW u \in S, u > c, u \notin Slice(S, c), NEW v \in Slice(S, c), ~(u > v)
      PROVE  FALSE
  <2>1. u \in after /\ v \in after
    BY <1>2, <1>1
  <2>2. u \in Nat /\ v \in Nat
    BY <2>1, TraceAssumption DEF Traces
  <2>3. Behind(after, v) < MaxScan /\ ~(Behind(after, u) < MaxScan)
    BY <1>2, <2>1 DEF Slice
  <2> DEFINE U == {w \in after : w < u}
             V == {w \in after : w < v}
  <2>4. U \subseteq V
    <3> SUFFICES ASSUME NEW w \in after, w < u PROVE w < v
      OBVIOUS
    <3>1. w \in Nat
      BY TraceAssumption DEF Traces
    <3> QED
      BY <3>1, <2>2, <1>2
  <2>5. IsFiniteSet(V) /\ Cardinality(V) \in Nat /\ Cardinality(U) \in Nat
    BY TracesFinite
  <2>6. Cardinality(U) <= Cardinality(V)
    BY <2>4, <2>5, FS_Subset
  <2>7. Behind(after, u) = Cardinality(U) /\ Behind(after, v) = Cardinality(V)
    BY DEF Behind
  <2> HIDE DEF U, V, after
  <2> QED
    BY <2>3, <2>5, <2>6, <2>7, TraceAssumption
<1> QED
  BY <1>1, <1>2

-----------------------------------------------------------------------------
(* What a pass keeps, step by step.                                         *)

LEMMA IdleGood ==
    ASSUME NEW A, NEW S \in SUBSET Traces, NEW D
    PROVE  Good(Idle, A, S, D)
<1>1. Forgotten \in Watermark
  BY TraceAssumption DEF Forgotten, Watermark
<1>2. Idle \in PassState
  BY <1>1, TraceAssumption DEF Idle, PassState, Verdicts, Labels
<1>3. /\ Idle.pc = "idle" /\ Idle.phase = "retry" /\ Idle.frontier = 0
      /\ Idle.held = {} /\ Idle.wm.cursor = 0 /\ Idle.seen = {}
  BY DEF Idle, Forgotten
<1>4. Cardinality(Idle.held) <= RetryLimit
  BY <1>3, FS_EmptySet, TraceAssumption
<1>5. Safe(0, {}, A, S, D)
  BY TraceAssumption DEF Safe, Traces
<1> QED
  BY <1>2, <1>3, <1>4, <1>5 DEF Good, Phased, Walking

LEMMA GoodMonotone ==
    ASSUME NEW A, NEW S, NEW D, NEW E, D \subseteq E,
           NEW self, Good(self, A, S, D)
    PROVE  Good(self, A, S, E)
BY DEF Good, Safe

\* A trace that arrives in order is newer than every other.
LEMMA SafeIngested ==
    ASSUME NEW A \in SUBSET Traces, NEW S, NEW D, NEW t \in Traces \ A, NEW T,
           T \subseteq S \cup {t}, t \in T => \A u \in A : ~(u > t),
           NEW cursor, NEW list, Safe(cursor, list, A, S, D)
    PROVE  Safe(cursor, list, A \cup {t}, T, D)
<1>1. A \subseteq Nat /\ t \in Nat /\ t > 0
  BY TraceAssumption DEF Traces
<1>2. cursor \in A \cup {0} /\ \A u \in S : u <= cursor => u \in D \/ u \in list
  BY DEF Safe
<1>3. t \in T => ~(t <= cursor)
  BY <1>1, <1>2
<1> QED
  BY <1>2, <1>3 DEF Safe

LEMMA GoodIngested ==
    ASSUME NEW A \in SUBSET Traces, NEW S, NEW D, NEW t \in Traces \ A, NEW T,
           T \subseteq S \cup {t}, t \in T => \A u \in A : ~(u > t),
           NEW self, Good(self, A, S, D)
    PROVE  Good(self, A \cup {t}, T, D)
<1>1. A \subseteq Nat /\ t \in Nat
  BY TraceAssumption DEF Traces
<1>2. t \in T => \A v \in A : t > v
  BY <1>1
<1>3. self.pc = "page" => Paged(self, A \cup {t}, T)
  BY <1>2 DEF Good, Paged
<1>4. Walking(self) => Ahead(self, A \cup {t}, T)
  BY <1>2 DEF Good, Ahead
<1>5. Safe(self.frontier, self.held, A \cup {t}, T, D)
  BY SafeIngested DEF Good
<1> QED
  BY <1>3, <1>4, <1>5 DEF Good

\* The fields of a pass that is done with a trace.
EndsAs(e, self, t, ok) ==
    /\ e \in PassState
    /\ e.pc = self.phase /\ e.phase = self.phase /\ e.wm = self.wm
    /\ e.todo = self.todo \ {t} /\ e.seen = self.seen
    /\ self.phase = "retry" =>
         /\ e.held \in {self.held, self.held \ {t}}
         /\ ~ok => e.held = self.held
         /\ e.frontier = self.frontier
    /\ self.phase = "walk" =>
         /\ e.held = IF ListIt(self, ok) THEN self.held \cup {t} ELSE self.held
         /\ e.frontier = IF Passed(self, ok) THEN t ELSE self.frontier
         /\ e.contiguous => self.contiguous /\ (ok \/ ListIt(self, ok))

LEMMA EndedFields ==
    ASSUME NEW self \in PassState, NEW t \in Traces, NEW ok \in BOOLEAN,
           NEW e, e = Ended(self, t, ok)
    PROVE  EndsAs(e, self, t, ok)
<1> DEFINE done == [self EXCEPT !.pc = self.phase, !.todo = @ \ {t}, !.trace = 0,
                             !.verdict = "permitted", !.label = 0]
           held == IF ok THEN self.held \ {t} ELSE self.held
           list == IF ListIt(self, ok) THEN self.held \cup {t} ELSE self.held
           front == IF Passed(self, ok) THEN t ELSE self.frontier
           cont == self.contiguous /\ (ok \/ ListIt(self, ok))
<1>1. /\ held \in SUBSET Traces /\ list \in SUBSET Traces
      /\ front \in 0..N
  <2>1. self.held \in SUBSET Traces /\ self.frontier \in 0..N
    BY DEF PassState
  <2>2. t \in 0..N
    BY TraceAssumption DEF Traces
  <2>3. held \in SUBSET Traces
    BY <2>1
  <2>4. list \in SUBSET Traces
    BY <2>1
  <2> QED
    BY <2>1, <2>2, <2>3, <2>4
<1>2. cont \in BOOLEAN
  OBVIOUS
<1>3. self.phase \in {"retry", "walk"} /\ self.todo \ {t} \in SUBSET Traces
  BY DEF PassState
<1>4. 0 \in 0..N /\ "permitted" \in Verdicts /\ 0 \in Labels
  BY TraceAssumption DEF Verdicts, Labels
<1>5. /\ done \in PassState
      /\ done.pc = self.phase /\ done.phase = self.phase /\ done.wm = self.wm
      /\ done.todo = self.todo \ {t} /\ done.seen = self.seen /\ done.held = self.held
      /\ done.frontier = self.frontier /\ done.contiguous = self.contiguous
  BY <1>3, <1>4 DEF PassState
<1>6. e = IF self.phase = "retry" THEN [done EXCEPT !.held = held]
          ELSE [done EXCEPT !.held = list, !.frontier = front, !.contiguous = cont]
  BY <1>5 DEF Ended
<1> HIDE DEF done
<1>7. CASE self.phase = "retry"
  <2> HIDE DEF held
  <2>1. e = [done EXCEPT !.held = held]
    BY <1>6, <1>7
  <2>2. /\ e \in PassState /\ e.pc = done.pc /\ e.phase = done.phase /\ e.wm = done.wm
        /\ e.todo = done.todo /\ e.seen = done.seen /\ e.frontier = done.frontier /\ e.held = held
    BY <2>1, <1>1, <1>5 DEF PassState
  <2> QED
    BY <2>2, <1>5, <1>7 DEF held, EndsAs
<1>8. CASE self.phase = "walk"
  <2> HIDE DEF list, front, cont
  <2>1. e = [done EXCEPT !.held = list, !.frontier = front, !.contiguous = cont]
    BY <1>6, <1>8
  <2>2. /\ e \in PassState /\ e.pc = done.pc /\ e.phase = done.phase /\ e.wm = done.wm
        /\ e.todo = done.todo /\ e.seen = done.seen /\ e.frontier = front /\ e.held = list
        /\ e.contiguous = cont
    BY <2>1, <1>1, <1>2, <1>5 DEF PassState
  <2> QED
    BY <2>2, <1>5, <1>8 DEF list, front, cont, EndsAs
<1> QED
  BY <1>3, <1>7, <1>8

\* A pass leaves the oldest trace it has to do done, listed, or ahead of its
\* cursor.
LEMMA EndedGood ==
    ASSUME NEW A, NEW S \in SUBSET Traces, NEW D, NEW self, Good(self, A, S, D),
           self.pc \in {"retry", "walk", "put", "embed"},
           NEW t \in self.todo, \A u \in self.todo : t <= u,
           NEW ok \in BOOLEAN, ok => t \in D
    PROVE  Good(Ended(self, t, ok), A, S, D)
<1> PICK e : e = Ended(self, t, ok)
  OBVIOUS
<1> SUFFICES Good(e, A, S, D)
  OBVIOUS
<1>1. self \in PassState /\ t \in Traces /\ self.held \subseteq Traces
  BY DEF Good, PassState
<1>2. EndsAs(e, self, t, ok)
  BY <1>1, EndedFields
<1>3. self.phase \in {"retry", "walk"}
  BY <1>1 DEF PassState
<1>4. Phased(e)
  BY <1>2, <1>3 DEF Good, Phased, EndsAs
<1>5. CASE self.phase = "retry"
  <2>1. Cardinality(e.held) <= RetryLimit
    BY <1>1, <1>2, <1>5, ListedFits DEF Good, EndsAs
  <2>2. Safe(e.frontier, e.held, A, S, D)
    BY <1>2, <1>5 DEF Good, Safe, EndsAs
  <2> QED
    BY <1>2, <1>4, <1>5, <2>1, <2>2 DEF Good, Walking, EndsAs
<1>6. CASE self.phase = "walk"
  <2>1. Cardinality(e.held) <= RetryLimit
    BY <1>1, <1>2, <1>6, ListedFits DEF Good, ListIt, EndsAs
  <2>2. Walking(self)
    BY <1>6 DEF Good, Phased, Walking
  <2>3. Ahead(self, A, S) /\ Safe(self.frontier, self.held, A, S, D)
    BY <2>2 DEF Good
  <2>4. /\ S \subseteq Nat /\ t \in Nat /\ self.todo \subseteq Nat
        /\ self.frontier \in Nat
    BY <1>1, TraceAssumption DEF Traces, PassState
  <2>5. CASE Passed(self, ok)
    <3>1. /\ e.frontier = t /\ self.contiguous
          /\ e.held = self.held \cup {t} \/ (ok /\ e.held = self.held)
      BY <1>2, <1>6, <2>5 DEF Passed, EndsAs
    <3>2. \A u \in S : u > self.frontier => u = t \/ u > t
      <4> SUFFICES ASSUME NEW u \in S, u > self.frontier
                   PROVE  u = t \/ u > t
        OBVIOUS
      <4>1. u \in self.todo \/ u > t
        BY <2>3, <3>1 DEF Ahead
      <4> QED
        BY <4>1, <2>4
    <3>3. Safe(e.frontier, e.held, A, S, D)
      BY <2>3, <2>4, <3>1, <3>2 DEF Safe, Ahead
    <3>4. Ahead(e, A, S)
      BY <1>2, <2>3, <2>4, <3>1, <3>2 DEF Ahead, EndsAs
    <3> QED
      BY <1>2, <1>4, <1>6, <2>1, <3>3, <3>4 DEF Good, EndsAs
  <2>6. CASE ~Passed(self, ok)
    <3>1. ~e.contiguous /\ e.frontier = self.frontier /\ e.held = self.held
      BY <1>2, <1>6, <2>6 DEF Passed, ListIt, EndsAs
    <3>2. Safe(e.frontier, e.held, A, S, D) /\ Ahead(e, A, S)
      BY <1>2, <2>3, <3>1 DEF Ahead, EndsAs
    <3> QED
      BY <1>2, <1>4, <1>6, <2>1, <3>2 DEF Good, EndsAs
  <2> QED
    BY <2>5, <2>6
<1> QED
  BY <1>3, <1>5, <1>6

\* A pass starts from what the file, or an empty watermark, accounts for.
LEMMA LoadGood ==
    ASSUME NEW A, NEW S, NEW D, NEW wm, OnDisk(wm, A, S, D), NEW terse \in BOOLEAN,
           NEW new, new = [Idle EXCEPT !.pc = "retry", !.wm = wm, !.held = wm.retry,
                         !.todo = wm.retry, !.frontier = wm.cursor, !.terse = terse]
    PROVE  Good(new, A, S, D)
<1>1. /\ wm \in Watermark /\ wm.retry \in SUBSET Traces /\ wm.cursor \in 0..N
      /\ Cardinality(wm.retry) <= RetryLimit
      /\ Safe(wm.cursor, wm.retry, A, S, D)
  BY DEF OnDisk, Watermark
<1>2. Idle \in PassState
  BY IdleGood DEF Good
<1>3. Idle.phase = "retry" /\ Idle.seen = {}
  BY DEF Idle
<1>4. /\ new \in PassState /\ new.pc = "retry" /\ new.phase = Idle.phase
      /\ new.wm = wm /\ new.held = wm.retry /\ new.frontier = wm.cursor
      /\ new.seen = Idle.seen
  BY <1>1, <1>2 DEF PassState
<1> QED
  BY <1>1, <1>3, <1>4 DEF Good, Phased, Walking

LEMMA ForgottenOnDisk ==
    ASSUME NEW A, NEW S \in SUBSET Traces, NEW D
    PROVE  OnDisk(Forgotten, A, S, D)
<1>1. Forgotten \in Watermark /\ Forgotten.cursor = 0 /\ Forgotten.retry = {}
  BY TraceAssumption DEF Forgotten, Watermark
<1>2. Cardinality({}) <= RetryLimit
  BY FS_EmptySet, TraceAssumption
<1>3. Safe(0, {}, A, S, D)
  BY TraceAssumption DEF Safe, Traces
<1> QED
  BY <1>1, <1>2, <1>3 DEF OnDisk

LEMMA CollectGood ==
    ASSUME NEW A, NEW S \in SUBSET Traces, NEW D, NEW self, Good(self, A, S, D),
           self.pc = "retry", NEW new,
           new = [self EXCEPT !.pc = "page", !.upper = N, !.window = PageSize]
    PROVE  Good(new, A, S, D)
<1>1. self \in PassState /\ self.phase = "retry" /\ self.seen = {}
  BY DEF Good, Phased
<1>2. /\ new \in PassState /\ new.pc = "page" /\ new.upper = N
      /\ new.window = PageSize
      /\ new.phase = self.phase /\ new.wm = self.wm /\ new.held = self.held
      /\ new.frontier = self.frontier /\ new.seen = self.seen
  <2>1. N \in 0..N /\ PageSize \in Nat
    BY TraceAssumption
  <2> QED
    BY <1>1, <2>1 DEF PassState
<1>3. \A u \in S : ~(At[u] > N)
  BY TraceAssumption
<1>4. Paged(new, A, S)
  BY <1>1, <1>2, <1>3, TraceAssumption DEF Paged
<1> QED
  BY <1>1, <1>2, <1>4 DEF Good, Phased, Walking

\* The restamp sweep and the save leave the cursor and the list alone.
LEMMA CommitGood ==
    ASSUME NEW A, NEW S, NEW D, NEW self, Good(self, A, S, D), self.phase = "walk",
           NEW new \in PassState, new.pc \in {"sweep", "raise", "save"},
           new.phase = "walk", new.held = self.held, new.frontier = self.frontier,
           new.pc = "raise" => new.trace \in Traces
    PROVE  Good(new, A, S, D)
BY DEF Good, Phased, Walking

\* A pass that is told to stop has nothing more to walk.
LEMMA StopGood ==
    ASSUME NEW A, NEW S, NEW D, NEW self, Good(self, A, S, D), NEW new,
           new = [self EXCEPT !.pc = "walk", !.phase = "walk", !.todo = {}, !.stopped = TRUE]
    PROVE  Good(new, A, S, D)
<1>1. self \in PassState
  BY DEF Good
<1>2. /\ new \in PassState /\ new.pc = "walk" /\ new.phase = "walk" /\ new.todo = {}
      /\ new.held = self.held /\ new.frontier = self.frontier
  BY <1>1 DEF PassState
<1> QED
  BY <1>2 DEF Good, Phased, Walking, Ahead

\* The interval ends: nothing but the mark of the last sweep changes.
LEMMA LapseGood ==
    ASSUME NEW A, NEW S, NEW D, NEW self, Good(self, A, S, D), NEW new,
           new = [self EXCEPT !.wm.swept = FALSE]
    PROVE  Good(new, A, S, D)
<1>1. self \in PassState /\ self.wm \in Watermark
  BY DEF Good, PassState
<1>2. [self.wm EXCEPT !.swept = FALSE] \in Watermark
  BY <1>1 DEF Watermark
<1> PICK wm : wm = [self.wm EXCEPT !.swept = FALSE]
  OBVIOUS
<1>3. wm \in Watermark /\ wm.cursor = self.wm.cursor
  BY <1>1, <1>2 DEF Watermark
<1>4. new = [self EXCEPT !.wm = wm]
  OBVIOUS
<1>5. /\ new \in PassState /\ new.wm = wm /\ new.pc = self.pc
      /\ new.phase = self.phase /\ new.held = self.held
      /\ new.frontier = self.frontier /\ new.todo = self.todo
      /\ new.trace = self.trace /\ new.seen = self.seen /\ new.upper = self.upper
      /\ new.window = self.window /\ new.contiguous = self.contiguous
  BY <1>1, <1>3, <1>4 DEF PassState
<1> QED
  BY <1>3, <1>5 DEF Good, Phased, InHand, Paged, Walking, Ahead

LEMMA TakeGood ==
    ASSUME NEW A, NEW S \in SUBSET Traces, NEW D, NEW self, Good(self, A, S, D),
           self.pc \in {"retry", "walk"}, self.todo # {},
           NEW verdict \in Verdicts, NEW label \in Labels, NEW new,
           new = [self EXCEPT !.pc = "put", !.trace = Oldest(self.todo),
                              !.verdict = verdict, !.label = label]
    PROVE  Good(new, A, S, D)
<1>1. self \in PassState /\ self.todo \subseteq Traces
  BY DEF Good, PassState
<1>2. Oldest(self.todo) \in self.todo /\ \A u \in self.todo : Oldest(self.todo) <= u
  BY <1>1, OldestIsLeast
<1> PICK t : t = Oldest(self.todo)
  OBVIOUS
<1>3. t \in 0..N
  BY <1>1, <1>2, TraceAssumption DEF Traces
<1>4. /\ new \in PassState /\ new.pc = "put" /\ new.trace = t
      /\ new.phase = self.phase /\ new.wm = self.wm /\ new.held = self.held
      /\ new.frontier = self.frontier /\ new.todo = self.todo /\ new.seen = self.seen
      /\ new.contiguous = self.contiguous
  BY <1>1, <1>3 DEF PassState
<1>5. Walking(new) => Walking(self)
  BY <1>4 DEF Good, Phased, Walking
<1> QED
  BY <1>2, <1>4, <1>5 DEF Good, Phased, InHand, Ahead

\* One page more: what is not seen yet is older than this page's oldest row,
\* or newer than every row seen.
LEMMA PageGood ==
    ASSUME NEW A \in SUBSET Traces, NEW S \in SUBSET A, NEW D, NEW self,
           Good(self, A, S, D), self.pc = "page",
           NEW rows, rows = {t \in A : At[t] <= self.upper /\ Since(self, t)},
           NEW page \in SUBSET rows,
           Cardinality(page) < self.window => page = rows,
           \A t \in page, u \in rows \ page : At[t] >= At[u],
           NEW new,
           new = IF Cardinality(page) < self.window
                 THEN [self EXCEPT !.pc = "walk", !.phase = "walk", !.seen = {},
                                   !.todo = Slice(self.seen \cup page, self.wm.cursor),
                                   !.upper = 0, !.window = 0]
                 ELSE IF Stalled(self, page)
                 THEN [self EXCEPT !.window = 2 * @]
                 ELSE [self EXCEPT !.seen = self.seen \cup page,
                                   !.upper = At[Oldest(page)]]
    PROVE  Good(new, A, S, D)
<1>1. /\ self \in PassState /\ self.phase = "retry" /\ self.frontier = self.wm.cursor
      /\ Paged(self, A, S)
  BY DEF Good, Phased
<1>2. /\ self.wm.cursor \in 0..N /\ self.upper \in 0..N /\ self.window \in Nat
      /\ self.seen \subseteq Traces
  BY <1>1 DEF PassState, Watermark
<1>3. \A t \in Traces : t \in Nat /\ t <= N /\ At[t] \in Nat /\ At[t] <= N
  BY TraceAssumption DEF Traces
\* A row beyond the cursor that the query leaves out is too new for it.
<1>4. ASSUME NEW u \in S, u > self.wm.cursor, u \notin rows
      PROVE  At[u] > self.upper
  <2>1. u \in Traces /\ self.wm.cursor \in Traces \cup {0}
    BY <1>2, TraceAssumption DEF Traces
  <2>2. Since(self, u)
    <3>1. CASE self.wm.cursor = 0
      BY <3>1 DEF Since
    <3>2. CASE self.wm.cursor \in Traces
      BY <3>2, <2>1, <1>4, <1>3, TraceAssumption DEF Since
    <3> QED
      BY <2>1, <3>1, <3>2
  <2> QED
    BY <1>4, <2>1, <2>2, <1>2, <1>3
\* What is too new for the query is newer than all that was read.
<1>5. ASSUME NEW u \in S, At[u] > self.upper, NEW v \in page
      PROVE  u > v
  <2>1. v \in Traces /\ u \in Traces /\ At[v] <= self.upper
    OBVIOUS
  <2>2. ~(At[u] <= At[v])
    BY <2>1, <1>5, <1>2, <1>3
  <2>3. ~(u <= v)
    BY <2>1, <2>2, TraceAssumption
  <2> QED
    BY <2>1, <2>3, <1>3
<1>6. CASE Cardinality(page) < self.window
  <2> DEFINE all == self.seen \cup page
             slice == Slice(all, self.wm.cursor)
  <2>1. all \subseteq A /\ all \subseteq Traces
    BY <1>1 DEF Paged
  <2>2. /\ slice \subseteq all /\ \A v \in slice : v > self.wm.cursor
        /\ \A u \in all : u > self.wm.cursor =>
             u \in slice \/ \A v \in slice : u > v
    BY <2>1, <1>2, SliceIsOldest
  <2>3. ASSUME NEW u \in S, u > self.wm.cursor, u \notin all
        PROVE  \A v \in all : u > v
    <3>1. u \notin rows
      BY <1>6, <2>3
    <3>2. At[u] > self.upper
      BY <2>3, <3>1, <1>4
    <3>3. \A v \in self.seen : u > v
      BY <2>3, <3>2, <1>1 DEF Paged
    <3> QED
      BY <3>2, <3>3, <1>5
  <2> HIDE DEF all, slice
  <2>4. \A u \in S : u > self.wm.cursor => u \in slice \/ \A v \in slice : u > v
    BY <2>2, <2>3
  <2>5. slice \in SUBSET Traces /\ 0 \in 0..N /\ 0 \in Nat
    BY <2>1, <2>2, TraceAssumption
  <2>6. new = [self EXCEPT !.pc = "walk", !.phase = "walk", !.seen = {},
                           !.todo = slice, !.upper = 0, !.window = 0]
    BY <1>6 DEF slice, all
  <2>7. /\ new \in PassState /\ new.pc = "walk" /\ new.phase = "walk" /\ new.todo = slice
        /\ new.held = self.held /\ new.frontier = self.frontier
    <3>1. self \in PassState
      BY <1>1
    <3> DEFINE there == [self EXCEPT !.pc = "walk", !.phase = "walk", !.todo = slice]
    <3>2. /\ there \in PassState /\ there.pc = "walk" /\ there.phase = "walk"
          /\ there.todo = slice /\ there.held = self.held
          /\ there.frontier = self.frontier
      BY <3>1, <2>5 DEF PassState
    <3>3. new = [there EXCEPT !.seen = {}, !.upper = 0, !.window = 0]
      BY <3>1, <2>6 DEF PassState
    <3> HIDE DEF there
    <3> QED
      BY <3>2, <3>3, <2>5 DEF PassState
  <2>8. Ahead(new, A, S)
    BY <1>1, <2>1, <2>2, <2>4, <2>7 DEF Ahead
  <2> QED
    BY <2>7, <2>8 DEF Good, Phased
<1>7. CASE ~(Cardinality(page) < self.window) /\ Stalled(self, page)
  <2>1. new = [self EXCEPT !.window = 2 * self.window]
    BY <1>7
  <2>2. 2 * self.window \in Nat /\ 2 * self.window > 0
    BY <1>1, <1>2 DEF Paged
  <2>3. /\ new \in PassState /\ new.pc = self.pc /\ new.phase = self.phase
        /\ new.wm = self.wm /\ new.held = self.held /\ new.frontier = self.frontier
        /\ new.seen = self.seen /\ new.upper = self.upper /\ new.window = 2 * self.window
    BY <1>1, <2>1, <2>2 DEF PassState
  <2> QED
    BY <1>1, <2>2, <2>3 DEF Good, Phased, Paged, Walking
<1>8. CASE ~(Cardinality(page) < self.window) /\ ~Stalled(self, page)
  <2> DEFINE least == At[Oldest(page)]
             all == self.seen \cup page
  <2>1. page # {} /\ page \subseteq Traces
    BY <1>1, <1>2, <1>8, FS_EmptySet DEF Paged
  <2>2. Oldest(page) \in page
    BY <2>1, OldestIsLeast
  <2>3. least \in 0..N /\ all \in SUBSET Traces
    BY <2>1, <2>2, <1>2, <1>3
  <2>4. ASSUME NEW u \in S, u > self.wm.cursor, u \notin all, At[u] > least
        PROVE  \A v \in all : u > v
    <3>1. u \notin rows
      <4>1. ~(At[Oldest(page)] >= At[u])
        BY <2>3, <2>4, <1>3
      <4> QED
        BY <4>1, <2>2, <2>4
    <3>2. At[u] > self.upper
      BY <2>4, <3>1, <1>4
    <3>3. \A v \in self.seen : u > v
      BY <2>4, <3>2, <1>1 DEF Paged
    <3> QED
      BY <3>2, <3>3, <1>5
  <2>5. new = [self EXCEPT !.seen = all, !.upper = least]
    BY <1>8
  <2>6. all \subseteq A
    BY <1>1 DEF Paged
  <2> HIDE DEF all, least
  <2>7. /\ new \in PassState /\ new.pc = self.pc /\ new.phase = self.phase
        /\ new.wm = self.wm /\ new.held = self.held /\ new.frontier = self.frontier
        /\ new.seen = all /\ new.upper = least /\ new.window = self.window
    BY <1>1, <2>3, <2>5 DEF PassState
  <2>8. Paged(new, A, S)
    BY <1>1, <2>4, <2>6, <2>7 DEF Paged
  <2> QED
    BY <1>1, <2>7, <2>8 DEF Good, Phased, Walking
<1> QED
  BY <1>6, <1>7, <1>8

-----------------------------------------------------------------------------
(* The invariant.                                                           *)

\* What TypeOK says of all but the passes.
RestOK ==
    /\ env \in SUBSET Events
    /\ store \in SUBSET Traces /\ late \in SUBSET store
    /\ waived \in SUBSET Traces /\ lagging \in SUBSET Traces
    /\ level \in [Docs -> {0, 1}] /\ answers \in SUBSET Docs
    /\ doc \in [Traces -> Rows]
    /\ vec \in [Traces -> Labels \cup {NoVector}]
    /\ spent \in [acts : 0..MaxActs, faults : 0..MaxFaults]

LEMMA InvInit == Init => Inv
<1> SUFFICES ASSUME Init PROVE Inv
  OBVIOUS
<1>1. \A p \in Passes : Good(pass[p], store, Tracked, Finished)
  BY IdleGood DEF Init, Tracked
<1>2. Idle \in PassState
  BY IdleGood DEF Good
<1>3. OnDisk(file, store, Tracked, Finished)
  BY ForgottenOnDisk DEF Init, Tracked
<1>4. RestOK
  <2>1. env \in SUBSET Events
    BY TraceAssumption DEF Init
  <2>2. [acts |-> 0, faults |-> 0] \in [acts : 0..MaxActs, faults : 0..MaxFaults]
    BY TraceAssumption
  <2>3. Absent \in Rows
    BY DEF Absent, Rows, Labels
  <2> QED
    BY <2>1, <2>2, <2>3 DEF Init, RestOK
<1>5. file \in Watermark /\ pass \in [Passes -> PassState]
  BY <1>2, <1>3 DEF Init, OnDisk
<1> QED
  BY <1>1, <1>3, <1>4, <1>5 DEF Inv, TypeOK, RestOK

\* A step of one pass, as far as the others and the file are concerned.
LEMMA Framed ==
    ASSUME Inv, NEW p \in Passes, NEW new, pass' = [pass EXCEPT ![p] = new],
           store' = store, late' = late, Finished \subseteq Finished',
           Good(new, store, Tracked, Finished'), RestOK',
           file' = file \/ OnDisk(file', store, Tracked, Finished')
    PROVE  Inv'
<1>1. Tracked' = Tracked
  BY DEF Tracked
<1>2. /\ TypeOK /\ OnDisk(file, store, Tracked, Finished)
      /\ \A q \in Passes : Good(pass[q], store, Tracked, Finished)
  BY DEF Inv
<1>3. OnDisk(file, store, Tracked, Finished')
  BY <1>2 DEF OnDisk, Safe
<1>4. OnDisk(file', store', Tracked', Finished')
  <2>1. OnDisk(file', store, Tracked, Finished')
    BY <1>3
  <2> QED
    BY <1>1, <2>1
<1>5. ASSUME NEW q \in Passes
      PROVE  Good(pass'[q], store, Tracked, Finished')
  <2>1. CASE q = p
    BY <2>1, <1>2 DEF TypeOK
  <2>2. CASE q # p
    <3>1. pass'[q] = pass[q]
      BY <2>2, <1>2 DEF TypeOK
    <3>2. Good(pass[q], store, Tracked, Finished')
      BY <1>2, GoodMonotone
    <3> QED
      BY <3>1, <3>2
  <2> QED
    BY <2>1, <2>2
<1>6. new \in PassState /\ file' \in Watermark
  BY <1>4 DEF Good, OnDisk
<1>7. pass' \in [Passes -> PassState]
  BY <1>2, <1>6 DEF TypeOK
<1>8. TypeOK'
  BY <1>6, <1>7 DEF TypeOK, RestOK
<1>9. \A q \in Passes : Good(pass'[q], store', Tracked', Finished')
  BY <1>1, <1>5
<1> QED
  BY <1>4, <1>8, <1>9 DEF Inv

LEMMA Spent ==
    ASSUME RestOK, spent' = spent \/ (spent.faults < MaxFaults /\ Spend("faults"))
    PROVE  spent' \in [acts : 0..MaxActs, faults : 0..MaxFaults]
<1>1. CASE spent' = spent
  BY <1>1 DEF RestOK
<1>2. CASE spent.faults < MaxFaults /\ Spend("faults")
  <2>1. spent.faults + 1 \in 0..MaxFaults
    BY <1>2, TraceAssumption DEF RestOK
  <2>2. spent' = [spent EXCEPT !.faults = spent.faults + 1]
    BY <1>2 DEF Spend, RestOK
  <2> QED
    BY <2>1, <2>2 DEF RestOK
<1> QED
  BY <1>1, <1>2

\* The rows and vectors of the summaries as PutDoc, Embed and Redact leave them:
\* what was done stays done.
LEMMA PutDone ==
    ASSUME RestOK, NEW t \in Traces, NEW l \in Labels, doc[t].state # "tomb",
           PutDoc(t, l), waived \subseteq waived'
    PROVE  /\ doc' \in [Traces -> Rows]
           /\ vec' \in [Traces -> Labels \cup {NoVector}]
           /\ lagging' \in SUBSET Traces
           /\ spent' \in [acts : 0..MaxActs, faults : 0..MaxFaults]
           /\ Finished \subseteq Finished'
<1>1. Summary(l) \in Rows
  BY DEF Summary, Rows
<1>2. doc' = [doc EXCEPT ![t] = Summary(l)] /\ doc' \in [Traces -> Rows]
  BY <1>1 DEF PutDoc, RestOK
<1>3. \/ vec' = [vec EXCEPT ![t] = IF @ = NoVector THEN NoVector ELSE l]
      \/ vec' = vec
  BY DEF PutDoc
<1>4. vec' \in [Traces -> Labels \cup {NoVector}]
  BY <1>3 DEF RestOK
<1>7. lagging' \in SUBSET Traces
  BY DEF PutDoc, RestOK
<1>8. spent' \in [acts : 0..MaxActs, faults : 0..MaxFaults]
  BY Spent DEF PutDoc
<1>5. l # NoVector
  BY DEF Labels, NoVector
<1>6. ASSUME NEW u \in Traces, Done(u)
      PROVE  Done(u)'
  <2>1. Embedded(u) => Embedded(u)'
    BY <1>3, <1>5 DEF RestOK, Embedded
  <2>2. doc[u].state = "tomb" => doc'[u].state = "tomb"
    BY <1>2 DEF RestOK
  <2> QED
    BY <2>1, <2>2, <1>6 DEF Done
<1> QED
  BY <1>2, <1>4, <1>6, <1>7, <1>8 DEF Finished

LEMMA JudgedTypes ==
    ASSUME NEW t
    PROVE  Inherited(t) \in Labels /\ Verdict(t) \in Verdicts
BY DEF Inherited, Labels, Verdict, Verdicts

\* What every step finds.
Here(p) ==
    /\ Good(pass[p], store, Tracked, Finished)
    /\ pass[p] \in PassState /\ pass \in [Passes -> PassState]
    /\ RestOK
    /\ OnDisk(file, store, Tracked, Finished)
    /\ Tracked \in SUBSET store /\ Tracked \in SUBSET Traces

LEMMA InvHere == ASSUME Inv, NEW p \in Passes PROVE Here(p)
BY DEF Inv, Here, TypeOK, RestOK, Good, Tracked

\* The documents and vectors as they were: nothing is undone.
LEMMA StillDone ==
    ASSUME doc' = doc, vec' = vec, waived' = waived
    PROVE  Finished' = Finished
BY DEF Finished, Done, Embedded

LEMMA StepLoad ==
    ASSUME Inv, NEW p \in Passes, NEW wm, Load(p, wm), file' = file,
           OnDisk(wm, store, Tracked, Finished),
           spent' = spent \/ (spent.faults < MaxFaults /\ Spend("faults"))
    PROVE  Inv'
<1>1. Here(p)
  BY InvHere
<1>2. PICK terse \in {FALSE, "terse" \in env} :
        pass' = [pass EXCEPT ![p] =
            [Idle EXCEPT !.pc = "retry", !.wm = wm, !.held = wm.retry,
                         !.todo = wm.retry, !.frontier = wm.cursor, !.terse = terse]]
  BY DEF Load
<1>7. terse \in BOOLEAN
  <2>1. ("terse" \in env) \in BOOLEAN
    OBVIOUS
  <2>2. terse = FALSE \/ terse = ("terse" \in env)
    BY <1>2
  <2> QED
    BY <2>1, <2>2
<1>3. /\ env' = env /\ store' = store /\ late' = late /\ level' = level
      /\ answers' = answers /\ doc' = doc /\ vec' = vec /\ waived' = waived /\ lagging' = lagging
  BY DEF Load, world
<1>4. Finished' = Finished
  BY <1>3, StillDone
<1>5. RestOK'
  BY <1>1, <1>3, Spent DEF RestOK, Here
<1> PICK new : new = [Idle EXCEPT !.pc = "retry", !.wm = wm, !.held = wm.retry,
                         !.todo = wm.retry, !.frontier = wm.cursor, !.terse = terse]
  OBVIOUS
<1>6. Good(new, store, Tracked, Finished)
  BY <1>7, LoadGood
<1> QED
  BY <1>2, <1>3, <1>4, <1>5, <1>6, Framed

\* A step of a pass that writes neither a document nor a vector nor the file.
Silent ==
    /\ UNCHANGED <<world, doc, vec, file, waived, lagging>>
    /\ spent' = spent \/ (spent.faults < MaxFaults /\ Spend("faults"))

LEMMA StepSilent ==
    ASSUME Inv, NEW p \in Passes, NEW new, pass' = [pass EXCEPT ![p] = new],
           Silent, Good(new, store, Tracked, Finished)
    PROVE  Inv'
<1>1. Here(p)
  BY InvHere
<1>2. /\ env' = env /\ store' = store /\ late' = late /\ level' = level
      /\ answers' = answers /\ doc' = doc /\ vec' = vec /\ waived' = waived /\ lagging' = lagging
      /\ file' = file
  BY DEF Silent, world
<1>3. Finished' = Finished
  BY <1>2, StillDone
<1>4. RestOK'
  BY <1>1, <1>2, Spent DEF RestOK, Here, Silent
<1> QED
  BY <1>2, <1>3, <1>4, Framed

LEMMA StepPaging ==
    ASSUME Inv, NEW p \in Passes, Collect(p) \/ Page(p)
    PROVE  Inv'
<1>1. Here(p)
  BY InvHere
<1>2. CASE Collect(p)
  <2> PICK new : new = [pass[p] EXCEPT !.pc = "page", !.upper = N, !.window = PageSize]
    OBVIOUS
  <2>1. pass[p].pc = "retry" /\ Silent
    BY <1>2 DEF Collect, Silent
  <2>2. pass' = [pass EXCEPT ![p] = new]
    BY <1>2, <1>1 DEF Collect, Here
  <2>3. Good(new, store, Tracked, Finished)
    BY <1>1, <2>1, CollectGood DEF Here
  <2> QED
    BY <2>1, <2>2, <2>3, StepSilent
<1>3. CASE Page(p)
  <2>1. PICK page \in Pages(pass[p]) :
          pass' = [pass EXCEPT ![p] =
              IF page # {} /\ Cardinality(pass[p].seen \cup page) > Ceiling
              THEN Idle
              ELSE IF Cardinality(page) < pass[p].window
              THEN [pass[p] EXCEPT !.pc = "walk", !.phase = "walk", !.seen = {},
                                   !.todo = Slice(pass[p].seen \cup page, pass[p].wm.cursor),
                                   !.upper = 0, !.window = 0]
              ELSE IF Stalled(pass[p], page)
              THEN [pass[p] EXCEPT !.window = 2 * @]
              ELSE [pass[p] EXCEPT !.seen = pass[p].seen \cup page,
                                   !.upper = At[Oldest(page)]]]
    BY <1>3 DEF Page
  <2>2. pass[p].pc = "page" /\ Silent
    BY <1>3 DEF Page, Silent
  <2> PICK rows : rows = {t \in store : At[t] <= pass[p].upper /\ Since(pass[p], t)}
    OBVIOUS
  <2>3. /\ page \in SUBSET rows
        /\ Cardinality(page) < pass[p].window => page = rows
        /\ \A t \in page, u \in rows \ page : At[t] >= At[u]
    BY DEF Pages, InRange
  <2>4. CASE page # {} /\ Cardinality(pass[p].seen \cup page) > Ceiling
    <3>1. pass' = [pass EXCEPT ![p] = Idle]
      BY <2>1, <2>4
    <3>2. Good(Idle, store, Tracked, Finished)
      BY <1>1, IdleGood DEF Here
    <3> QED
      BY <2>2, <3>1, <3>2, StepSilent
  <2>5. CASE ~(page # {} /\ Cardinality(pass[p].seen \cup page) > Ceiling)
    <3> PICK new : new =
            IF Cardinality(page) < pass[p].window
            THEN [pass[p] EXCEPT !.pc = "walk", !.phase = "walk", !.seen = {},
                                 !.todo = Slice(pass[p].seen \cup page, pass[p].wm.cursor),
                                 !.upper = 0, !.window = 0]
            ELSE IF Stalled(pass[p], page)
            THEN [pass[p] EXCEPT !.window = 2 * @]
            ELSE [pass[p] EXCEPT !.seen = pass[p].seen \cup page,
                                 !.upper = At[Oldest(page)]]
      OBVIOUS
    <3>1. pass' = [pass EXCEPT ![p] = new]
      BY <2>1, <2>5
    <3>2. store \in SUBSET Traces
      BY <1>1 DEF Here, RestOK
    <3>3. Good(new, store, Tracked, Finished)
      BY <1>1, <2>2, <2>3, <3>2, PageGood DEF Here
    <3> QED
      BY <2>2, <3>1, <3>3, StepSilent
  <2> QED
    BY <2>4, <2>5
<1> QED
  BY <1>2, <1>3

LEMMA StepTake ==
    ASSUME Inv, NEW p \in Passes, Take(p)
    PROVE  Inv'
<1>1. Here(p)
  BY InvHere
<1> PICK self : self = pass[p]
  OBVIOUS
<1> PICK t : t = Oldest(self.todo)
  OBVIOUS
<1>2. self.pc \in {"retry", "walk"} /\ self.todo # {} /\ Silent
  BY DEF Take, Silent
<1>3. self.todo \subseteq Traces
  BY <1>1 DEF Here, PassState
<1>4. t \in self.todo /\ t \in Traces /\ \A u \in self.todo : t <= u
  BY <1>2, <1>3, OldestIsLeast
<1>5. Good(self, store, Tracked, Finished) /\ Tracked \in SUBSET Traces
  BY <1>1 DEF Here
<1>6. CASE t \in Invalid \/ Embedded(t)
  <2>1. t \in Finished
    BY <1>4, <1>6 DEF Finished, Done
  <2>2. Good(Ended(self, t, TRUE), store, Tracked, Finished)
    BY <1>2, <1>4, <1>5, <2>1, EndedGood
  <2>3. pass' = [pass EXCEPT ![p] = Ended(self, t, TRUE)]
    BY <1>6 DEF Take
  <2> QED
    BY <1>2, <2>2, <2>3, StepSilent
<1>7. CASE ~(t \in Invalid \/ Embedded(t)) /\ self.terse /\ t \in ErrorsOnly
  <2>1. Good(Ended(self, t, FALSE), store, Tracked, Finished)
    BY <1>2, <1>4, <1>5, EndedGood
  <2>2. pass' = [pass EXCEPT ![p] = Ended(self, t, FALSE)]
    BY <1>7 DEF Take
  <2> QED
    BY <1>2, <2>1, <2>2, StepSilent
<1>8. CASE ~(t \in Invalid \/ Embedded(t)) /\ ~(self.terse /\ t \in ErrorsOnly)
  <2> PICK new : new = [self EXCEPT !.pc = "put", !.trace = Oldest(self.todo),
                              !.verdict = Verdict(t), !.label = Inherited(t)]
    OBVIOUS
  <2>1. pass' = [pass EXCEPT ![p] = new]
    BY <1>8 DEF Take
  <2>2. Good(new, store, Tracked, Finished)
    BY <1>2, <1>5, JudgedTypes, TakeGood
  <2> QED
    BY <1>2, <2>1, <2>2, StepSilent
<1> QED
  BY <1>6, <1>7, <1>8

LEMMA StepFault ==
    ASSUME Inv, NEW p \in Passes, EmbedFails(p) \/ Stop(p) \/ Die(p)
    PROVE  Inv'
<1>1. Here(p)
  BY InvHere
<1> PICK self : self = pass[p]
  OBVIOUS
<1>2. Good(self, store, Tracked, Finished) /\ Tracked \in SUBSET Traces
  BY <1>1 DEF Here
<1>3. CASE EmbedFails(p)
  <2>1. /\ self.pc = "embed" /\ Silent
        /\ pass' = [pass EXCEPT ![p] = Ended(self, self.trace, FALSE)]
    BY <1>3 DEF EmbedFails, Silent
  <2>2. self.trace \in self.todo /\ \A u \in self.todo : self.trace <= u
    BY <1>2, <2>1 DEF Good, InHand
  <2>3. Good(Ended(self, self.trace, FALSE), store, Tracked, Finished)
    BY <1>2, <2>1, <2>2, EndedGood
  <2> QED
    BY <2>1, <2>3, StepSilent
<1>4. CASE Stop(p)
  <2> PICK new : new = [self EXCEPT !.pc = "walk", !.phase = "walk", !.todo = {},
                                    !.stopped = TRUE]
    OBVIOUS
  <2>1. pass' = [pass EXCEPT ![p] = new] /\ Silent
    BY <1>4, <1>1 DEF Stop, Silent, Here
  <2>2. Good(new, store, Tracked, Finished)
    BY <1>2, StopGood
  <2> QED
    BY <2>1, <2>2, StepSilent
<1>5. CASE Die(p)
  <2>1. pass' = [pass EXCEPT ![p] = Idle] /\ Silent
    BY <1>5 DEF Die, Silent
  <2>2. Good(Idle, store, Tracked, Finished)
    BY <1>2, IdleGood
  <2> QED
    BY <2>1, <2>2, StepSilent
<1> QED
  BY <1>3, <1>4, <1>5

\* The fields of a pass that commits.
CommitsAs(new, self, pc) ==
    /\ new \in PassState /\ new.pc = pc /\ new.phase = self.phase
    /\ new.held = self.held /\ new.frontier = self.frontier

LEMMA CommitRecord ==
    ASSUME NEW self \in PassState, NEW pc \in {"sweep", "save"},
           NEW todo \in SUBSET Traces
    PROVE  CommitsAs([self EXCEPT !.pc = pc, !.todo = todo], self, pc)
BY DEF PassState, CommitsAs

Judged(self, todo, marked, pc, trace, label) ==
    [self EXCEPT !.todo = todo, !.marked = marked, !.pc = pc, !.trace = trace,
                 !.label = label]

LEMMA JudgeRecord ==
    \A self \in PassState, todo \in SUBSET Traces, marked \in BOOLEAN,
       pc \in {"sweep", "raise"}, trace \in 0..N, label \in Labels :
          /\ CommitsAs(Judged(self, todo, marked, pc, trace, label), self, pc)
          /\ Judged(self, todo, marked, pc, trace, label).trace = trace
<1> SUFFICES ASSUME NEW self \in PassState, NEW todo \in SUBSET Traces,
                    NEW marked \in BOOLEAN, NEW pc \in {"sweep", "raise"},
                    NEW trace \in 0..N, NEW label \in Labels
             PROVE  /\ CommitsAs(Judged(self, todo, marked, pc, trace, label), self, pc)
                    /\ Judged(self, todo, marked, pc, trace, label).trace = trace
  OBVIOUS
<1> PICK new : new = Judged(self, todo, marked, pc, trace, label)
  OBVIOUS
<1> DEFINE there == [self EXCEPT !.todo = todo, !.marked = marked]
<1>1. CommitsAs(there, self, self.pc)
  BY DEF PassState, CommitsAs
<1>2. new = [there EXCEPT !.pc = pc, !.trace = trace, !.label = label]
  BY DEF PassState, Judged
<1> HIDE DEF there
<1>3. CommitsAs(new, self, pc) /\ new.trace = trace
  BY <1>1, <1>2 DEF PassState, CommitsAs
<1> QED
  BY <1>3

LEMMA SweptRecord ==
    ASSUME NEW self \in PassState, NEW wm \in Watermark
    PROVE  CommitsAs([self EXCEPT !.pc = "save", !.wm = wm], self, "save")
BY DEF PassState, CommitsAs

LEMMA StepCommit ==
    ASSUME Inv, NEW p \in Passes, Commit(p) \/ Judge(p) \/ Swept(p)
    PROVE  Inv'
<1>1. Here(p)
  BY InvHere
<1> PICK self : self = pass[p]
  OBVIOUS
<1>2. /\ Good(self, store, Tracked, Finished) /\ self \in PassState
      /\ self.wm \in Watermark /\ pass \in [Passes -> PassState]
  BY <1>1 DEF Here, PassState
<1>3. self.pc \in {"walk", "sweep"} => self.phase = "walk"
  BY <1>2 DEF Good, Phased
<1>4. CASE Commit(p)
  <2> DEFINE due == ~self.stopped /\ ~self.wm.swept
  <2> PICK pc : pc = IF due THEN "sweep" ELSE "save"
    OBVIOUS
  <2> PICK todo : todo = IF due THEN {t \in Traces : Live(t)} ELSE {}
    OBVIOUS
  <2> PICK new : new = [self EXCEPT !.pc = pc, !.todo = todo]
    OBVIOUS
  <2>1. pass' = [pass EXCEPT ![p] = new] /\ self.pc = "walk" /\ Silent
    BY <1>2, <1>4 DEF Commit, Silent
  <2>2. pc \in {"sweep", "save"} /\ todo \in SUBSET Traces
    OBVIOUS
  <2>3. CommitsAs(new, self, pc)
    BY <1>2, <2>2, CommitRecord
  <2>4. Good(new, store, Tracked, Finished)
    BY <1>2, <1>3, <2>1, <2>2, <2>3, CommitGood DEF CommitsAs
  <2> QED
    BY <2>1, <2>4, StepSilent
<1>5. CASE Judge(p)
  <2>1. self.pc = "sweep" /\ Silent
    BY <1>5 DEF Judge, Silent
  <2>2. PICK t \in self.todo :
          LET judged == Live(t) /\ doc[t].label < 2 IN
          pass' = [pass EXCEPT ![p] =
            [self EXCEPT !.todo = @ \ {t},
                         !.marked = @ \/ judged,
                         !.pc = IF judged /\ Raises(t) THEN "raise" ELSE "sweep",
                         !.trace = IF judged /\ Raises(t) THEN t ELSE 0,
                         !.label = IF judged /\ Raises(t) THEN Inherited(t) ELSE 0]]
    BY <1>5 DEF Judge
  <2> DEFINE judged == Live(t) /\ doc[t].label < 2
  <2>3. t \in Traces /\ self.todo \ {t} \in SUBSET Traces
    BY <1>2 DEF PassState
  <2>4. t \in 0..N /\ 0 \in 0..N /\ 0 \in Labels /\ Inherited(t) \in Labels
    BY <2>3, JudgedTypes, TraceAssumption DEF Traces, Labels
  <2>5. PICK marked \in BOOLEAN : marked = (self.marked \/ judged)
    OBVIOUS
  <2>6. PICK pc \in {"sweep", "raise"} :
          pc = IF judged /\ Raises(t) THEN "raise" ELSE "sweep"
    OBVIOUS
  <2>7. PICK trace \in 0..N : trace = IF judged /\ Raises(t) THEN t ELSE 0
    BY <2>4
  <2>8. PICK label \in Labels : label = IF judged /\ Raises(t) THEN Inherited(t) ELSE 0
    BY <2>4
  <2>9. PICK new : new = Judged(self, self.todo \ {t}, marked, pc, trace, label)
    OBVIOUS
  <2>10. pass' = [pass EXCEPT ![p] = new]
    BY <2>2, <2>5, <2>6, <2>7, <2>8, <2>9, <1>2 DEF Judged
  <2>11. pc = "raise" => trace \in Traces
    BY <2>3, <2>6, <2>7
  <2>12. CommitsAs(new, self, pc) /\ new.trace = trace
    <3>1. /\ self \in PassState /\ self.todo \ {t} \in SUBSET Traces
          /\ pc \in {"sweep", "raise"} /\ trace \in 0..N /\ label \in Labels
      BY <1>2, <2>3, <2>6, <2>7, <2>8
    <3>2. marked \in BOOLEAN
      BY <2>5
    <3>3. CASE pc = "sweep"
      BY <3>1, <3>2, <3>3, <2>9, JudgeRecord
    <3>4. CASE pc = "raise"
      BY <3>1, <3>2, <3>4, <2>9, JudgeRecord
    <3> QED
      BY <3>1, <3>3, <3>4
  <2>13. Good(new, store, Tracked, Finished)
    BY <1>2, <1>3, <2>1, <2>11, <2>12, CommitGood DEF CommitsAs
  <2> QED
    BY <2>1, <2>10, <2>13, StepSilent
<1>6. CASE Swept(p)
  <2>6. PICK swept \in BOOLEAN : swept = (self.wm.swept \/ self.marked)
    OBVIOUS
  <2> PICK wm : wm = [self.wm EXCEPT !.swept = swept]
    OBVIOUS
  <2> PICK new : new = [self EXCEPT !.pc = "save", !.wm = wm]
    OBVIOUS
  <2>1. self.pc = "sweep" /\ Silent /\ pass' = [pass EXCEPT ![p] = new]
    BY <1>2, <1>6, <2>6 DEF Swept, Silent
  <2>2. swept \in BOOLEAN
    BY <2>6
  <2>3. wm \in Watermark
    BY <1>2, <2>2 DEF Watermark
  <2>4. CommitsAs(new, self, "save")
    BY <1>2, <2>3, SweptRecord
  <2>5. Good(new, store, Tracked, Finished)
    BY <1>2, <1>3, <2>1, <2>4, CommitGood DEF CommitsAs
  <2> QED
    BY <2>1, <2>5, StepSilent
<1> QED
  BY <1>4, <1>5, <1>6

\* put_document on a trace in hand, or on a summary to raise.
LEMMA StepPut ==
    ASSUME Inv, NEW p \in Passes, Put(p)
    PROVE  Inv'
<1>1. Here(p)
  BY InvHere
<1> PICK self : self = pass[p]
  OBVIOUS
<1> PICK t : t = self.trace
  OBVIOUS
<1> DEFINE refused == doc[t].state = "tomb"
           ended == refused \/ self.verdict = "withheld"
<1>2. /\ Good(self, store, Tracked, Finished) /\ Tracked \in SUBSET Traces
      /\ self \in PassState /\ RestOK
  BY <1>1 DEF Here
<1>3. /\ self.pc = "put"
      /\ IF refused THEN UNCHANGED <<doc, vec, lagging, spent>>
         ELSE PutDoc(t, self.label)
      /\ waived' = IF ~refused /\ self.verdict = "withheld" THEN waived \cup {t} ELSE waived
      /\ pass' = [pass EXCEPT ![p] =
            IF ~refused /\ self.verdict = "permitted" THEN [self EXCEPT !.pc = "embed"]
            ELSE Ended(self, t, ended)]
      /\ env' = env /\ store' = store /\ late' = late /\ level' = level
      /\ answers' = answers /\ file' = file
  BY DEF Put, world
<1>4. t \in self.todo /\ t \in Traces /\ \A u \in self.todo : t <= u
  BY <1>2, <1>3 DEF Good, InHand, PassState
<1>5. self.label \in Labels /\ self.verdict \in Verdicts
  BY <1>2 DEF PassState
<1>6. /\ doc' \in [Traces -> Rows] /\ vec' \in [Traces -> Labels \cup {NoVector}]
      /\ lagging' \in SUBSET Traces
      /\ spent' \in [acts : 0..MaxActs, faults : 0..MaxFaults]
      /\ Finished \subseteq Finished'
  <2>1. waived \subseteq waived'
    BY <1>3
  <2>2. CASE refused
    BY <1>2, <1>3, <2>1, <2>2 DEF RestOK, Finished, Done, Embedded
  <2>3. CASE ~refused
    BY <1>2, <1>3, <1>4, <1>5, <2>1, <2>3, PutDone
  <2> QED
    BY <2>2, <2>3
<1>7. RestOK'
  BY <1>2, <1>3, <1>4, <1>6 DEF RestOK
<1>8. Good(self, store, Tracked, Finished')
  BY <1>2, <1>6, GoodMonotone
<1>9. CASE ~refused /\ self.verdict = "permitted"
  <2> PICK new : new = [self EXCEPT !.pc = "embed"]
    OBVIOUS
  <2>1. /\ new \in PassState /\ new.pc = "embed" /\ new.phase = self.phase
        /\ new.held = self.held /\ new.frontier = self.frontier /\ new.wm = self.wm
        /\ new.todo = self.todo /\ new.trace = self.trace /\ new.seen = self.seen
        /\ new.contiguous = self.contiguous
    BY <1>2 DEF PassState
  <2>2. Good(new, store, Tracked, Finished')
    BY <1>3, <1>8, <2>1 DEF Good, Phased, InHand, Walking, Ahead
  <2>3. pass' = [pass EXCEPT ![p] = new]
    BY <1>3, <1>9
  <2> QED
    BY <1>3, <1>6, <1>7, <2>2, <2>3, Framed
<1>10. CASE ~(~refused /\ self.verdict = "permitted")
  <2>1. pass' = [pass EXCEPT ![p] = Ended(self, t, ended)]
    BY <1>3, <1>10
  <2>2. ended => t \in Finished'
    <3>1. CASE refused
      <4>1. doc'[t].state = "tomb"
        BY <1>3, <3>1
      <4> QED
        BY <4>1, <1>4 DEF Finished, Done
    <3>2. CASE ~refused /\ self.verdict = "withheld"
      <4>1. t \in waived'
        BY <1>3, <3>2
      <4> QED
        BY <4>1, <1>4 DEF Finished, Done
    <3> QED
      BY <3>1, <3>2
  <2>3. PICK ok \in BOOLEAN : ok = ended
    OBVIOUS
  <2> HIDE DEF ended, refused
  <2>4. Good(Ended(self, t, ok), store, Tracked, Finished')
    BY <1>2, <1>3, <1>4, <1>8, <2>2, <2>3, EndedGood
  <2> QED
    BY <1>3, <1>6, <1>7, <2>1, <2>3, <2>4, Framed
<1> QED
  BY <1>9, <1>10

LEMMA StepEmbed ==
    ASSUME Inv, NEW p \in Passes, Embed(p)
    PROVE  Inv'
<1>1. Here(p)
  BY InvHere
<1> PICK self : self = pass[p]
  OBVIOUS
<1> PICK t : t = self.trace
  OBVIOUS
<1>2. /\ Good(self, store, Tracked, Finished) /\ Tracked \in SUBSET Traces
      /\ self \in PassState /\ RestOK
  BY <1>1 DEF Here
<1>3. /\ self.pc = "embed" /\ vec' = [vec EXCEPT ![t] = self.label]
      /\ pass' = [pass EXCEPT ![p] = Ended(self, t, TRUE)]
      /\ env' = env /\ store' = store /\ late' = late /\ level' = level
      /\ answers' = answers /\ doc' = doc /\ file' = file /\ spent' = spent
      /\ waived' = waived /\ lagging' = lagging \ {t}
  BY DEF Embed, world
<1>4. t \in self.todo /\ t \in Traces /\ \A u \in self.todo : t <= u
  BY <1>2, <1>3 DEF Good, InHand, PassState
<1>5. self.label \in Labels /\ self.label # NoVector
  BY <1>2 DEF PassState, Labels, NoVector
<1>6. vec' \in [Traces -> Labels \cup {NoVector}]
  BY <1>2, <1>3, <1>5 DEF RestOK
<1>7. Finished \subseteq Finished' /\ t \in Finished'
  <2>1. \A u \in Traces : Embedded(u) => Embedded(u)'
    BY <1>2, <1>3, <1>5 DEF RestOK, Embedded
  <2>2. Embedded(t)'
    BY <1>2, <1>3, <1>4, <1>5 DEF RestOK, Embedded
  <2> QED
    BY <1>3, <1>4, <2>1, <2>2 DEF Finished, Done
<1>8. RestOK'
  BY <1>2, <1>3, <1>6 DEF RestOK
<1>9. Good(self, store, Tracked, Finished')
  BY <1>2, <1>7, GoodMonotone
<1>10. Good(Ended(self, t, TRUE), store, Tracked, Finished')
  BY <1>2, <1>3, <1>4, <1>7, <1>9, EndedGood
<1> QED
  BY <1>3, <1>7, <1>8, <1>10, Framed

LEMMA StepRaise ==
    ASSUME Inv, NEW p \in Passes, Raise(p)
    PROVE  Inv'
<1>1. Here(p)
  BY InvHere
<1> PICK self : self = pass[p]
  OBVIOUS
<1> PICK t : t = self.trace
  OBVIOUS
<1> PICK l : l = Higher(self.label, Inherited(t))
  OBVIOUS
<1>2. /\ Good(self, store, Tracked, Finished) /\ self \in PassState /\ RestOK
      /\ pass \in [Passes -> PassState]
  BY <1>1 DEF Here
<1> PICK new : new = [self EXCEPT !.pc = "sweep", !.trace = 0, !.label = 0]
  OBVIOUS
<1>3. /\ self.pc = "raise"
      /\ IF doc[t].state = "tomb" THEN UNCHANGED <<doc, vec, lagging, spent>> ELSE PutDoc(t, l)
      /\ pass' = [pass EXCEPT ![p] = new]
      /\ env' = env /\ store' = store /\ late' = late /\ level' = level
      /\ answers' = answers /\ file' = file /\ waived' = waived
  BY <1>2 DEF Raise, world
<1>4. t \in Traces /\ self.phase = "walk" /\ l \in Labels
  <2>1. self.label \in Labels /\ Inherited(t) \in Labels
    BY <1>2, JudgedTypes DEF PassState
  <2> QED
    BY <1>2, <1>3, <2>1 DEF Good, Phased, Higher
<1>5. /\ doc' \in [Traces -> Rows] /\ vec' \in [Traces -> Labels \cup {NoVector}]
      /\ lagging' \in SUBSET Traces
      /\ spent' \in [acts : 0..MaxActs, faults : 0..MaxFaults]
      /\ Finished \subseteq Finished'
  <2>1. CASE doc[t].state = "tomb"
    BY <1>2, <1>3, <2>1 DEF RestOK, Finished, Done, Embedded
  <2>2. CASE doc[t].state # "tomb"
    BY <1>2, <1>3, <1>4, <2>2, PutDone
  <2> QED
    BY <2>1, <2>2
<1>6. RestOK'
  BY <1>2, <1>3, <1>5 DEF RestOK
<1>7. /\ new \in PassState /\ new.pc = "sweep" /\ new.phase = self.phase
      /\ new.held = self.held /\ new.frontier = self.frontier
  <2>1. 0 \in 0..N /\ 0 \in Labels
    BY TraceAssumption DEF Labels
  <2> QED
    BY <1>2, <2>1 DEF PassState
<1>8. Good(new, store, Tracked, Finished')
  <2>1. Good(new, store, Tracked, Finished)
    BY <1>2, <1>4, <1>7, CommitGood
  <2> QED
    BY <2>1, <1>5, GoodMonotone
<1> QED
  BY <1>3, <1>5, <1>6, <1>8, Framed

LEMMA StepSave ==
    ASSUME Inv, NEW p \in Passes, Save(p)
    PROVE  Inv'
<1>1. Here(p)
  BY InvHere
<1> PICK self : self = pass[p]
  OBVIOUS
<1>2. /\ Good(self, store, Tracked, Finished) /\ self \in PassState /\ RestOK
      /\ self.wm \in Watermark /\ Tracked \in SUBSET Traces
  BY <1>1 DEF Here, PassState
<1>3. /\ file' = file \/ file' = Kept(self)
      /\ pass' = [pass EXCEPT ![p] = Idle]
      /\ env' = env /\ store' = store /\ late' = late /\ level' = level
      /\ answers' = answers /\ doc' = doc /\ vec' = vec /\ spent' = spent
      /\ waived' = waived /\ lagging' = lagging
  BY DEF Save, world
<1>4. Finished' = Finished
  BY <1>3, StillDone
<1>5. RestOK'
  BY <1>2, <1>3 DEF RestOK
<1>6. OnDisk(Kept(self), store, Tracked, Finished)
  BY <1>2 DEF OnDisk, Good, Kept, Watermark, PassState
<1>7. Good(Idle, store, Tracked, Finished)
  BY <1>2, IdleGood
<1> QED
  BY <1>3, <1>4, <1>5, <1>6, <1>7, Framed

LEMMA StepIngest ==
    ASSUME Inv, NEW t \in Traces, Ingest(t)
    PROVE  Inv'
<1>1. /\ TypeOK /\ OnDisk(file, store, Tracked, Finished)
      /\ \A p \in Passes : Good(pass[p], store, Tracked, Finished)
  BY DEF Inv
<1> DEFINE behind == \E u \in store : u > t
<1>2. /\ t \notin store /\ store' = store \cup {t}
      /\ late' = IF behind THEN late \cup {t} ELSE late
      /\ env' = env /\ level' = level /\ answers' = answers /\ doc' = doc /\ vec' = vec
      /\ file' = file /\ pass' = pass /\ spent' = spent /\ waived' = waived /\ lagging' = lagging
  BY DEF Ingest
<1>3. store \in SUBSET Traces /\ late \in SUBSET store
  BY <1>1 DEF TypeOK
<1>4. /\ Tracked' \subseteq Tracked \cup {t}
      /\ t \in Tracked' => \A u \in store : ~(u > t)
  BY <1>2, <1>3 DEF Tracked
<1>5. Finished' = Finished
  BY <1>2, StillDone
<1>6. PICK T : T = Tracked'
  OBVIOUS
<1>7. \A p \in Passes : Good(pass[p], store \cup {t}, T, Finished)
  BY <1>1, <1>2, <1>3, <1>4, <1>6, GoodIngested
<1>8. OnDisk(file, store \cup {t}, T, Finished)
  BY <1>1, <1>2, <1>3, <1>4, <1>6, SafeIngested DEF OnDisk
<1>9. TypeOK'
  BY <1>1, <1>2, <1>3 DEF TypeOK
<1>10. \A p \in Passes : Good(pass'[p], store', Tracked', Finished')
  BY <1>2, <1>5, <1>6, <1>7
<1>11. OnDisk(file', store', Tracked', Finished')
  BY <1>2, <1>5, <1>6, <1>8
<1> QED
  BY <1>9, <1>10, <1>11 DEF Inv

\* What happens to the documents meanwhile undoes nothing that was done.
LEMMA StepAct ==
    ASSUME Inv, \/ \E d \in Docs : Relabel(d) \/ Flip(d)
                \/ \E t \in Traces : Redact(t)
    PROVE  Inv'
<1>1. /\ TypeOK /\ OnDisk(file, store, Tracked, Finished)
      /\ \A p \in Passes : Good(pass[p], store, Tracked, Finished)
  BY DEF Inv
<1>2. /\ env' = env /\ store' = store /\ late' = late /\ file' = file /\ pass' = pass
      /\ waived' = waived /\ lagging' \subseteq lagging /\ spent.acts < MaxActs /\ Spend("acts")
  BY DEF Relabel, Flip, Redact, world
<1>3. /\ level' \in [Docs -> {0, 1}] /\ answers' \in SUBSET Docs
      /\ doc' \in [Traces -> Rows] /\ vec' \in [Traces -> Labels \cup {NoVector}]
      /\ Finished \subseteq Finished'
  <2>1. ASSUME NEW d \in Docs, Relabel(d) \/ Flip(d)
        PROVE  <1>3!1 /\ <1>3!2 /\ doc' = doc /\ vec' = vec
    <3>1. 1 - level[d] \in {0, 1}
      BY <1>1 DEF TypeOK
    <3> QED
      BY <1>1, <2>1, <3>1 DEF Relabel, Flip, TypeOK
  <2>2. ASSUME NEW t \in Traces, Redact(t)
        PROVE  <1>3
    <3>1. /\ level' = level /\ answers' = answers
          /\ doc' = [doc EXCEPT ![t] = Tombstone] /\ vec' = [vec EXCEPT ![t] = NoVector]
      BY <2>2 DEF Redact, world
    <3>2. Tombstone \in Rows /\ Tombstone.state = "tomb"
      BY DEF Tombstone, Rows, Labels
    <3>3. ASSUME NEW u \in Traces, Done(u)
          PROVE  Done(u)'
      BY <1>1, <1>2, <3>1, <3>2, <3>3 DEF Done, Embedded, TypeOK
    <3> QED
      BY <1>1, <3>1, <3>2, <3>3 DEF TypeOK, Finished
  <2>3. ASSUME doc' = doc, vec' = vec
        PROVE  Finished' = Finished
    BY <1>2, <2>3, StillDone
  <2> QED
    BY <1>1, <2>1, <2>2, <2>3 DEF TypeOK
<1>4. spent' \in [acts : 0..MaxActs, faults : 0..MaxFaults]
  <2>1. spent \in [acts : 0..MaxActs, faults : 0..MaxFaults]
    BY <1>1 DEF TypeOK
  <2>2. spent.acts + 1 \in 0..MaxActs
    BY <1>2, <2>1, TraceAssumption
  <2>3. spent' = [spent EXCEPT !.acts = spent.acts + 1]
    BY <1>2, <2>1 DEF Spend
  <2> QED
    BY <2>1, <2>2, <2>3
<1>5. TypeOK'
  BY <1>1, <1>2, <1>3, <1>4 DEF TypeOK
<1>6. Tracked' = Tracked
  BY <1>2 DEF Tracked
<1>7. \A p \in Passes : Good(pass[p], store, Tracked, Finished')
  BY <1>1, <1>3, GoodMonotone
<1>8. OnDisk(file, store, Tracked, Finished')
  BY <1>1, <1>3 DEF OnDisk, Safe
<1>9. /\ \A p \in Passes : Good(pass'[p], store', Tracked', Finished')
      /\ OnDisk(file', store', Tracked', Finished')
  BY <1>2, <1>6, <1>7, <1>8
<1> QED
  BY <1>5, <1>9 DEF Inv

LEMMA StepLapse ==
    ASSUME Inv, Lapse
    PROVE  Inv'
<1>1. /\ TypeOK /\ OnDisk(file, store, Tracked, Finished)
      /\ \A p \in Passes : Good(pass[p], store, Tracked, Finished)
  BY DEF Inv
<1>2. /\ file' = [file EXCEPT !.swept = FALSE]
      /\ pass' = [p \in Passes |-> [pass[p] EXCEPT !.wm.swept = FALSE]]
      /\ env' = env /\ store' = store /\ late' = late /\ level' = level
      /\ answers' = answers /\ doc' = doc /\ vec' = vec /\ waived' = waived /\ lagging' = lagging
      /\ spent' = spent
  BY DEF Lapse, world
<1>3. Tracked' = Tracked /\ Finished' = Finished
  BY <1>2, StillDone DEF Tracked
<1>4. \A p \in Passes : Good(pass'[p], store, Tracked, Finished)
  BY <1>1, <1>2, LapseGood
<1>5. /\ file' \in Watermark /\ file'.cursor = file.cursor
      /\ file'.retry = file.retry
  BY <1>1, <1>2 DEF OnDisk, Watermark
<1>6. OnDisk(file', store, Tracked, Finished)
  BY <1>1, <1>5 DEF OnDisk
<1>7. pass' \in [Passes -> PassState]
  BY <1>2, <1>4 DEF Good
<1>8. TypeOK'
  BY <1>1, <1>2, <1>5, <1>7 DEF TypeOK
<1> QED
  BY <1>2, <1>3, <1>4, <1>6, <1>8 DEF Inv

LEMMA InvStutter ==
    ASSUME Inv, UNCHANGED vars
    PROVE  Inv'
<1>1. Tracked' = Tracked /\ Finished' = Finished
  BY StillDone DEF vars, Tracked
<1> QED
  BY <1>1 DEF vars, Inv, TypeOK

LEMMA InvStep == Inv /\ [Next]_vars => Inv'
<1> SUFFICES ASSUME Inv, [Next]_vars PROVE Inv'
  OBVIOUS
<1>1. CASE \E t \in Traces : Ingest(t) \/ Redact(t)
  BY <1>1, StepIngest, StepAct
<1>2. CASE \E d \in Docs : Relabel(d) \/ Flip(d)
  BY <1>2, StepAct
<1>3. CASE Lapse
  BY <1>3, StepLapse
<1>4. ASSUME NEW p \in Passes, Step(p)
      PROVE  Inv'
  <2>1. CASE Start(p)
    <3>1. Load(p, file) /\ file' = file /\ spent' = spent
      BY <2>1 DEF Start, Load
    <3>2. OnDisk(file, store, Tracked, Finished)
      BY DEF Inv
    <3> QED
      BY <3>1, <3>2, StepLoad
  <2>2. CASE Collect(p) \/ Page(p)
    BY <2>2, StepPaging
  <2>3. CASE Take(p)
    BY <2>3, StepTake
  <2>4. CASE Put(p)
    BY <2>4, StepPut
  <2>5. CASE Embed(p)
    BY <2>5, StepEmbed
  <2>6. CASE Commit(p) \/ Judge(p) \/ Swept(p)
    BY <2>6, StepCommit
  <2>7. CASE Raise(p)
    BY <2>7, StepRaise
  <2>8. CASE Save(p)
    BY <2>8, StepSave
  <2> QED
    BY <1>4, <2>1, <2>2, <2>3, <2>4, <2>5, <2>6, <2>7, <2>8 DEF Step
<1>5. ASSUME NEW p \in Passes, StartAfresh(p)
      PROVE  Inv'
  <2>1. /\ Load(p, Forgotten) /\ file' = file
        /\ spent.faults < MaxFaults /\ Spend("faults")
    BY <1>5 DEF StartAfresh, Load
  <2>2. OnDisk(Forgotten, store, Tracked, Finished)
    BY InvHere, ForgottenOnDisk DEF Here
  <2> QED
    BY <2>1, <2>2, StepLoad
<1>6. ASSUME NEW p \in Passes, EmbedFails(p) \/ Stop(p) \/ Die(p)
      PROVE  Inv'
  BY <1>6, StepFault
<1>7. CASE UNCHANGED vars
  BY <1>7, InvStutter
<1> QED
  BY <1>1, <1>2, <1>3, <1>4, <1>5, <1>6, <1>7 DEF Next

LEMMA InvAlways == Spec => []Inv
<1>1. Init => Inv
  BY InvInit
<1>2. Inv /\ [Next]_vars => Inv'
  BY InvStep
<1> QED
  BY <1>1, <1>2, PTL DEF Spec

-----------------------------------------------------------------------------
(* The theorems.                                                            *)

\* Every variable keeps its type, with any traces, passes and faults.
THEOREM TypeCorrect == Spec => []TypeOK
<1>1. Inv => TypeOK
  BY DEF Inv
<1> QED
  BY <1>1, InvAlways, PTL

\* Whatever number of passes overlap, stop, die, lose their save or start
\* afresh, and however timestamps tie and pages are cut: behind the cursor on
\* disk, and behind the one each pass will save, every trace that arrived in
\* order is done or on the list beside it, and no list outgrows its bound.
THEOREM NothingIsSkipped == Spec => []NothingSkipped
<1>1. Inv => NothingSkipped
  <2> SUFFICES ASSUME Inv PROVE NothingSkipped
    OBVIOUS
  <2>1. Tracked \subseteq Traces
    BY DEF Inv, TypeOK, Tracked
  <2>2. \A c, list : Safe(c, list, store, Tracked, Finished) => Accounted(c, list)
    BY <2>1 DEF Safe, Accounted, Tracked, Finished
  <2>3. Accounted(file.cursor, file.retry) /\ Cardinality(file.retry) <= RetryLimit
    BY <2>2 DEF Inv, OnDisk
  <2>4. \A p \in Passes : /\ Accounted(pass[p].frontier, pass[p].held)
                         /\ Cardinality(pass[p].held) <= RetryLimit
    BY <2>2 DEF Inv, Good
  <2> QED
    BY <2>3, <2>4 DEF NothingSkipped
<1> QED
  BY <1>1, InvAlways, PTL

-----------------------------------------------------------------------------
(* Labels.  A vector row takes its label from the document as one write, or *)
(* from a pass that wrote the document earlier.  The second is right only   *)
(* while no other pass can have written the document since.                 *)

\* One pass is at work at a time.
Lone == \A p, q \in Passes : pass[p].pc # "idle" /\ pass[q].pc # "idle" => p = q

\* A pass about to embed has the label its document carries, unless the
\* summary was redacted meanwhile.
Carries(self) ==
    self.pc = "embed" /\ Live(self.trace) => doc[self.trace].label = self.label

RowCarries(t) ==
    Live(t) /\ Embedded(t) /\ t \notin lagging => vec[t] = doc[t].label

LabelInv ==
    "overlap" \notin env =>
        /\ Lone
        /\ \A p \in Passes : Carries(pass[p])
        /\ \A t \in Traces : RowCarries(t)

\* What a step of pass p that goes nowhere near the embedder leaves.
LEMMA LabelFramed ==
    ASSUME LabelInv, NEW p \in Passes, env' = env, pass[p].pc = "idle" => doc' = doc,
           \A q \in Passes : q # p => pass'[q] = pass[q],
           pass'[p].pc # "idle" =>
             pass[p].pc # "idle" \/ "overlap" \in env \/ \A q \in Passes : pass[q].pc = "idle",
           "overlap" \notin env /\ Lone' => Carries(pass[p])' /\ \A t \in Traces : RowCarries(t)'
    PROVE  LabelInv'
<1> SUFFICES ASSUME "overlap" \notin env PROVE LabelInv'
  BY DEF LabelInv
<1>1. Lone /\ \A t \in Traces : RowCarries(t)
  BY DEF LabelInv
<1>2. Lone'
  BY <1>1 DEF Lone
<1>3. ASSUME NEW q \in Passes, q # p
      PROVE  Carries(pass[q])'
  <2>1. pass'[q] = pass[q]
    BY <1>3
  <2>2. pass[q].pc = "embed" => doc' = doc
    BY <1>1, <1>3 DEF Lone
  <2>3. Carries(pass[q])
    BY DEF LabelInv
  <2> QED
    BY <2>1, <2>2, <2>3 DEF Carries, Live
<1> QED
  BY <1>1, <1>2, <1>3 DEF LabelInv

\* A step of pass p that writes neither a document nor a vector and does not
\* come to embed.
LEMMA LabelSilent ==
    ASSUME LabelInv, NEW p \in Passes, env' = env, doc' = doc, vec' = vec, lagging' = lagging,
           \A q \in Passes : q # p => pass'[q] = pass[q],
           pass'[p].pc # "idle" =>
             pass[p].pc # "idle" \/ "overlap" \in env \/ \A q \in Passes : pass[q].pc = "idle",
           pass'[p].pc # "embed"
    PROVE  LabelInv'
<1>1. "overlap" \notin env => Carries(pass[p])' /\ \A t \in Traces : RowCarries(t)'
  BY DEF LabelInv, Carries, RowCarries, Live, Embedded
<1> QED
  BY <1>1, LabelFramed

\* put_document keeps the row and its vector on one label.
LEMMA PutCarries ==
    ASSUME RestOK, LabelInv, "overlap" \notin env, NEW t \in Traces, NEW l \in Labels,
           PutDoc(t, l)
    PROVE  /\ \A u \in Traces : RowCarries(u)'
           /\ doc'[t].label = l
<1>1. doc' = [doc EXCEPT ![t] = Summary(l)] /\ doc'[t] = Summary(l)
  BY DEF PutDoc, RestOK
<1>2. Summary(l).label = l
  BY DEF Summary
<1>3. \/ vec' = [vec EXCEPT ![t] = IF @ = NoVector THEN NoVector ELSE l]
         /\ lagging' = lagging \ {t}
      \/ vec' = vec /\ lagging' = lagging \cup {t}
  BY DEF PutDoc
<1>4. RowCarries(t)'
  BY <1>1, <1>2, <1>3 DEF RestOK, RowCarries, Embedded
<1>5. ASSUME NEW u \in Traces, u # t
      PROVE  RowCarries(u)'
  <2>1. /\ doc'[u] = doc[u] /\ vec'[u] = vec[u]
        /\ u \in lagging' <=> u \in lagging
    BY <1>1, <1>3, <1>5 DEF RestOK
  <2> QED
    BY <2>1 DEF LabelInv, RowCarries, Live, Embedded
<1> QED
  BY <1>1, <1>2, <1>4, <1>5

\* Every step of a pass that is not a write of a document or a vector.
LEMMA LabelQuiet ==
    ASSUME Inv, LabelInv, NEW p \in Passes,
           \/ Start(p) \/ StartAfresh(p) \/ Collect(p) \/ Page(p) \/ Take(p)
           \/ Commit(p) \/ Judge(p) \/ Swept(p) \/ Save(p)
           \/ EmbedFails(p) \/ Stop(p) \/ Die(p)
    PROVE  LabelInv'
<1>1. Good(pass[p], store, Tracked, Finished) /\ pass[p] \in PassState
      /\ pass \in [Passes -> PassState]
  BY InvHere DEF Here
<1>2. /\ env' = env /\ doc' = doc /\ vec' = vec /\ lagging' = lagging
      /\ \A q \in Passes : q # p => pass'[q] = pass[q]
  <2>1. CASE Start(p) \/ StartAfresh(p) \/ Collect(p) \/ Page(p) \/ Take(p)
    BY <1>1, <2>1 DEF Start, StartAfresh, Load, Collect, Page, Take, world
  <2>2. CASE Commit(p) \/ Judge(p) \/ Swept(p) \/ Save(p)
    BY <1>1, <2>2 DEF Commit, Judge, Swept, Save, world
  <2>3. CASE EmbedFails(p) \/ Stop(p) \/ Die(p)
    BY <1>1, <2>3 DEF EmbedFails, Stop, Die, world
  <2> QED
    BY <2>1, <2>2, <2>3
<1>3. ASSUME NEW wm, Load(p, wm)
      PROVE  /\ pass'[p].pc # "embed"
             /\ "overlap" \in env \/ \A q \in Passes : pass[q].pc = "idle"
  <2>1. PICK terse, new : /\ pass' = [pass EXCEPT ![p] = new]
                          /\ new = [Idle EXCEPT !.pc = "retry", !.wm = wm, !.held = wm.retry,
                                     !.todo = wm.retry, !.frontier = wm.cursor, !.terse = terse]
    BY <1>3 DEF Load
  <2>2. new.pc = "retry"
    BY <2>1 DEF Idle
  <2> QED
    BY <1>1, <1>3, <2>1, <2>2 DEF Load
<1>4. CASE Start(p) \/ StartAfresh(p)
  BY <1>2, <1>3, <1>4, LabelSilent DEF Start, StartAfresh
<1>5. ASSUME NEW t \in Traces, NEW ok \in BOOLEAN, pass' = [pass EXCEPT ![p] = Ended(pass[p], t, ok)]
      PROVE  pass'[p].pc # "embed"
  <2>1. EndsAs(Ended(pass[p], t, ok), pass[p], t, ok)
    BY <1>1, EndedFields
  <2> QED
    BY <1>1, <1>5, <2>1 DEF EndsAs, PassState
<1>6. Idle.pc = "idle"
  BY DEF Idle
<1>7. CASE Collect(p) \/ Page(p) \/ Commit(p) \/ Judge(p) \/ Swept(p) \/ Save(p) \/ Stop(p) \/ Die(p)
  <2>1. pass[p].pc # "idle"
    BY <1>7 DEF Collect, Page, Commit, Judge, Swept, Save, Stop, Die
  <2>2. pass'[p].pc # "embed"
    <3>1. CASE Collect(p) \/ Commit(p) \/ Swept(p) \/ Stop(p)
      BY <1>1, <3>1 DEF Collect, Commit, Swept, Stop, PassState
    <3>2. CASE Save(p) \/ Die(p)
      BY <1>1, <1>6, <3>2 DEF Save, Die
    <3>3. CASE Page(p)
      <4>1. pass[p].pc = "page"
        BY <3>3 DEF Page
      <4>2. PICK page \in Pages(pass[p]) :
          pass' = [pass EXCEPT ![p] =
              IF page # {} /\ Cardinality(pass[p].seen \cup page) > Ceiling
              THEN Idle
              ELSE IF Cardinality(page) < pass[p].window
              THEN [pass[p] EXCEPT !.pc = "walk", !.phase = "walk", !.seen = {},
                                   !.todo = Slice(pass[p].seen \cup page, pass[p].wm.cursor),
                                   !.upper = 0, !.window = 0]
              ELSE IF Stalled(pass[p], page)
              THEN [pass[p] EXCEPT !.window = 2 * @]
              ELSE [pass[p] EXCEPT !.seen = pass[p].seen \cup page,
                                   !.upper = At[Oldest(page)]]]
        BY <3>3 DEF Page
      <4>3. PICK new : /\ pass' = [pass EXCEPT ![p] = new]
                       /\ \/ new = Idle
                          \/ new = [pass[p] EXCEPT !.pc = "walk", !.phase = "walk", !.seen = {},
                                !.todo = Slice(pass[p].seen \cup page, pass[p].wm.cursor),
                                !.upper = 0, !.window = 0]
                          \/ new = [pass[p] EXCEPT !.window = 2 * @]
                          \/ new = [pass[p] EXCEPT !.seen = pass[p].seen \cup page,
                                                   !.upper = At[Oldest(page)]]
        BY <4>2
      <4>4. new.pc # "embed"
        BY <1>1, <1>6, <4>1, <4>3 DEF PassState
      <4> QED
        BY <1>1, <4>3, <4>4
    <3>4. CASE Judge(p)
      <4>1. PICK t \in pass[p].todo :
          LET judged == Live(t) /\ doc[t].label < 2 IN
          pass' = [pass EXCEPT ![p] =
            [pass[p] EXCEPT !.todo = @ \ {t},
                         !.marked = @ \/ judged,
                         !.pc = IF judged /\ Raises(t) THEN "raise" ELSE "sweep",
                         !.trace = IF judged /\ Raises(t) THEN t ELSE 0,
                         !.label = IF judged /\ Raises(t) THEN Inherited(t) ELSE 0]]
        BY <3>4 DEF Judge
      <4> DEFINE raises == (Live(t) /\ doc[t].label < 2) /\ Raises(t)
      <4>2. PICK pc : pc = IF raises THEN "raise" ELSE "sweep"
        OBVIOUS
      <4>3. PICK trace : trace = IF raises THEN t ELSE 0
        OBVIOUS
      <4>4. PICK label : label = IF raises THEN Inherited(t) ELSE 0
        OBVIOUS
      <4>5. PICK marked : marked = (pass[p].marked \/ (Live(t) /\ doc[t].label < 2))
        OBVIOUS
      <4>6. PICK new : new = Judged(pass[p], pass[p].todo \ {t}, marked, pc, trace, label)
        OBVIOUS
      <4>7. pass' = [pass EXCEPT ![p] = new]
        BY <1>1, <4>1, <4>2, <4>3, <4>4, <4>5, <4>6 DEF Judged
      <4>8. new.pc = pc
        BY <1>1, <4>6 DEF Judged, PassState
      <4>9. pc # "embed"
        BY <4>2
      <4> QED
        BY <1>1, <4>7, <4>8, <4>9
    <3> QED
      BY <1>7, <3>1, <3>2, <3>3, <3>4
  <2> QED
    BY <1>2, <2>1, <2>2, LabelSilent
<1>8. CASE EmbedFails(p)
  <2>1. /\ pass[p].pc = "embed" /\ pass[p].trace \in Traces
        /\ pass' = [pass EXCEPT ![p] = Ended(pass[p], pass[p].trace, FALSE)]
    BY <1>1, <1>8 DEF EmbedFails, Good, InHand, PassState
  <2>2. pass'[p].pc # "embed"
    BY <1>5, <2>1
  <2> QED
    BY <1>2, <2>1, <2>2, LabelSilent
<1>9. CASE Take(p)
  <2>1. pass[p].pc \in {"retry", "walk"} /\ pass[p].todo # {} /\ pass[p].todo \subseteq Traces
    BY <1>1, <1>9 DEF Take, PassState
  <2>2. PICK t : t = Oldest(pass[p].todo)
    OBVIOUS
  <2>3. t \in Traces
    BY <2>1, <2>2, OldestIsLeast
  <2>4. \/ \E ok \in BOOLEAN : pass' = [pass EXCEPT ![p] = Ended(pass[p], t, ok)]
        \/ pass' = [pass EXCEPT ![p] =
               [pass[p] EXCEPT !.pc = "put", !.trace = t, !.verdict = Verdict(t),
                               !.label = Inherited(t)]]
    BY <1>9, <2>2 DEF Take
  <2>5. pass'[p].pc # "embed"
    <3>1. CASE \E ok \in BOOLEAN : pass' = [pass EXCEPT ![p] = Ended(pass[p], t, ok)]
      BY <1>5, <2>3, <3>1
    <3>2. PICK new : new = [pass[p] EXCEPT !.pc = "put", !.trace = t, !.verdict = Verdict(t),
                                          !.label = Inherited(t)]
      OBVIOUS
    <3>3. new.pc = "put"
      BY <1>1, <3>2 DEF PassState
    <3> QED
      BY <1>1, <2>4, <3>1, <3>2, <3>3
  <2> QED
    BY <1>2, <2>1, <2>5, LabelSilent
<1> QED
  BY <1>4, <1>7, <1>8, <1>9

\* The writes: put_document of a trace in hand, the embedding, and a raise.
LEMMA LabelWrites ==
    ASSUME Inv, LabelInv, NEW p \in Passes, Put(p) \/ Embed(p) \/ Raise(p)
    PROVE  LabelInv'
<1>1. /\ Good(pass[p], store, Tracked, Finished) /\ pass[p] \in PassState
      /\ pass \in [Passes -> PassState] /\ RestOK
  BY InvHere DEF Here
<1>2. /\ env' = env /\ pass[p].pc # "idle"
      /\ \A q \in Passes : q # p => pass'[q] = pass[q]
  BY <1>1 DEF Put, Embed, Raise, world
<1>3. pass[p].trace \in Traces /\ pass[p].label \in Labels
  BY <1>1 DEF Put, Embed, Raise, Good, InHand, PassState
<1>4. PICK t \in Traces : t = pass[p].trace
  BY <1>3
<1>5. ASSUME NEW ok \in BOOLEAN, pass' = [pass EXCEPT ![p] = Ended(pass[p], t, ok)]
      PROVE  pass'[p].pc # "embed"
  <2>1. EndsAs(Ended(pass[p], t, ok), pass[p], t, ok)
    BY <1>1, EndedFields
  <2> QED
    BY <1>1, <1>5, <2>1 DEF EndsAs, PassState
<1>6. SUFFICES ASSUME "overlap" \notin env
               PROVE  Carries(pass[p])' /\ \A u \in Traces : RowCarries(u)'
  BY <1>2, LabelFramed
<1>7. ASSUME doc' = doc, vec' = vec, lagging' = lagging
      PROVE  \A u \in Traces : RowCarries(u)'
  BY <1>6, <1>7 DEF LabelInv, RowCarries, Live, Embedded
<1>8. CASE Put(p)
  <2> DEFINE refused == doc[t].state = "tomb"
  <2>1. IF refused THEN doc' = doc /\ vec' = vec /\ lagging' = lagging
        ELSE PutDoc(t, pass[p].label)
    BY <1>4, <1>8 DEF Put
  <2>2. \A u \in Traces : RowCarries(u)'
    BY <1>1, <1>3, <1>6, <1>7, <2>1, PutCarries
  <2>3. CASE ~refused /\ pass[p].verdict = "permitted"
    <3>1. pass' = [pass EXCEPT ![p] = [pass[p] EXCEPT !.pc = "embed"]]
      BY <1>4, <1>8, <2>3 DEF Put
    <3>2. pass'[p].trace = t /\ pass'[p].label = pass[p].label
      BY <1>1, <1>4, <3>1 DEF PassState
    <3>3. doc'[t].label = pass[p].label
      BY <1>1, <1>3, <1>6, <2>1, <2>3, PutCarries
    <3> QED
      BY <2>2, <3>2, <3>3 DEF Carries
  <2>4. CASE ~(~refused /\ pass[p].verdict = "permitted")
    <3>1. PICK ok \in BOOLEAN : ok = (refused \/ pass[p].verdict = "withheld")
      OBVIOUS
    <3>2. pass' = [pass EXCEPT ![p] = Ended(pass[p], t, ok)]
      BY <1>4, <1>8, <2>4, <3>1 DEF Put
    <3> QED
      BY <1>5, <2>2, <3>2 DEF Carries
  <2> QED
    BY <2>3, <2>4
<1>9. CASE Embed(p)
  <2>1. /\ pass[p].pc = "embed" /\ doc' = doc /\ vec' = [vec EXCEPT ![t] = pass[p].label]
        /\ lagging' = lagging \ {t}
        /\ pass' = [pass EXCEPT ![p] = Ended(pass[p], t, TRUE)]
    BY <1>4, <1>9 DEF Embed
  <2>2. Carries(pass[p])'
    BY <1>5, <2>1 DEF Carries
  <2>3. Live(t) => doc[t].label = pass[p].label
    BY <1>4, <1>6, <2>1 DEF LabelInv, Carries
  <2>4. RowCarries(t)'
    BY <1>1, <2>1, <2>3 DEF RowCarries, Live, RestOK
  <2>5. ASSUME NEW u \in Traces, u # t
        PROVE  RowCarries(u)'
    <3>1. vec'[u] = vec[u] /\ RowCarries(u) /\ (u \in lagging' <=> u \in lagging)
      BY <1>1, <1>6, <2>1, <2>5 DEF RestOK, LabelInv
    <3> QED
      BY <2>1, <3>1 DEF RowCarries, Live, Embedded
  <2> QED
    BY <2>2, <2>4, <2>5
<1>10. CASE Raise(p)
  <2>1. PICK l : l = Higher(pass[p].label, Inherited(t))
    OBVIOUS
  <2>2. l \in Labels
    BY <1>3, <2>1, JudgedTypes DEF Higher
  <2>3. IF doc[t].state = "tomb" THEN doc' = doc /\ vec' = vec /\ lagging' = lagging
        ELSE PutDoc(t, l)
    BY <1>4, <1>10, <2>1 DEF Raise
  <2>4. \A u \in Traces : RowCarries(u)'
    BY <1>1, <1>6, <1>7, <2>2, <2>3, PutCarries
  <2>5. pass'[p].pc = "sweep"
    BY <1>1, <1>10 DEF Raise, PassState
  <2> QED
    BY <2>4, <2>5 DEF Carries
<1> QED
  BY <1>8, <1>9, <1>10

\* What the rest of the system does takes no vector out of step.
LEMMA LabelRest ==
    ASSUME Inv, LabelInv,
           \/ \E t \in Traces : Ingest(t) \/ Redact(t)
           \/ \E d \in Docs : Relabel(d) \/ Flip(d)
           \/ Lapse
    PROVE  LabelInv'
<1>1. TypeOK
  BY DEF Inv
<1>2. CASE \E t \in Traces : Ingest(t)
  BY <1>2 DEF Ingest, LabelInv, Lone, Carries, RowCarries, Live, Embedded
<1>3. CASE \E d \in Docs : Relabel(d) \/ Flip(d)
  BY <1>3 DEF Relabel, Flip, LabelInv, Lone, Carries, RowCarries, Live, Embedded
<1>4. ASSUME NEW t \in Traces, Redact(t)
      PROVE  LabelInv'
  <2>1. /\ env' = env /\ pass' = pass
        /\ doc' = [doc EXCEPT ![t] = Tombstone] /\ vec' = [vec EXCEPT ![t] = NoVector]
        /\ lagging' = lagging \ {t}
    BY <1>4 DEF Redact, world
  <2>2. \A u \in Traces : IF u = t THEN doc'[u].state # "live"
                          ELSE /\ doc'[u] = doc[u] /\ vec'[u] = vec[u]
                               /\ u \in lagging' <=> u \in lagging
    BY <1>1, <2>1 DEF TypeOK, Tombstone
  <2>3. \A p \in Passes : pass[p].pc = "embed" => pass[p].trace \in Traces
    BY DEF Inv, Good, InHand, PassState
  <2> QED
    BY <2>1, <2>2, <2>3 DEF LabelInv, Lone, Carries, RowCarries, Live, Embedded
<1>5. CASE Lapse
  <2>1. env' = env /\ doc' = doc /\ vec' = vec /\ lagging' = lagging
    BY <1>5 DEF Lapse, world
  <2>2. \A p \in Passes : /\ pass'[p].pc = pass[p].pc /\ pass'[p].trace = pass[p].trace
                          /\ pass'[p].label = pass[p].label
    BY <1>1, <1>5 DEF Lapse, TypeOK, PassState
  <2> QED
    BY <2>1, <2>2 DEF LabelInv, Lone, Carries, RowCarries, Live, Embedded
<1> QED
  BY <1>2, <1>3, <1>4, <1>5

LEMMA LabelStep == Inv /\ LabelInv /\ [Next]_vars => LabelInv'
<1> SUFFICES ASSUME Inv, LabelInv, [Next]_vars PROVE LabelInv'
  OBVIOUS
<1>1. CASE UNCHANGED vars
  BY <1>1 DEF vars, LabelInv, Lone, Carries, RowCarries, Live, Embedded
<1>2. CASE Next
  BY <1>2, LabelQuiet, LabelWrites, LabelRest DEF Next, Step
<1> QED
  BY <1>1, <1>2

\* While passes take turns, a vector row of a summary that stands carries the
\* label of its document, unless the last mirror that had a label to bring it
\* failed: the put_document of the pass that embeds it, of a later restamp and
\* of a redaction in between all keep the two together otherwise.
THEOREM VectorsAlwaysCarryLabel == Spec => []VectorsCarryLabel
<1>1. Init => LabelInv
  <2> SUFFICES ASSUME Init PROVE LabelInv
    OBVIOUS
  <2>1. \A p \in Passes : pass[p].pc = "idle"
    BY DEF Init, Idle
  <2>2. \A t \in Traces : ~Live(t)
    BY DEF Init, Live, Absent
  <2> QED
    BY <2>1, <2>2 DEF LabelInv, Lone, Carries, RowCarries
<1>2. LabelInv => VectorsCarryLabel
  BY DEF LabelInv, VectorsCarryLabel, RowCarries
<1> QED
  BY <1>1, <1>2, LabelStep, InvAlways, PTL DEF Spec
=============================================================================
