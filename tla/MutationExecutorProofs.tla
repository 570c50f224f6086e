----------------------- MODULE MutationExecutorProofs -----------------------
(* Proofs about MutationExecutor, for every value of its constants.        *)
EXTENDS MutationExecutor, SequenceTheorems, FiniteSetTheorems, TLAPS

Active(w) == pc[w] \notin {"idle", "done"}

\* A worker that serves a request has a command before it, and a status
\* exactly while an event is due.
Serving(w) ==
    /\ pc[w] # "idle" => batch[w] \in Batches
    /\ Len(results[w]) <= Len(batch[w])
    /\ Active(w) => Len(results[w]) < Len(batch[w])
    /\ pc[w] = "emit" <=> status[w] # NULL
    /\ pc[w] = "persisted" => Key(w) # NULL

TypeInv == TypeOK /\ \A w \in Workers : Serving(w)

LEMMA KeyType ==
    ASSUME TypeInv, NEW w \in Workers, Active(w)
    PROVE  /\ Key(w) \in Keys \cup {NULL}
           /\ Len(results[w]) \in Nat /\ Len(batch[w]) \in Nat
           /\ batch[w] \in Seq(Keys \cup {NULL})
<1>1. batch[w] \in Batches /\ Len(results[w]) < Len(batch[w])
  BY DEF TypeInv, Serving, Active
<1>2. batch[w] \in Seq(Keys \cup {NULL})
  BY <1>1, ExecutorConstants
<1>3. results[w] \in Seq(Status)
  BY DEF TypeInv, TypeOK
<1> QED
  BY <1>1, <1>2, <1>3 DEF Key, Position

LEMMA CountedType ==
    ASSUME NEW count \in [Keys -> Nat], NEW w \in Workers,
           Key(w) \in Keys \cup {NULL}
    PROVE  /\ Counted(count, w) \in [Keys -> Nat]
           /\ \A k \in Keys : Counted(count, w)[k] =
                                IF k = Key(w) THEN count[k] + 1 ELSE count[k]
BY ExecutorConstants DEF Counted

LEMMA RecordedType ==
    ASSUME NEW c \in Seq(Keys), Len(c) <= CacheSize, NEW k \in Keys
    PROVE  /\ Recorded(c, k) \in Seq(Keys)
           /\ Len(Recorded(c, k)) <= CacheSize
           /\ \A i \in DOMAIN Recorded(c, k) :
                Recorded(c, k)[i] = k \/ \E j \in DOMAIN c : Recorded(c, k)[i] = c[j]
<1>1. CASE Len(c) < CacheSize
  BY <1>1, ExecutorConstants DEF Recorded
<1>2. CASE ~(Len(c) < CacheSize)
  <2>1. c # <<>> /\ Len(c) \in Nat \ {0} /\ Len(c) = CacheSize
    BY <1>2, ExecutorConstants
  <2>2. /\ Tail(c) \in Seq(Keys) /\ Len(Tail(c)) = Len(c) - 1
        /\ \A i \in 1..(Len(c) - 1) : Tail(c)[i] = c[i + 1]
    BY <2>1
  <2>3. Recorded(c, k) = Append(Tail(c), k)
    BY <1>2 DEF Recorded
  <2> QED
    BY <2>1, <2>2, <2>3
<1> QED
  BY <1>1, <1>2

LEMMA MovedType ==
    ASSUME NEW c \in Seq(Keys), NEW k \in Keys, NEW i \in DOMAIN c, c[i] = k
    PROVE  /\ MovedToEnd(c, k) \in Seq(Keys)
           /\ Len(MovedToEnd(c, k)) = Len(c)
           /\ \A m \in DOMAIN MovedToEnd(c, k) :
                \E j \in DOMAIN c : MovedToEnd(c, k)[m] = c[j]
<1> DEFINE h == CHOOSE j \in DOMAIN c : c[j] = k
           front == SubSeq(c, 1, h - 1)
           back == SubSeq(c, h + 1, Len(c))
<1>1. h \in 1..Len(c) /\ c[h] = k
  OBVIOUS
<1> HIDE DEF h
<1>2. /\ front \in Seq(Keys) /\ Len(front) = h - 1
      /\ \A m \in 1..(h - 1) : front[m] = c[m]
  BY <1>1
<1>3. /\ back \in Seq(Keys) /\ Len(back) = Len(c) - h
      /\ \A m \in 1..(Len(c) - h) : back[m] = c[m + h]
  BY <1>1
<1>4. MovedToEnd(c, k) = front \o back \o <<k>>
  BY DEF MovedToEnd, h
<1> HIDE DEF front, back
<1> DEFINE both == front \o back
<1>5. both \in Seq(Keys) /\ Len(both) = Len(c) - 1
  <2>1. both \in Seq(Keys) /\ Len(both) = Len(front) + Len(back)
    BY <1>2, <1>3, ConcatProperties
  <2>2. Len(c) \in Nat /\ h \in Nat
    BY <1>1
  <2> QED
    BY <1>2, <1>3, <2>1, <2>2
<1>6. ASSUME NEW m \in 1..(Len(c) - 1)
      PROVE  \E j \in DOMAIN c : both[m] = c[j]
  <2>1. CASE m <= h - 1
    <3>1. both[m] = front[m]
      BY <1>1, <1>2, <1>3, <2>1
    <3> QED
      BY <1>1, <1>2, <2>1, <3>1
  <2>2. CASE ~(m <= h - 1)
    <3>1. m - (h - 1) \in 1..(Len(c) - h)
      BY <1>1, <2>2
    <3>2. both[m] = back[m - (h - 1)]
      BY <1>1, <1>2, <1>3, <2>2
    <3>3. both[m] = c[m - (h - 1) + h]
      BY <1>3, <3>1, <3>2
    <3>4. m - (h - 1) + h \in DOMAIN c
      BY <1>1, <3>1
    <3> QED
      BY <3>3, <3>4
  <2> QED
    BY <2>1, <2>2
<1> HIDE DEF both
<1>7. MovedToEnd(c, k) = Append(both, k)
  <2>1. MovedToEnd(c, k) = both \o <<k>>
    BY <1>4 DEF both
  <2> QED
    BY <1>5, <2>1
<1>8. /\ Append(both, k) \in Seq(Keys) /\ Len(Append(both, k)) = Len(c)
      /\ \A m \in DOMAIN Append(both, k) :
           \/ m \in 1..(Len(c) - 1) /\ Append(both, k)[m] = both[m]
           \/ Append(both, k)[m] = k
  BY <1>1, <1>5
<1> QED
  BY <1>1, <1>6, <1>7, <1>8

LEMMA TypeInit == Init => TypeInv
BY ExecutorConstants DEF Init, TypeInv, TypeOK, Serving, Active, Stages

\* What the four ways of leaving a stage do to the workers.
LEMMA DecideServes ==
    ASSUME TypeInv, NEW w \in Workers, NEW s \in Status,
           Active(w), Decide(w, s), UNCHANGED <<batch, results>>
    PROVE  /\ pc' \in [Workers -> Stages]
           /\ status' \in [Workers -> Status \cup {NULL}]
           /\ \A q \in Workers : Serving(q)'
<1>1. /\ pc \in [Workers -> Stages]
      /\ status \in [Workers -> Status \cup {NULL}]
      /\ s # NULL
  BY ExecutorConstants DEF TypeInv, TypeOK
<1>2. /\ pc' \in [Workers -> Stages] /\ pc'[w] = "emit"
      /\ \A q \in Workers : q # w => pc'[q] = pc[q]
  BY <1>1 DEF Decide, Goto, Stages
<1>3. /\ status' \in [Workers -> Status \cup {NULL}] /\ status'[w] = s
      /\ \A q \in Workers : q # w => status'[q] = status[q]
  BY <1>1 DEF Decide
<1>4. ASSUME NEW q \in Workers PROVE Serving(q)'
  <2>1. Serving(q)
    BY DEF TypeInv
  <2> QED
    BY <1>1, <1>2, <1>3, <2>1 DEF Serving, Active, Key, Position
<1> QED
  BY <1>2, <1>3, <1>4

LEMMA GotoServes ==
    ASSUME TypeInv, NEW w \in Workers, NEW g \in {"check", "persisted", "handle"},
           Active(w), pc[w] # "emit", g = "persisted" => Key(w) # NULL,
           Goto(w, g), UNCHANGED <<batch, results, status>>
    PROVE  pc' \in [Workers -> Stages] /\ \A q \in Workers : Serving(q)'
<1>1. pc \in [Workers -> Stages]
  BY DEF TypeInv, TypeOK
<1>2. /\ pc' \in [Workers -> Stages] /\ pc'[w] = g
      /\ \A q \in Workers : q # w => pc'[q] = pc[q]
  BY <1>1 DEF Goto, Stages
<1>3. ASSUME NEW q \in Workers PROVE Serving(q)'
  <2>1. Serving(q)
    BY DEF TypeInv
  <2> QED
    BY <1>2, <2>1 DEF Serving, Active, Key, Position
<1> QED
  BY <1>2, <1>3

LEMMA AnswerServes ==
    ASSUME TypeInv, NEW w \in Workers, NEW s \in Status,
           Active(w), Answer(w, s), UNCHANGED batch
    PROVE  /\ pc' \in [Workers -> Stages]
           /\ status' \in [Workers -> Status \cup {NULL}]
           /\ results' \in [Workers -> Seq(Status)]
           /\ results'[w] = Append(results[w], s)
           /\ \A q \in Workers : q # w => results'[q] = results[q]
           /\ \A q \in Workers : Serving(q)'
<1>1. /\ pc \in [Workers -> Stages]
      /\ status \in [Workers -> Status \cup {NULL}]
      /\ results \in [Workers -> Seq(Status)]
  BY DEF TypeInv, TypeOK
<1>2. Len(results[w]) \in Nat /\ Len(batch[w]) \in Nat /\ Len(results[w]) < Len(batch[w])
  BY KeyType DEF TypeInv, Serving
<1>3. /\ pc' \in [Workers -> Stages]
      /\ pc'[w] \in {"done", "validate"}
      /\ pc'[w] = "validate" => Len(results[w]) + 1 # Len(batch[w])
      /\ \A q \in Workers : q # w => pc'[q] = pc[q]
  BY <1>1 DEF Answer, Goto, Stages, Position
<1>4. /\ status' \in [Workers -> Status \cup {NULL}] /\ status'[w] = NULL
      /\ \A q \in Workers : q # w => status'[q] = status[q]
  BY <1>1 DEF Answer
<1>5. /\ results' \in [Workers -> Seq(Status)]
      /\ results'[w] = Append(results[w], s)
      /\ Len(results'[w]) = Len(results[w]) + 1
      /\ \A q \in Workers : q # w => results'[q] = results[q]
  BY <1>1 DEF Answer
<1>6. ASSUME NEW q \in Workers PROVE Serving(q)'
  <2>1. Serving(q)
    BY DEF TypeInv
  <2> QED
    BY <1>2, <1>3, <1>4, <1>5, <2>1 DEF Serving, Active, Key, Position
<1> QED
  BY <1>3, <1>4, <1>5, <1>6

LEMMA ForgetServes ==
    ASSUME TypeInv, NEW w \in Workers, NEW g \in {"idle", "validate"},
           Forget(w), Goto(w, g),
           \/ UNCHANGED batch /\ g = "idle"
           \/ \E b \in Batches : batch' = [batch EXCEPT ![w] = b]
    PROVE  /\ pc' \in [Workers -> Stages]
           /\ status' \in [Workers -> Status \cup {NULL}]
           /\ results' \in [Workers -> Seq(Status)]
           /\ wrote' \in [Workers -> SUBSET Nat]
           /\ cache' \in [Workers -> Seq(Keys)]
           /\ \A q \in Workers : Len(cache'[q]) <= CacheSize
           /\ batch' \in [Workers -> Batches \cup {<<>>}]
           /\ \A q \in Workers : Serving(q)'
<1>1. TypeOK
  BY DEF TypeInv
<1>2. /\ pc' \in [Workers -> Stages] /\ pc'[w] = g
      /\ \A q \in Workers : q # w => pc'[q] = pc[q]
  BY <1>1 DEF TypeOK, Goto, Stages
<1>3. /\ status' \in [Workers -> Status \cup {NULL}] /\ status'[w] = NULL
      /\ \A q \in Workers : q # w => status'[q] = status[q]
  BY <1>1 DEF TypeOK, Forget
<1>4. /\ results' \in [Workers -> Seq(Status)] /\ results'[w] = <<>>
      /\ \A q \in Workers : q # w => results'[q] = results[q]
  BY <1>1 DEF TypeOK, Forget
<1>5. /\ wrote' \in [Workers -> SUBSET Nat] /\ cache' \in [Workers -> Seq(Keys)]
      /\ \A q \in Workers : Len(cache'[q]) <= CacheSize
  BY <1>1, ExecutorConstants DEF TypeOK, Forget
<1>6. /\ batch' \in [Workers -> Batches \cup {<<>>}]
      /\ g # "idle" => batch'[w] \in Batches
      /\ \A q \in Workers : q # w => batch'[q] = batch[q]
  BY <1>1 DEF TypeOK
<1>7. ASSUME NEW q \in Workers PROVE Serving(q)'
  <2>1. CASE q # w
    BY <1>2, <1>3, <1>4, <1>6, <2>1 DEF TypeInv, Serving, Active, Key, Position
  <2>2. CASE q = w
    <3>0. batch'[w] \in Batches \/ batch'[w] = <<>>
      BY <1>6
    <3>1. batch'[w] \in Seq(Keys \cup {NULL})
      BY <3>0, EmptySeq, ExecutorConstants
    <3>2. g # "idle" => Len(batch'[w]) > 0
      BY <1>6, <3>1, ExecutorConstants
    <3>3. Len(results'[w]) = 0 /\ Len(batch'[w]) \in Nat
      BY <1>4, <3>1
    <3> QED
      BY <1>2, <1>3, <1>6, <2>2, <3>2, <3>3 DEF Serving, Active
  <2> QED
    BY <2>1, <2>2
<1> QED
  BY <1>2, <1>3, <1>4, <1>5, <1>6, <1>7

LEMMA TypeStep == TypeInv /\ [Next]_vars => TypeInv'
<1> SUFFICES ASSUME TypeInv, [Next]_vars PROVE TypeInv'
  OBVIOUS
<1>0. TypeOK
  BY DEF TypeInv
<1>1. ASSUME NEW w \in Workers, Submit(w) PROVE TypeInv'
  <2>1. \E b \in Batches : batch' = [batch EXCEPT ![w] = b]
    BY <1>1 DEF Submit
  <2>2. requests' \in 0..MaxRequests /\ stop' \in [Workers -> BOOLEAN]
    BY <1>0, <1>1, ExecutorConstants DEF TypeOK, Submit
  <2> QED
    BY <1>0, <1>1, <2>1, <2>2, ForgetServes DEF Submit, stores, TypeInv, TypeOK
<1>2. ASSUME NEW w \in Workers, Validate(w) PROVE TypeInv'
  BY <1>0, <1>2, DecideServes, GotoServes
     DEF Validate, stores, request, Active, Status, TypeInv, TypeOK
<1>3. ASSUME NEW w \in Workers, GateRaises(w) PROVE TypeInv'
  BY <1>0, <1>3, ForgetServes DEF GateRaises, stores, request, TypeInv, TypeOK
<1>4. ASSUME NEW w \in Workers, CheckSeen(w) PROVE TypeInv'
  <2>0. Active(w) /\ cache[w] \in Seq(Keys) /\ Len(cache[w]) <= CacheSize
    BY <1>0, <1>4 DEF CheckSeen, Active, TypeOK
  <2>1. CASE Key(w) \in Seen(w)
    <3>1. PICK s \in ReplayAnswers(Key(w)) :
            /\ cache' = [cache EXCEPT ![w] = IF s = "duplicate"
                                             THEN MovedToEnd(@, Key(w)) ELSE @]
            /\ Decide(w, s)
      BY <1>4, <2>1 DEF CheckSeen
    <3>2. s \in Status
      BY DEF ReplayAnswers, Status
    <3>3. PICK i \in DOMAIN cache[w] : cache[w][i] = Key(w)
      BY <2>1 DEF Seen
    <3>4. Key(w) \in Keys
      BY <2>0, <3>3
    <3>5. /\ MovedToEnd(cache[w], Key(w)) \in Seq(Keys)
          /\ Len(MovedToEnd(cache[w], Key(w))) <= CacheSize
      BY <2>0, <3>3, <3>4, MovedType
    <3>6. /\ cache' \in [Workers -> Seq(Keys)]
          /\ \A q \in Workers : Len(cache'[q]) <= CacheSize
      BY <1>0, <3>1, <3>5 DEF TypeOK
    <3> QED
      BY <1>0, <1>4, <2>0, <3>1, <3>2, <3>6, DecideServes
         DEF CheckSeen, stores, request, TypeInv, TypeOK
  <2>2. CASE Key(w) \notin Seen(w)
    <3>1. PICK g \in {"persisted", "handle"} :
            Goto(w, g) /\ (g = "persisted" => Key(w) # NULL)
      BY <1>4, <2>2 DEF CheckSeen
    <3> QED
      BY <1>0, <1>4, <2>0, <2>2, <3>1, GotoServes
         DEF CheckSeen, stores, request, TypeInv, TypeOK
  <2> QED
    BY <2>1, <2>2
<1>5. ASSUME NEW w \in Workers, CheckPersisted(w) PROVE TypeInv'
  <2>0. Active(w) /\ cache[w] \in Seq(Keys) /\ Len(cache[w]) <= CacheSize
    BY <1>0, <1>5 DEF CheckPersisted, Active, TypeOK
  <2>1. Key(w) \in Keys
    BY <1>5, <2>0, KeyType DEF CheckPersisted, TypeInv, Serving
  <2>2. ASSUME NEW s \in ReplayAnswers(Key(w)), Decide(w, s),
               cache' = [cache EXCEPT ![w] = IF s = "duplicate"
                                             THEN Recorded(@, Key(w)) ELSE @]
        PROVE  TypeInv'
    <3>1. s \in Status
      BY DEF ReplayAnswers, Status
    <3>2. /\ cache' \in [Workers -> Seq(Keys)]
          /\ \A q \in Workers : Len(cache'[q]) <= CacheSize
      BY <1>0, <2>0, <2>1, <2>2, RecordedType DEF TypeOK
    <3> QED
      BY <1>0, <1>5, <2>0, <2>2, <3>1, <3>2, DecideServes
         DEF CheckPersisted, stores, request, TypeInv, TypeOK
  <2>3. CASE Unanswered(w) /\ UNCHANGED cache
    BY <1>0, <1>5, <2>0, <2>3, DecideServes
       DEF CheckPersisted, Unanswered, Status, stores, request, TypeInv, TypeOK
  <2>4. CASE Goto(w, "handle") /\ UNCHANGED <<cache, status>>
    BY <1>0, <1>5, <2>0, <2>4, GotoServes
       DEF CheckPersisted, stores, request, TypeInv, TypeOK
  <2> QED
    BY <1>5, <2>2, <2>3, <2>4 DEF CheckPersisted
<1>6. ASSUME NEW w \in Workers, NoHandler(w) PROVE TypeInv'
  BY <1>0, <1>6, AnswerServes
     DEF NoHandler, Active, Status, stores, request, TypeInv, TypeOK
<1>7. ASSUME NEW w \in Workers, Refuse(w) PROVE TypeInv'
  BY <1>0, <1>7, DecideServes
     DEF Refuse, Active, Status, stores, request, TypeInv, TypeOK
<1>8. ASSUME NEW w \in Workers, FailAfterWrite(w) PROVE TypeInv'
  <2>1. Active(w) /\ Position(w) \in Nat
    BY <1>8, KeyType DEF FailAfterWrite, Active, Position
  <2>2. wrote' \in [Workers -> SUBSET Nat]
    BY <1>0, <1>8, <2>1 DEF FailAfterWrite, TypeOK
  <2> QED
    BY <1>0, <1>8, <2>1, <2>2, DecideServes
       DEF FailAfterWrite, Status, stores, request, TypeInv, TypeOK
<1>9. ASSUME NEW w \in Workers, Succeed(w) PROVE TypeInv'
  <2>1. Active(w) /\ Position(w) \in Nat /\ Key(w) \in Keys \cup {NULL}
    BY <1>9, KeyType DEF Succeed, Active, Position
  <2>2. wrote' \in [Workers -> SUBSET Nat] /\ applied' \in [Keys -> Nat]
    BY <1>0, <1>9, <2>1, CountedType DEF Succeed, TypeOK
  <2>3. /\ cache' \in [Workers -> Seq(Keys)]
        /\ \A q \in Workers : Len(cache'[q]) <= CacheSize
    BY <1>0, <1>9, <2>1, RecordedType DEF Succeed, TypeOK
  <2> QED
    BY <1>0, <1>9, <2>1, <2>2, <2>3, DecideServes
       DEF Succeed, Status, request, TypeInv, TypeOK
<1>10. ASSUME NEW w \in Workers, Emit(w) PROVE TypeInv'
  <2>1. Active(w) /\ Key(w) \in Keys \cup {NULL} /\ status[w] \in Status
    BY <1>0, <1>10, KeyType DEF Emit, Active, TypeInv, TypeOK, Serving
  <2>2. /\ Counted(logged, w) \in [Keys -> Nat]
        /\ Counted(lost, w) \in [Keys -> Nat]
    BY <1>0, <2>1, CountedType DEF TypeOK
  <2>3. logged' \in [Keys -> Nat] /\ lost' \in [Keys -> Nat]
    BY <1>0, <1>10, <2>2 DEF Emit, TypeOK
  <2> QED
    BY <1>0, <1>10, <2>1, <2>3, AnswerServes DEF Emit, request, TypeInv, TypeOK
<1>11. ASSUME NEW w \in Workers, Crash(w) PROVE TypeInv'
  <2>1. Active(w) /\ Key(w) \in Keys \cup {NULL}
    BY <1>11, KeyType DEF Crash, Active
  <2>2. lost' \in [Keys -> Nat]
    BY <1>0, <1>11, <2>1, CountedType DEF Crash, TypeOK
  <2> QED
    BY <1>0, <1>11, <2>2, ForgetServes DEF Crash, request, TypeInv, TypeOK
<1>12. CASE UNCHANGED vars
  BY <1>12 DEF vars, TypeInv, TypeOK, Serving, Active, Key, Position
<1> QED
  BY <1>1, <1>2, <1>3, <1>4, <1>5, <1>6, <1>7, <1>8, <1>9, <1>10, <1>11, <1>12
     DEF Next, Run

\* Every variable keeps its type, and no executor's cache outgrows
\* idempotency_cache_size, whatever is submitted and whatever fails.
THEOREM TypeCorrect == Spec => []TypeOK
<1>1. TypeInv => TypeOK
  BY DEF TypeInv
<1> QED
  BY <1>1, TypeInit, TypeStep, PTL DEF Spec
-----------------------------------------------------------------------------
(* Whatever may make a command a duplicate goes back to a handler that has *)
(* succeeded under its key: a cached key, a logged event, a status.        *)

CacheApplied ==
    \A w \in Workers : \A i \in DOMAIN cache[w] : applied[cache[w][i]] > 0

LoggedApplied == \A k \in Keys : logged[k] > 0 => applied[k] > 0

StatusApplied ==
    \A w \in Workers :
      status[w] \in {"success", "duplicate"} /\ Key(w) # NULL => applied[Key(w)] > 0

AppliedInv ==
    /\ TypeInv
    /\ CacheApplied
    /\ LoggedApplied
    /\ StatusApplied
    /\ AnsweredMeansApplied

LEMMA AppliedInit == Init => AppliedInv
<1> SUFFICES ASSUME Init PROVE AppliedInv
  OBVIOUS
<1>1. \A w \in Workers : cache[w] = <<>> /\ results[w] = <<>> /\ status[w] = NULL
  BY DEF Init
<1>2. CacheApplied /\ AnsweredMeansApplied
  BY <1>1 DEF CacheApplied, AnsweredMeansApplied
<1>3. StatusApplied
  BY <1>1, ExecutorConstants DEF StatusApplied, Status
<1>4. LoggedApplied
  BY DEF LoggedApplied, Init
<1> QED
  BY <1>2, <1>3, <1>4, TypeInit DEF AppliedInv

LEMMA SucceedCounts ==
    ASSUME TypeInv, NEW w \in Workers, Succeed(w)
    PROVE  /\ Key(w) \in Keys \cup {NULL}
           /\ \A k \in Keys : applied'[k] = IF k = Key(w) THEN applied[k] + 1
                                            ELSE applied[k]
<1>1. Active(w) /\ applied \in [Keys -> Nat]
  BY DEF Succeed, Active, TypeInv, TypeOK
<1>2. Key(w) \in Keys \cup {NULL}
  BY <1>1, KeyType
<1> QED
  BY <1>1, <1>2, CountedType DEF Succeed

LEMMA AppliedGrows ==
    TypeInv /\ [Next]_vars => \A k \in Keys : applied'[k] >= applied[k]
<1> SUFFICES ASSUME TypeInv, [Next]_vars, NEW k \in Keys
             PROVE  applied'[k] >= applied[k]
  OBVIOUS
<1>1. applied[k] \in Nat
  BY DEF TypeInv, TypeOK
<1>2. ASSUME NEW w \in Workers, Succeed(w) PROVE applied'[k] >= applied[k]
  BY <1>1, <1>2, SucceedCounts
<1>3. CASE UNCHANGED applied
  BY <1>1, <1>3
<1> QED
  BY <1>2, <1>3
     DEF Next, Run, vars, Submit, Validate, GateRaises, CheckSeen,
         CheckPersisted, NoHandler, Refuse, FailAfterWrite, Emit, Crash, stores

LEMMA CacheStep == AppliedInv /\ [Next]_vars => CacheApplied'
<1> SUFFICES ASSUME AppliedInv, [Next]_vars PROVE CacheApplied'
  OBVIOUS
<1>0. /\ TypeInv /\ TypeOK /\ CacheApplied /\ LoggedApplied
      /\ cache \in [Workers -> Seq(Keys)]
      /\ \A k \in Keys : applied'[k] >= applied[k]
      /\ applied \in [Keys -> Nat] /\ applied' \in [Keys -> Nat]
  BY AppliedGrows, TypeStep DEF AppliedInv, TypeInv, TypeOK
<1>1. \A q \in Workers : \A i \in DOMAIN cache[q] : applied'[cache[q][i]] > 0
  <2> SUFFICES ASSUME NEW q \in Workers, NEW i \in DOMAIN cache[q]
               PROVE  applied'[cache[q][i]] > 0
    OBVIOUS
  <2>1. cache[q][i] \in Keys
    BY <1>0
  <2> QED
    BY <1>0, <2>1 DEF CacheApplied
<1>2. ASSUME NEW w \in Workers, NEW c, cache' = [cache EXCEPT ![w] = c],
             \A i \in DOMAIN c : applied'[c[i]] > 0
      PROVE  CacheApplied'
  <2>1. cache'[w] = c /\ \A q \in Workers : q # w => cache'[q] = cache[q]
    BY <1>0, <1>2
  <2>2. \A q \in Workers : \A i \in DOMAIN cache'[q] : applied'[cache'[q][i]] > 0
    <3> SUFFICES ASSUME NEW q \in Workers
                 PROVE  \A i \in DOMAIN cache'[q] : applied'[cache'[q][i]] > 0
      OBVIOUS
    <3>1. CASE q = w
      BY <1>2, <2>1, <3>1
    <3>2. CASE q # w
      BY <1>1, <2>1, <3>2
    <3> QED
      BY <3>1, <3>2
  <2> QED
    BY <2>2 DEF CacheApplied
<1>3. ASSUME NEW w \in Workers, Forget(w) PROVE CacheApplied'
  <2>1. cache' = [cache EXCEPT ![w] = <<>>] /\ \A i \in DOMAIN <<>> : applied'[<<>>[i]] > 0
    BY <1>3 DEF Forget
  <2> QED
    BY <1>2, <2>1
<1>4. ASSUME NEW w \in Workers, NEW k \in Keys, applied'[k] > 0,
             cache' = [cache EXCEPT ![w] = Recorded(@, k)]
      PROVE  CacheApplied'
  <2>1. cache[w] \in Seq(Keys) /\ Len(cache[w]) <= CacheSize
    BY <1>0 DEF TypeOK
  <2>2. ASSUME NEW i \in DOMAIN Recorded(cache[w], k)
        PROVE  applied'[Recorded(cache[w], k)[i]] > 0
    <3>1. \/ Recorded(cache[w], k)[i] = k
          \/ \E j \in DOMAIN cache[w] : Recorded(cache[w], k)[i] = cache[w][j]
      BY <2>1, RecordedType
    <3> QED
      BY <1>1, <1>4, <3>1
  <2> QED
    BY <1>0, <1>2, <1>4, <2>2
<1>5. CASE UNCHANGED cache
  BY <1>1, <1>5 DEF CacheApplied
<1>6. ASSUME NEW w \in Workers, CheckSeen(w) PROVE CacheApplied'
  <2>1. CASE Key(w) \in Seen(w) /\ cache' = [cache EXCEPT ![w] = MovedToEnd(@, Key(w))]
    <3>1. PICK i \in DOMAIN cache[w] : cache[w][i] = Key(w)
      BY <2>1 DEF Seen
    <3>2. cache[w] \in Seq(Keys) /\ Key(w) \in Keys
      BY <1>0, <3>1
    <3>3. ASSUME NEW m \in DOMAIN MovedToEnd(cache[w], Key(w))
          PROVE  applied'[MovedToEnd(cache[w], Key(w))[m]] > 0
      <4>1. \E j \in DOMAIN cache[w] :
              MovedToEnd(cache[w], Key(w))[m] = cache[w][j]
        BY <3>1, <3>2, MovedType
      <4> QED
        BY <1>1, <4>1
    <3> QED
      BY <1>0, <1>2, <2>1, <3>3
  <2>2. \/ UNCHANGED cache
        \/ /\ Key(w) \in Seen(w)
           /\ cache' = [cache EXCEPT ![w] = MovedToEnd(@, Key(w))]
    <3>1. CASE Key(w) \notin Seen(w)
      BY <1>6, <3>1 DEF CheckSeen
    <3>2. CASE Key(w) \in Seen(w)
      <4>1. PICK s \in ReplayAnswers(Key(w)) :
              cache' = [cache EXCEPT ![w] = IF s = "duplicate"
                                            THEN MovedToEnd(@, Key(w)) ELSE @]
        BY <1>6, <3>2 DEF CheckSeen
      <4>2. CASE s = "duplicate"
        BY <3>2, <4>1, <4>2
      <4>3. CASE s # "duplicate"
        BY <1>0, <4>1, <4>3
      <4> QED
        BY <4>2, <4>3
    <3> QED
      BY <3>1, <3>2
  <2> QED
    BY <1>5, <2>1, <2>2
<1>7. ASSUME NEW w \in Workers, CheckPersisted(w) PROVE CacheApplied'
  <2>1. Key(w) \in Keys
    BY <1>0, <1>7, KeyType DEF CheckPersisted, Active, TypeInv, Serving
  <2>2. \/ UNCHANGED cache
        \/ logged[Key(w)] > 0 /\ cache' = [cache EXCEPT ![w] = Recorded(@, Key(w))]
    BY <1>0, <1>7 DEF CheckPersisted
  <2> QED
    BY <1>0, <1>4, <1>5, <2>1, <2>2 DEF LoggedApplied
<1>8. ASSUME NEW w \in Workers, Succeed(w) PROVE CacheApplied'
  <2>1. /\ Key(w) \in Keys \cup {NULL}
        /\ Key(w) \in Keys => applied'[Key(w)] > 0
    BY <1>0, <1>8, SucceedCounts
  <2>2. \/ Key(w) = NULL /\ UNCHANGED cache
        \/ Key(w) # NULL /\ cache' = [cache EXCEPT ![w] = Recorded(@, Key(w))]
    BY <1>0, <1>8 DEF Succeed
  <2> QED
    BY <1>4, <1>5, <2>1, <2>2
<1> QED
  BY <1>3, <1>5, <1>6, <1>7, <1>8
     DEF Next, Run, vars, Submit, Validate, GateRaises, NoHandler, Refuse,
         FailAfterWrite, Emit, Crash

LEMMA LoggedStep == AppliedInv /\ [Next]_vars => LoggedApplied'
<1> SUFFICES ASSUME AppliedInv, [Next]_vars PROVE LoggedApplied'
  OBVIOUS
<1>0. /\ TypeInv /\ TypeOK /\ LoggedApplied /\ StatusApplied
      /\ logged \in [Keys -> Nat]
      /\ applied \in [Keys -> Nat] /\ applied' \in [Keys -> Nat]
      /\ \A k \in Keys : applied'[k] >= applied[k]
  BY AppliedGrows, TypeStep DEF AppliedInv, TypeInv, TypeOK
<1>1. CASE UNCHANGED logged
  BY <1>0, <1>1 DEF LoggedApplied
<1>2. ASSUME NEW w \in Workers, Emit(w) PROVE LoggedApplied'
  <2>1. Active(w) /\ Key(w) \in Keys \cup {NULL}
    BY <1>0, <1>2, KeyType DEF Emit, Active
  <2>2. CASE logged' = Counted(logged, w) /\ status[w] = "success"
    <3>1. CASE Key(w) = NULL
      BY <1>1, <2>2, <3>1 DEF Counted
    <3>2. CASE Key(w) \in Keys
      <4>1. applied[Key(w)] > 0
        BY <1>0, <2>2, <3>2, ExecutorConstants DEF StatusApplied
      <4>2. \A k \in Keys : k # Key(w) => logged'[k] = logged[k]
        BY <1>0, <2>1, <2>2, CountedType
      <4> QED
        BY <1>0, <3>2, <4>1, <4>2 DEF LoggedApplied
    <3> QED
      BY <2>1, <3>1, <3>2
  <2>3. UNCHANGED logged \/ (logged' = Counted(logged, w) /\ status[w] = "success")
    BY <1>2 DEF Emit
  <2> QED
    BY <1>1, <2>2, <2>3
<1> QED
  BY <1>1, <1>2
     DEF Next, Run, vars, Submit, Validate, GateRaises, CheckSeen, CheckPersisted,
         NoHandler, Refuse, FailAfterWrite, Succeed, Crash, stores

LEMMA StatusStep == AppliedInv /\ [Next]_vars => StatusApplied'
<1> SUFFICES ASSUME AppliedInv, [Next]_vars PROVE StatusApplied'
  OBVIOUS
<1>0. /\ TypeInv /\ TypeOK /\ CacheApplied /\ LoggedApplied /\ StatusApplied
      /\ status \in [Workers -> Status \cup {NULL}]
      /\ batch \in [Workers -> Batches \cup {<<>>}]
      /\ results \in [Workers -> Seq(Status)]
      /\ applied \in [Keys -> Nat] /\ applied' \in [Keys -> Nat]
      /\ \A k \in Keys : applied'[k] >= applied[k]
  BY AppliedGrows, TypeStep DEF AppliedInv, TypeInv, TypeOK
<1>1. ASSUME NEW q \in Workers, status'[q] = status[q],
             batch'[q] = batch[q], results'[q] = results[q],
             status'[q] \in {"success", "duplicate"}, Key(q)' # NULL
      PROVE  applied'[Key(q)'] > 0
  <2>1. Key(q)' = Key(q)
    BY <1>1 DEF Key, Position
  <2>2. Key(q) \in Keys \cup {NULL}
    BY <1>0, <1>1, KeyType, ExecutorConstants
       DEF TypeInv, Serving, Active, Status
  <2>3. applied[Key(q)] > 0
    BY <1>0, <1>1, <2>1 DEF StatusApplied
  <2> QED
    BY <1>0, <1>1, <2>1, <2>2, <2>3
<1>2. ASSUME NEW w \in Workers, NEW s, status' = [status EXCEPT ![w] = s],
             \A q \in Workers : q # w => batch'[q] = batch[q] /\ results'[q] = results[q],
             s \in {"success", "duplicate"} /\ Key(w)' # NULL => applied'[Key(w)'] > 0
      PROVE  StatusApplied'
  <2>1. status'[w] = s /\ \A q \in Workers : q # w => status'[q] = status[q]
    BY <1>0, <1>2
  <2>2. ASSUME NEW q \in Workers, status'[q] \in {"success", "duplicate"}, Key(q)' # NULL
        PROVE  applied'[Key(q)'] > 0
    <3>1. CASE q = w
      BY <1>2, <2>1, <2>2, <3>1
    <3>2. CASE q # w
      BY <1>1, <1>2, <2>1, <2>2, <3>2
    <3> QED
      BY <3>1, <3>2
  <2> QED
    BY <2>2 DEF StatusApplied
<1>3. ASSUME NEW w \in Workers, status' = [status EXCEPT ![w] = NULL],
             \A q \in Workers : q # w => batch'[q] = batch[q] /\ results'[q] = results[q]
      PROVE  StatusApplied'
  <2>1. NULL \notin {"success", "duplicate"}
    BY ExecutorConstants DEF Status
  <2> QED
    BY <1>2, <1>3, <2>1
<1>4. ASSUME NEW w \in Workers, NEW s, Decide(w, s), UNCHANGED <<batch, results>>,
             s \in {"success", "duplicate"} /\ Key(w) # NULL => applied'[Key(w)] > 0
      PROVE  StatusApplied'
  <2>1. Key(w)' = Key(w)
    BY <1>4 DEF Key, Position
  <2> QED
    BY <1>2, <1>4, <2>1 DEF Decide
<1>5. CASE UNCHANGED <<status, batch, results>>
  BY <1>1, <1>5 DEF StatusApplied
<1>6. ASSUME NEW w \in Workers, Submit(w) PROVE StatusApplied'
  BY <1>0, <1>3, <1>6 DEF Submit, Forget
<1>7. ASSUME NEW w \in Workers, GateRaises(w) \/ Crash(w) PROVE StatusApplied'
  BY <1>0, <1>3, <1>7 DEF GateRaises, Crash, Forget, request
<1>8. ASSUME NEW w \in Workers, NoHandler(w) \/ Emit(w) PROVE StatusApplied'
  <2>1. /\ status' = [status EXCEPT ![w] = NULL]
        /\ batch' = batch
        /\ \E s : results' = [results EXCEPT ![w] = Append(@, s)]
    BY <1>8 DEF NoHandler, Emit, Answer, request
  <2> QED
    BY <1>0, <1>3, <2>1
<1>9. ASSUME NEW w \in Workers, Validate(w) \/ Refuse(w) \/ FailAfterWrite(w)
      PROVE  StatusApplied'
  BY <1>4, <1>5, <1>9 DEF Validate, Refuse, FailAfterWrite, request
<1>10. ASSUME NEW w \in Workers, CheckSeen(w) PROVE StatusApplied'
  <2>1. UNCHANGED <<batch, results, stores>>
    BY <1>10 DEF CheckSeen, request
  <2>2. CASE Key(w) \in Seen(w)
    <3>1. PICK i \in DOMAIN cache[w] : cache[w][i] = Key(w)
      BY <2>2 DEF Seen
    <3>2. applied'[Key(w)] > 0
      BY <1>0, <2>1, <3>1 DEF CacheApplied, stores
    <3>3. PICK s : Decide(w, s)
      BY <1>10, <2>2 DEF CheckSeen
    <3> QED
      BY <1>4, <2>1, <3>2, <3>3
  <2>3. CASE Key(w) \notin Seen(w)
    BY <1>5, <1>10, <2>1, <2>3 DEF CheckSeen
  <2> QED
    BY <2>2, <2>3
<1>11. ASSUME NEW w \in Workers, CheckPersisted(w) PROVE StatusApplied'
  <2>1. UNCHANGED <<batch, results, stores>> /\ Key(w) \in Keys
    BY <1>0, <1>11, KeyType DEF CheckPersisted, request, Active, TypeInv, Serving
  <2>2. CASE Decide(w, "failed")
    BY <1>4, <2>1, <2>2
  <2>3. ASSUME NEW s, Decide(w, s), logged[Key(w)] > 0 PROVE StatusApplied'
    BY <1>0, <1>4, <2>1, <2>3 DEF LoggedApplied, stores
  <2>4. CASE UNCHANGED status
    BY <1>5, <2>1, <2>4
  <2> QED
    BY <1>11, <2>2, <2>3, <2>4 DEF CheckPersisted, Unanswered
<1>12. ASSUME NEW w \in Workers, Succeed(w) PROVE StatusApplied'
  <2>1. Key(w) \in Keys => applied'[Key(w)] > 0
    BY <1>0, <1>12, SucceedCounts
  <2>2. Key(w) \in Keys \cup {NULL}
    BY <1>0, <1>12, SucceedCounts
  <2> QED
    BY <1>4, <1>12, <2>1, <2>2 DEF Succeed, request
<1> QED
  BY <1>5, <1>6, <1>7, <1>8, <1>9, <1>10, <1>11, <1>12 DEF Next, Run, vars

LEMMA AnsweredStep == AppliedInv /\ [Next]_vars => AnsweredMeansApplied'
<1> SUFFICES ASSUME AppliedInv, [Next]_vars PROVE AnsweredMeansApplied'
  OBVIOUS
<1> DEFINE Covered(q, i) ==
             results[q][i] \in {"success", "duplicate"} /\ batch[q][i] # NULL
               => applied[batch[q][i]] > 0
<1>0. /\ TypeInv /\ TypeOK /\ StatusApplied /\ AnsweredMeansApplied
      /\ batch \in [Workers -> Batches \cup {<<>>}]
      /\ results \in [Workers -> Seq(Status)]
      /\ applied \in [Keys -> Nat] /\ applied' \in [Keys -> Nat]
      /\ \A k \in Keys : applied'[k] >= applied[k]
  BY AppliedGrows, TypeStep DEF AppliedInv, TypeInv, TypeOK
<1>1. ASSUME NEW q \in Workers, NEW i \in DOMAIN results[q], Covered(q, i)
      PROVE  results[q][i] \in {"success", "duplicate"} /\ batch[q][i] # NULL
               => applied'[batch[q][i]] > 0
  <2>1. /\ batch[q] \in Seq(Keys \cup {NULL}) /\ results[q] \in Seq(Status)
        /\ Len(results[q]) <= Len(batch[q])
    BY <1>0, ExecutorConstants DEF TypeInv, Serving
  <2>2. batch[q][i] \in Keys \cup {NULL}
    BY <2>1
  <2> QED
    BY <1>0, <1>1, <2>2
<1>2. ASSUME NEW q \in Workers, batch'[q] = batch[q], results'[q] = results[q],
             NEW i \in DOMAIN results'[q]
      PROVE  Covered(q, i)'
  BY <1>0, <1>1, <1>2 DEF AnsweredMeansApplied
<1>3. ASSUME NEW w \in Workers, results' = [results EXCEPT ![w] = <<>>],
             \A q \in Workers : q # w => batch'[q] = batch[q]
      PROVE  AnsweredMeansApplied'
  <2>1. results'[w] = <<>> /\ \A q \in Workers : q # w => results'[q] = results[q]
    BY <1>0, <1>3
  <2>2. ASSUME NEW q \in Workers, NEW i \in DOMAIN results'[q] PROVE Covered(q, i)'
    <3>1. q # w
      BY <2>1, <2>2
    <3> QED
      BY <1>2, <1>3, <2>1, <2>2, <3>1
  <2> QED
    BY <2>2 DEF AnsweredMeansApplied
<1>4. ASSUME NEW w \in Workers, NEW s \in Status, Active(w), Answer(w, s),
             UNCHANGED <<batch, applied>>,
             s \in {"success", "duplicate"} /\ Key(w) # NULL => applied[Key(w)] > 0
      PROVE  AnsweredMeansApplied'
  <2>1. /\ results'[w] = Append(results[w], s)
        /\ \A q \in Workers : q # w => results'[q] = results[q]
    BY <1>0, <1>4, AnswerServes
  <2>2. ASSUME NEW i \in DOMAIN results'[w] PROVE Covered(w, i)'
    <3>1. results[w] \in Seq(Status)
      BY <1>0
    <3>2. CASE i = Position(w)
      BY <1>4, <2>1, <3>1, <3>2 DEF Position, Key
    <3>3. CASE i \in DOMAIN results[w]
      <4>1. results'[w][i] = results[w][i]
        BY <2>1, <3>1, <3>3
      <4> QED
        BY <1>0, <1>4, <3>3, <4>1 DEF AnsweredMeansApplied
    <3> QED
      BY <2>1, <2>2, <3>1, <3>2, <3>3 DEF Position
  <2>3. ASSUME NEW q \in Workers, NEW i \in DOMAIN results'[q] PROVE Covered(q, i)'
    BY <1>2, <1>4, <2>1, <2>2, <2>3
  <2> QED
    BY <2>3 DEF AnsweredMeansApplied
<1>5. CASE UNCHANGED <<batch, results>>
  BY <1>2, <1>5 DEF AnsweredMeansApplied
<1>6. ASSUME NEW w \in Workers, Submit(w) PROVE AnsweredMeansApplied'
  BY <1>0, <1>3, <1>6 DEF Submit, Forget
<1>7. ASSUME NEW w \in Workers, GateRaises(w) \/ Crash(w) PROVE AnsweredMeansApplied'
  BY <1>3, <1>7 DEF GateRaises, Crash, Forget, request
<1>8. ASSUME NEW w \in Workers, NoHandler(w) PROVE AnsweredMeansApplied'
  BY <1>4, <1>8 DEF NoHandler, Active, Status, request, stores
<1>9. ASSUME NEW w \in Workers, Emit(w) PROVE AnsweredMeansApplied'
  <2>1. Active(w) /\ status[w] \in Status
    BY <1>0, <1>9 DEF Emit, Active, TypeInv, TypeOK, Serving
  <2> QED
    BY <1>0, <1>4, <1>9, <2>1 DEF Emit, request, StatusApplied
<1> QED
  BY <1>5, <1>6, <1>7, <1>8, <1>9
     DEF Next, Run, vars, Validate, CheckSeen, CheckPersisted, Refuse,
         FailAfterWrite, Succeed, request

\* A keyed command is answered SUCCESS or DUPLICATE only after its handler has
\* succeeded under that key, for any number of requests, any cache size, and
\* with every read, append and process failing wherever it may.
THEOREM AnsweredAlwaysApplied == Spec => []AnsweredMeansApplied
<1>1. AppliedInv /\ [Next]_vars => AppliedInv'
  <2> SUFFICES ASSUME AppliedInv, [Next]_vars PROVE AppliedInv'
    OBVIOUS
  <2>1. TypeInv'
    BY TypeStep DEF AppliedInv
  <2> QED
    BY <2>1, CacheStep, LoggedStep, StatusStep, AnsweredStep DEF AppliedInv
<1>2. AppliedInv => AnsweredMeansApplied
  BY DEF AppliedInv
<1> QED
  BY <1>1, <1>2, AppliedInit, PTL DEF Spec
-----------------------------------------------------------------------------
(* A position that was written is either answered with success, or broken  *)
(* by its own handler, or is the current command, which has reached one of *)
(* the two and only awaits its event.                                      *)

Wrote == {"success", "broken"}

WroteInv ==
    /\ TypeInv
    /\ \A w \in Workers : \A i \in wrote[w] :
         /\ i \in 1..(Len(results[w]) + 1)
         /\ i = Len(results[w]) + 1 => status[w] \in Wrote
         /\ i \in DOMAIN results[w] => results[w][i] \in Wrote

LEMMA WroteStep == WroteInv /\ [Next]_vars => WroteInv'
<1> SUFFICES ASSUME WroteInv, [Next]_vars PROVE WroteInv'
  OBVIOUS
<1> DEFINE Landed(q) == \A i \in wrote[q] :
             /\ i \in 1..(Len(results[q]) + 1)
             /\ i = Len(results[q]) + 1 => status[q] \in Wrote
             /\ i \in DOMAIN results[q] => results[q][i] \in Wrote
<1>0. /\ TypeInv /\ TypeInv' /\ \A q \in Workers : Landed(q)
      /\ status \in [Workers -> Status \cup {NULL}]
      /\ results \in [Workers -> Seq(Status)]
      /\ wrote \in [Workers -> SUBSET Nat]
  BY TypeStep DEF WroteInv, TypeInv, TypeOK
<1> SUFFICES ASSUME NEW q \in Workers PROVE Landed(q)'
  BY <1>0 DEF WroteInv
<1>1. CASE wrote'[q] = wrote[q] /\ results'[q] = results[q] /\ status'[q] = status[q]
  BY <1>0, <1>1
<1>2. CASE wrote'[q] = {}
  BY <1>2
<1>3. ASSUME NEW w \in Workers, NEW s, Decide(w, s), UNCHANGED <<results, wrote>>,
             pc[w] # "emit"
      PROVE  Landed(q)'
  <2>1. CASE q # w
    <3>1. status'[q] = status[q]
      BY <1>0, <1>3, <2>1 DEF Decide
    <3> QED
      BY <1>1, <1>3, <3>1
  <2>2. CASE q = w
    <3>1. status[q] \notin Wrote
      BY <1>0, <1>3, <2>2, ExecutorConstants DEF TypeInv, Serving, Status, Wrote
    <3> QED
      BY <1>0, <1>3, <3>1
  <2> QED
    BY <2>1, <2>2
<1>4. ASSUME NEW w \in Workers, Forget(w) PROVE Landed(q)'
  <2>1. CASE q = w
    BY <1>0, <1>2, <1>4, <2>1 DEF Forget
  <2>2. CASE q # w
    BY <1>0, <1>1, <1>4, <2>2 DEF Forget
  <2> QED
    BY <2>1, <2>2
<1>5. ASSUME NEW w \in Workers, NEW s \in Status, Active(w), Answer(w, s),
             UNCHANGED <<batch, wrote>>, status[w] \in Wrote => s \in Wrote
      PROVE  Landed(q)'
  <2>1. /\ results'[w] = Append(results[w], s)
        /\ \A p \in Workers : p # w => results'[p] = results[p]
        /\ \A p \in Workers : p # w => status'[p] = status[p]
    BY <1>0, <1>5, AnswerServes DEF Answer
  <2>2. CASE q # w
    BY <1>1, <1>5, <2>1, <2>2
  <2>3. CASE q = w
    <3>1. results[q] \in Seq(Status) /\ Len(results'[q]) = Len(results[q]) + 1
      BY <1>0, <2>1, <2>3
    <3> SUFFICES ASSUME NEW i \in wrote[q]
                 PROVE  /\ i \in 1..(Len(results'[q]) + 1)
                        /\ i = Len(results'[q]) + 1 => status'[q] \in Wrote
                        /\ i \in DOMAIN results'[q] => results'[q][i] \in Wrote
      BY <1>5
    <3>2. CASE i = Len(results[q]) + 1
      BY <1>0, <1>5, <2>1, <2>3, <3>1, <3>2
    <3>3. CASE i \in DOMAIN results[q]
      BY <1>0, <2>1, <2>3, <3>1, <3>3
    <3> QED
      BY <1>0, <3>1, <3>2, <3>3
  <2> QED
    BY <2>2, <2>3
<1>6. ASSUME NEW w \in Workers, Succeed(w) \/ FailAfterWrite(w) PROVE Landed(q)'
  <2>1. CASE q # w
    BY <1>0, <1>1, <1>6, <2>1 DEF Succeed, FailAfterWrite, Decide
  <2>2. CASE q = w
    <3>1. /\ status'[q] \in Wrote /\ results'[q] = results[q]
          /\ wrote'[q] = wrote[q] \cup {Len(results[q]) + 1}
      BY <1>0, <1>6, <2>2 DEF Succeed, FailAfterWrite, Decide, Position, Wrote
    <3>2. results[q] \in Seq(Status)
      BY <1>0
    <3> QED
      BY <1>0, <3>1, <3>2
  <2> QED
    BY <2>1, <2>2
<1>7. ASSUME NEW w \in Workers, Submit(w) \/ GateRaises(w) \/ Crash(w)
      PROVE  Landed(q)'
  BY <1>4, <1>7 DEF Submit, GateRaises, Crash
<1>8. ASSUME NEW w \in Workers,
             Validate(w) \/ CheckSeen(w) \/ CheckPersisted(w) \/ Refuse(w)
      PROVE  Landed(q)'
  <2>1. UNCHANGED <<results, wrote>> /\ pc[w] # "emit"
    BY <1>8 DEF Validate, CheckSeen, CheckPersisted, Refuse
  <2>2. UNCHANGED status \/ \E s : Decide(w, s)
    BY <1>8 DEF Validate, CheckSeen, CheckPersisted, Refuse, Unanswered
  <2> QED
    BY <1>1, <1>3, <2>1, <2>2
<1>9. ASSUME NEW w \in Workers, NoHandler(w) PROVE Landed(q)'
  <2>1. status[w] \notin Wrote
    BY <1>0, <1>9, ExecutorConstants DEF NoHandler, TypeInv, Serving, Status, Wrote
  <2> QED
    BY <1>5, <1>9, <2>1 DEF NoHandler, Active, Status, request
<1>10. ASSUME NEW w \in Workers, Emit(w) PROVE Landed(q)'
  <2>1. Active(w) /\ status[w] \in Status
    BY <1>0, <1>10 DEF Emit, Active, TypeInv, TypeOK, Serving
  <2> QED
    BY <1>5, <1>10, <2>1 DEF Emit, request
<1> QED
  BY <1>1, <1>6, <1>7, <1>8, <1>9, <1>10 DEF Next, Run, vars

\* A command answered FAILED or REJECTED has written nothing unless its own
\* handler raised after a write: no stage after the handler, its audit event
\* included, can turn a write that landed into a failure.
THEOREM FailedNeverWrote == Spec => []FailedWroteNothing
<1>1. Init => WroteInv
  BY TypeInit DEF WroteInv, Init
<1>2. WroteInv => FailedWroteNothing
  BY DEF WroteInv, FailedWroteNothing, Wrote
<1> QED
  BY <1>1, <1>2, WroteStep, PTL DEF Spec

-----------------------------------------------------------------------------
(* How often a key runs.  Every success is logged, lost, or awaits its      *)
(* event; and once one is logged, only the workers that had looked before   *)
(* can add another.                                                         *)

Due(k) == {w \in Workers : status[w] = "success" /\ Key(w) = k}
Running(k) == {w \in Workers : pc[w] = "handle" /\ Key(w) = k}
Under(k) == Due(k) \cup Running(k)

Accounts(k) ==
    /\ applied[k] = logged[k] + lost[k] + Cardinality(Due(k))
    /\ logged[k] + Cardinality(Under(k)) <= Cardinality(Workers)
    /\ ~HasLog => logged[k] = 0

CountInv == TypeInv /\ \A k \in Keys : Accounts(k)

LEMMA SomeWorkers ==
    ASSUME NEW S, S \subseteq Workers
    PROVE  IsFiniteSet(S) /\ Cardinality(S) \in Nat /\ Cardinality(S) <= Cardinality(Workers)
           /\ Cardinality(Workers) \in Nat
BY FS_Subset, FS_CardinalityType, ExecutorConstants

\* One worker comes or goes.
LEMMA OneMoves ==
    ASSUME NEW S, NEW T, S \subseteq Workers, T \subseteq Workers, NEW w,
           S \ {w} = T \ {w}
    PROVE  /\ w \in S /\ w \notin T => Cardinality(T) = Cardinality(S) - 1
           /\ w \notin S /\ w \in T => Cardinality(T) = Cardinality(S) + 1
           /\ (w \in S <=> w \in T) => T = S
<1>1. IsFiniteSet(S) /\ IsFiniteSet(T) /\ Cardinality(S) \in Nat /\ Cardinality(T) \in Nat
  BY SomeWorkers
<1>2. ASSUME w \in S, w \notin T
      PROVE  Cardinality(T) = Cardinality(S) - 1
  <2>1. T = S \ {w}
    BY <1>2
  <2> QED
    BY <1>1, <1>2, <2>1, FS_RemoveElement
<1>3. ASSUME w \notin S, w \in T
      PROVE  Cardinality(T) = Cardinality(S) + 1
  <2>1. T = S \cup {w}
    BY <1>3
  <2> QED
    BY <1>1, <1>3, <2>1, FS_AddElement
<1>4. ASSUME w \in S <=> w \in T
      PROVE  T = S
  BY <1>4
<1> QED
  BY <1>2, <1>3, <1>4

\* Only the worker that moves comes or goes.
LEMMA OthersCounted ==
    ASSUME NEW w \in Workers, NEW k,
           \A q \in Workers : q # w =>
             /\ pc'[q] = pc[q] /\ status'[q] = status[q]
             /\ batch'[q] = batch[q] /\ results'[q] = results[q]
    PROVE  /\ Due(k) \ {w} = Due(k)' \ {w} /\ Under(k) \ {w} = Under(k)' \ {w}
           /\ Due(k) \subseteq Workers /\ Due(k)' \subseteq Workers
           /\ Under(k) \subseteq Workers /\ Under(k)' \subseteq Workers
BY DEF Due, Running, Under, Key, Position

LEMMA CountKept ==
    ASSUME CountInv, TypeInv', NEW w \in Workers, NEW k \in Keys,
           \A q \in Workers : q # w =>
             /\ pc'[q] = pc[q] /\ status'[q] = status[q]
             /\ batch'[q] = batch[q] /\ results'[q] = results[q],
           applied'[k] = applied[k], logged'[k] = logged[k], lost'[k] = lost[k],
           w \notin Due(k), w \notin Due(k)', w \in Running(k)' => w \in Running(k) \/ logged[k] = 0
    PROVE  Accounts(k)'
<1>1. /\ Due(k) \ {w} = Due(k)' \ {w} /\ Under(k) \ {w} = Under(k)' \ {w}
      /\ Due(k) \subseteq Workers /\ Due(k)' \subseteq Workers
      /\ Under(k) \subseteq Workers /\ Under(k)' \subseteq Workers
  BY OthersCounted
<1>2. Due(k)' = Due(k)
  BY <1>1, OneMoves
<1>3. logged[k] + Cardinality(Under(k)') <= Cardinality(Workers)
  <2>1. /\ logged[k] \in Nat /\ Cardinality(Under(k)) \in Nat /\ Cardinality(Under(k)') \in Nat
        /\ Cardinality(Under(k)') <= Cardinality(Workers) /\ Cardinality(Workers) \in Nat
    BY <1>1, SomeWorkers DEF CountInv, TypeInv, TypeOK
  <2>2. CASE logged[k] = 0
    BY <2>1, <2>2
  <2>3. CASE logged[k] # 0
    <3>1. w \in Under(k)' => w \in Under(k)
      BY <2>3 DEF Under
    <3>2. Cardinality(Under(k)') <= Cardinality(Under(k))
      BY <1>1, <2>1, <3>1, OneMoves
    <3> QED
      BY <2>1, <3>2 DEF CountInv, Accounts
  <2> QED
    BY <2>2, <2>3
<1> QED
  BY <1>2, <1>3 DEF CountInv, Accounts

\* An event lands, is lost, or dies with its process.
LEMMA CountSettled ==
    ASSUME CountInv, TypeInv', NEW w \in Workers, NEW k \in Keys, w \in Due(k),
           \A q \in Workers : q # w =>
             /\ pc'[q] = pc[q] /\ status'[q] = status[q]
             /\ batch'[q] = batch[q] /\ results'[q] = results[q],
           applied'[k] = applied[k], w \notin Due(k)', w \notin Running(k)',
           \/ HasLog /\ logged'[k] = logged[k] + 1 /\ lost'[k] = lost[k]
           \/ logged'[k] = logged[k] /\ lost'[k] = lost[k] + 1
    PROVE  Accounts(k)'
<1>1. /\ Due(k) \ {w} = Due(k)' \ {w} /\ Under(k) \ {w} = Under(k)' \ {w}
      /\ Due(k) \subseteq Workers /\ Due(k)' \subseteq Workers
      /\ Under(k) \subseteq Workers /\ Under(k)' \subseteq Workers
  BY OthersCounted
<1>2. Cardinality(Due(k)') = Cardinality(Due(k)) - 1
  BY <1>1, OneMoves
<1>3. Cardinality(Under(k)') = Cardinality(Under(k)) - 1
  <2>1. w \in Under(k) /\ w \notin Under(k)'
    BY DEF Under
  <2> QED
    BY <1>1, <2>1, OneMoves
<1>4. /\ logged[k] \in Nat /\ lost[k] \in Nat /\ applied[k] \in Nat
      /\ Cardinality(Due(k)) \in Nat /\ Cardinality(Under(k)) \in Nat
      /\ Cardinality(Workers) \in Nat
  BY <1>1, SomeWorkers DEF CountInv, TypeInv, TypeOK
<1> QED
  BY <1>2, <1>3, <1>4 DEF CountInv, Accounts

LEMMA CountSucceeded ==
    ASSUME CountInv, TypeInv', NEW w \in Workers, NEW k \in Keys,
           w \in Running(k), w \notin Due(k), w \in Due(k)',
           \A q \in Workers : q # w =>
             /\ pc'[q] = pc[q] /\ status'[q] = status[q]
             /\ batch'[q] = batch[q] /\ results'[q] = results[q],
           applied'[k] = applied[k] + 1, logged'[k] = logged[k], lost'[k] = lost[k]
    PROVE  Accounts(k)'
<1>1. /\ Due(k) \ {w} = Due(k)' \ {w} /\ Under(k) \ {w} = Under(k)' \ {w}
      /\ Due(k) \subseteq Workers /\ Due(k)' \subseteq Workers
      /\ Under(k) \subseteq Workers /\ Under(k)' \subseteq Workers
  BY OthersCounted
<1>2. Cardinality(Due(k)') = Cardinality(Due(k)) + 1
  BY <1>1, OneMoves
<1>3. Under(k)' = Under(k)
  BY <1>1 DEF Under
<1>4. /\ logged[k] \in Nat /\ lost[k] \in Nat /\ applied[k] \in Nat
      /\ Cardinality(Due(k)) \in Nat
  BY <1>1, SomeWorkers DEF CountInv, TypeInv, TypeOK
<1> QED
  BY <1>2, <1>3, <1>4 DEF CountInv, Accounts

\* What a stage does to the worker at it.
LEMMA OthersStay ==
    ASSUME TypeInv, NEW w \in Workers, Submit(w) \/ Run(w) \/ Crash(w)
    PROVE  \A q \in Workers : q # w =>
             /\ pc'[q] = pc[q] /\ status'[q] = status[q] /\ cache'[q] = cache[q]
             /\ batch'[q] = batch[q] /\ results'[q] = results[q]
<1>1. TypeOK
  BY DEF TypeInv
<1>2. CASE Submit(w) \/ GateRaises(w) \/ Crash(w)
  BY <1>1, <1>2 DEF Submit, GateRaises, Crash, Forget, Goto, request, TypeOK
<1>3. CASE Validate(w) \/ Refuse(w) \/ FailAfterWrite(w) \/ Succeed(w)
  BY <1>1, <1>3 DEF Validate, Refuse, FailAfterWrite, Succeed, Decide, Goto, request, TypeOK
<1>4. CASE CheckSeen(w) \/ CheckPersisted(w)
  BY <1>1, <1>4 DEF CheckSeen, CheckPersisted, Unanswered, Decide, Goto, request, TypeOK
<1>5. CASE NoHandler(w) \/ Emit(w)
  BY <1>1, <1>5 DEF NoHandler, Emit, Answer, Goto, request, TypeOK
<1> QED
  BY <1>2, <1>3, <1>4, <1>5 DEF Run

\* The status of a worker is a success only while its event is due.
LEMMA WhereDue ==
    ASSUME TypeInv, NEW w \in Workers
    PROVE  /\ status[w] = "success" => pc[w] = "emit"
           /\ \A k : w \in Due(k) => pc[w] = "emit" /\ status[w] = "success"
           /\ \A k : w \in Running(k) => pc[w] = "handle"
BY ExecutorConstants DEF TypeInv, Serving, Status, Due, Running

LEMMA CountStep == CountInv /\ [Next]_vars => CountInv'
<1> SUFFICES ASSUME CountInv, [Next]_vars PROVE CountInv'
  OBVIOUS
<1>1. TypeInv /\ TypeOK /\ TypeInv'
  BY TypeStep DEF CountInv, TypeInv
<1> SUFFICES ASSUME NEW k \in Keys PROVE Accounts(k)'
  BY <1>1 DEF CountInv
<1>2. CASE UNCHANGED vars
  BY <1>2 DEF vars, CountInv, Accounts, Due, Running, Under, Key, Position
<1>3. ASSUME NEW w \in Workers, Submit(w) \/ Run(w) \/ Crash(w)
      PROVE  Accounts(k)'
  <2>1. \A q \in Workers : q # w =>
             /\ pc'[q] = pc[q] /\ status'[q] = status[q]
             /\ batch'[q] = batch[q] /\ results'[q] = results[q]
    BY <1>1, <1>3, OthersStay
  <2>2. /\ \A j : w \in Due(j) => pc[w] = "emit" /\ status[w] = "success"
        /\ \A j : w \in Due(j)' => pc'[w] = "emit" /\ status'[w] = "success"
        /\ \A j : w \in Running(j)' => pc'[w] = "handle"
        /\ status'[w] = "success" => pc'[w] = "emit"
    <3>1. status[w] = "success" => pc[w] = "emit"
      BY <1>1, WhereDue
    <3>2. status'[w] = "success" => pc'[w] = "emit"
      BY <1>1, ExecutorConstants DEF TypeInv, Serving, Status
    <3>3. /\ \A j : w \in Due(j) => status[w] = "success"
          /\ \A j : w \in Due(j)' => status'[w] = "success"
          /\ \A j : w \in Running(j)' => pc'[w] = "handle"
      BY DEF Due, Running
    <3> QED
      BY <3>1, <3>2, <3>3
  <2>3. CASE Submit(w) \/ Validate(w) \/ GateRaises(w) \/ Refuse(w) \/ FailAfterWrite(w) \/ NoHandler(w)
    <3>1. UNCHANGED stores /\ pc[w] # "emit" /\ pc'[w] # "handle" /\ status'[w] # "success"
      BY <1>1, <2>3, ExecutorConstants
         DEF Submit, Validate, GateRaises, Refuse, FailAfterWrite, NoHandler, Forget, Goto, Decide,
             Answer, TypeOK, TypeInv, Serving, Status
    <3> QED
      BY <2>1, <2>2, <3>1, CountKept, <1>1 DEF stores
  <2>4. CASE CheckSeen(w)
    <3>1. UNCHANGED stores /\ pc[w] = "check" /\ status'[w] # "success"
          /\ (pc'[w] = "handle" => Key(w) = NULL \/ ~HasLog) /\ Key(w)' = Key(w)
      <4>1. UNCHANGED stores /\ pc[w] = "check" /\ Key(w)' = Key(w) /\ status[w] = NULL
        BY <1>1, <2>4 DEF CheckSeen, request, Key, Position, TypeInv, Serving
      <4>2. CASE Key(w) \in Seen(w)
        <5>1. PICK s \in ReplayAnswers(Key(w)) : Decide(w, s)
          BY <2>4, <4>2 DEF CheckSeen
        <5>2. pc'[w] = "emit" /\ status'[w] = s /\ s # "success"
          BY <1>1, <5>1 DEF Decide, Goto, TypeOK, ReplayAnswers
        <5> QED
          BY <4>1, <5>2
      <4>3. CASE Key(w) \notin Seen(w)
        <5>1. /\ Goto(w, IF Key(w) # NULL /\ HasLog THEN "persisted" ELSE "handle")
              /\ UNCHANGED status
          BY <2>4, <4>3 DEF CheckSeen
        <5>2. pc'[w] = IF Key(w) # NULL /\ HasLog THEN "persisted" ELSE "handle"
          BY <1>1, <5>1 DEF Goto, TypeOK
        <5>3. NULL # "success"
          BY ExecutorConstants DEF Status
        <5> QED
          BY <4>1, <5>1, <5>2, <5>3
      <4> QED
        BY <4>2, <4>3
    <3>2. w \in Running(k)' => logged[k] = 0
      BY <3>1, ExecutorConstants DEF Running, CountInv, Accounts
    <3> QED
      BY <2>1, <2>2, <3>1, <3>2, CountKept, <1>1 DEF stores
  <2>5. CASE CheckPersisted(w)
    <3>1. UNCHANGED stores /\ pc[w] = "persisted" /\ status'[w] # "success"
          /\ (pc'[w] = "handle" => logged[Key(w)] = 0) /\ Key(w)' = Key(w)
      <4>1. UNCHANGED stores /\ pc[w] = "persisted" /\ Key(w)' = Key(w) /\ status[w] = NULL
        BY <1>1, <2>5 DEF CheckPersisted, request, Key, Position, TypeInv, Serving
      <4>2. CASE \E s \in {"rejected", "failed", "duplicate"} : Decide(w, s)
        <5>1. PICK s \in {"rejected", "failed", "duplicate"} : Decide(w, s)
          BY <4>2
        <5>2. pc'[w] = "emit" /\ status'[w] = s
          BY <1>1, <5>1 DEF Decide, Goto, TypeOK
        <5> QED
          BY <4>1, <5>2
      <4>3. CASE logged[Key(w)] = 0 /\ Goto(w, "handle") /\ UNCHANGED status
        <5>1. NULL # "success"
          BY ExecutorConstants DEF Status
        <5> QED
          BY <4>1, <4>3, <5>1
      <4> QED
        BY <2>5, <4>2, <4>3 DEF CheckPersisted, Unanswered, ReplayAnswers
    <3>2. w \in Running(k)' => logged[k] = 0
      BY <3>1 DEF Running
    <3> QED
      BY <2>1, <2>2, <3>1, <3>2, CountKept, <1>1 DEF stores
  <2>6. CASE Succeed(w)
    <3>1. /\ pc[w] = "handle" /\ pc'[w] = "emit" /\ status'[w] = "success" /\ Key(w)' = Key(w)
          /\ logged' = logged /\ lost' = lost /\ applied' = Counted(applied, w)
      BY <1>1, <2>6 DEF Succeed, Goto, Decide, request, TypeOK, Key, Position
    <3>2. applied'[k] = IF k = Key(w) THEN applied[k] + 1 ELSE applied[k]
      <4>1. Key(w) \in Keys \cup {NULL}
        BY <1>1, <3>1, KeyType DEF Active
      <4> QED
        BY <1>1, <3>1, <4>1, CountedType DEF TypeOK
    <3>3. CASE Key(w) = k
      <4>1. w \in Running(k) /\ w \notin Due(k) /\ w \in Due(k)'
        BY <2>2, <3>1, <3>3 DEF Running, Due
      <4> QED
        BY <1>1, <2>1, <3>1, <3>2, <3>3, <4>1, CountSucceeded
    <3>4. CASE Key(w) # k
      <4>1. w \notin Due(k) /\ w \notin Due(k)' /\ w \notin Running(k)'
        BY <2>2, <3>1, <3>4 DEF Running, Due
      <4> QED
        BY <1>1, <2>1, <3>1, <3>2, <3>4, <4>1, CountKept
    <3> QED
      BY <3>3, <3>4
  <2>7. CASE Emit(w) \/ Crash(w)
    <3>1. /\ pc'[w] # "emit" /\ pc'[w] # "handle" /\ applied' = applied
          /\ status[w] = "success" => pc[w] = "emit"
          /\ pc[w] \notin {"idle", "done"}
      BY <1>1, <2>7, WhereDue DEF Emit, Crash, Answer, Forget, Goto, request, TypeOK
    <3>2. Key(w) \in Keys \cup {NULL}
      BY <1>1, <3>1, KeyType DEF Active
    <3>3. w \notin Due(k)' /\ w \notin Running(k)'
      BY <2>2, <3>1
    <3>4. CASE status[w] = "success" /\ Key(w) = k
      <4>1. w \in Due(k)
        BY <3>4 DEF Due
      <4>2. \/ HasLog /\ logged' = Counted(logged, w) /\ lost' = lost
            \/ logged' = logged /\ lost' = Counted(lost, w)
        BY <2>7, <3>4 DEF Emit, Crash
      <4>3. Counted(logged, w)[k] = logged[k] + 1 /\ Counted(lost, w)[k] = lost[k] + 1
        <5>1. logged \in [Keys -> Nat] /\ lost \in [Keys -> Nat]
          BY <1>1 DEF TypeOK
        <5>2. Counted(logged, w)[k] = IF k = Key(w) THEN logged[k] + 1 ELSE logged[k]
          BY <3>2, <5>1, CountedType
        <5>3. Counted(lost, w)[k] = IF k = Key(w) THEN lost[k] + 1 ELSE lost[k]
          BY <3>2, <5>1, CountedType
        <5> QED
          BY <3>4, <5>2, <5>3
      <4>4. \/ HasLog /\ logged'[k] = logged[k] + 1 /\ lost'[k] = lost[k]
            \/ logged'[k] = logged[k] /\ lost'[k] = lost[k] + 1
        BY <4>2, <4>3
      <4> QED
        BY <1>1, <2>1, <3>1, <3>3, <4>1, <4>4, CountSettled
    <3>5. CASE ~(status[w] = "success" /\ Key(w) = k)
      <4>1. w \notin Due(k)
        BY <3>5 DEF Due
      <4>2. /\ logged' = logged \/ (status[w] = "success" /\ logged' = Counted(logged, w))
            /\ lost' = lost \/ (status[w] = "success" /\ lost' = Counted(lost, w))
        BY <2>7 DEF Emit, Crash
      <4>3. logged'[k] = logged[k] /\ lost'[k] = lost[k]
        <5>1. logged \in [Keys -> Nat] /\ lost \in [Keys -> Nat]
          BY <1>1 DEF TypeOK
        <5>2. CASE status[w] # "success"
          BY <4>2, <5>2
        <5>3. CASE Key(w) # k
          <6>1. Counted(logged, w)[k] = IF k = Key(w) THEN logged[k] + 1 ELSE logged[k]
            BY <3>2, <5>1, CountedType
          <6>2. Counted(lost, w)[k] = IF k = Key(w) THEN lost[k] + 1 ELSE lost[k]
            BY <3>2, <5>1, CountedType
          <6> QED
            BY <4>2, <5>3, <6>1, <6>2
        <5> QED
          BY <3>5, <5>2, <5>3
      <4> QED
        BY <1>1, <2>1, <3>1, <3>3, <4>1, <4>3, CountKept
    <3> QED
      BY <3>4, <3>5
  <2> QED
    BY <1>3, <2>3, <2>4, <2>5, <2>6, <2>7 DEF Run
<1> QED
  BY <1>2, <1>3 DEF Next

-----------------------------------------------------------------------------
(* What an executor remembers.  A key that succeeded n commands ago is in   *)
(* the cache unless CacheSize commands have come since.                     *)

Cached(c, k, n) ==
    \/ n >= CacheSize
    \/ \E m \in DOMAIN c : c[m] = k /\ Len(c) - m <= n

\* One more command is behind, and the cache has changed with it.
Ages(c, d) == \A k \in Keys, n \in Nat : Cached(c, k, n) => Cached(d, k, n + 1)

\* The commands of a request whose status is known, and their statuses.
Reach(w) == Len(results[w]) + (IF pc[w] = "emit" THEN 1 ELSE 0)
Past(w, i) == IF i <= Len(results[w]) THEN results[w][i] ELSE status[w]
Ran(w, i) == i \in 1..Reach(w) /\ Past(w, i) = "success" /\ batch[w][i] # NULL

Remembers(w) ==
    \A i \in 1..Reach(w) : Ran(w, i) => Cached(cache[w], batch[w][i], Reach(w) - i)

RanAgain(w) ==
    \A i, j \in 1..Reach(w) :
        Ran(w, i) /\ Ran(w, j) /\ i < j /\ batch[w][i] = batch[w][j]
          => lost[batch[w][i]] > 0 /\ j - i > CacheSize

Settled(w) ==
    \A i \in 1..Len(results[w]) :
        Ran(w, i) => logged[batch[w][i]] > 0 \/ lost[batch[w][i]] > 0

\* What the checks have found when the handler is about to run.
Looked(w) ==
    /\ pc[w] \in {"persisted", "handle"} /\ Key(w) # NULL => Key(w) \notin Seen(w)
    /\ pc[w] = "handle" /\ Key(w) # NULL =>
         \A i \in 1..Reach(w) : Ran(w, i) /\ batch[w][i] = Key(w) => lost[Key(w)] > 0

OnceOf(w) == Remembers(w) /\ RanAgain(w) /\ Settled(w) /\ Looked(w)

OnceInv == CountInv /\ \A w \in Workers : OnceOf(w)

LEMMA StayAges ==
    ASSUME NEW c \in Seq(Keys)
    PROVE  Ages(c, c)
BY ExecutorConstants DEF Ages, Cached

LEMMA RecordedAges ==
    ASSUME NEW c \in Seq(Keys), Len(c) <= CacheSize, NEW k \in Keys
    PROVE  Ages(c, Recorded(c, k)) /\ Cached(Recorded(c, k), k, 0)
<1> PICK d : d = Recorded(c, k)
  OBVIOUS
<1>1. CASE Len(c) < CacheSize
  <2>1. d = Append(c, k)
    BY <1>1 DEF Recorded
  <2>2. d \in Seq(Keys) /\ Len(d) = Len(c) + 1 /\ d[Len(d)] = k
        /\ \A m \in 1..Len(c) : d[m] = c[m]
    BY <2>1
  <2>3. Len(c) \in Nat /\ DOMAIN d = 1..Len(d) /\ DOMAIN c = 1..Len(c)
    BY <2>2
  <2>4. Cached(d, k, 0)
    BY <2>2, <2>3 DEF Cached
  <2>5. ASSUME NEW j \in Keys, NEW n \in Nat, Cached(c, j, n)
        PROVE  Cached(d, j, n + 1)
    <3>1. CASE n >= CacheSize
      BY <3>1, ExecutorConstants DEF Cached
    <3>2. CASE \E m \in DOMAIN c : c[m] = j /\ Len(c) - m <= n
      <4>1. PICK m \in DOMAIN c : c[m] = j /\ Len(c) - m <= n
        BY <3>2
      <4>2. m \in DOMAIN d /\ d[m] = j /\ Len(d) - m <= n + 1
        BY <2>2, <2>3, <4>1
      <4> QED
        BY <4>2 DEF Cached
    <3> QED
      BY <2>5, <3>1, <3>2 DEF Cached
  <2> QED
    BY <2>4, <2>5 DEF Ages
<1>2. CASE ~(Len(c) < CacheSize)
  <2>1. Len(c) \in Nat \ {0} /\ Len(c) = CacheSize /\ c # <<>> /\ DOMAIN c = 1..Len(c)
    BY <1>2, ExecutorConstants
  <2>2. /\ Tail(c) \in Seq(Keys) /\ Len(Tail(c)) = Len(c) - 1
        /\ \A m \in 1..(Len(c) - 1) : Tail(c)[m] = c[m + 1]
    BY <2>1
  <2>3. d = Append(Tail(c), k)
    BY <1>2 DEF Recorded
  <2>4. d \in Seq(Keys) /\ Len(d) = Len(c) /\ d[Len(d)] = k
        /\ \A m \in 1..(Len(c) - 1) : d[m] = c[m + 1]
    BY <2>1, <2>2, <2>3
  <2>5. DOMAIN d = 1..Len(d)
    BY <2>4
  <2>6. Cached(d, k, 0)
    BY <2>1, <2>4, <2>5 DEF Cached
  <2>7. ASSUME NEW j \in Keys, NEW n \in Nat, Cached(c, j, n)
        PROVE  Cached(d, j, n + 1)
    <3>1. CASE n + 1 >= CacheSize
      BY <3>1 DEF Cached
    <3>2. CASE ~(n + 1 >= CacheSize)
      <4>0. CacheSize \in Nat
        BY ExecutorConstants
      <4>1. PICK m \in DOMAIN c : c[m] = j /\ Len(c) - m <= n
        BY <2>7, <3>2, <4>0 DEF Cached
      <4>2. m \in 2..Len(c)
        BY <2>1, <3>2, <4>0, <4>1
      <4>3. m - 1 \in 1..(Len(c) - 1) /\ m - 1 + 1 = m
        BY <2>1, <4>2
      <4>4. m - 1 \in DOMAIN d /\ d[m - 1] = j /\ Len(d) - (m - 1) <= n + 1
        BY <2>1, <2>4, <2>5, <4>1, <4>2, <4>3
      <4> QED
        BY <4>4 DEF Cached
    <3> QED
      BY <3>1, <3>2
  <2> QED
    BY <2>6, <2>7 DEF Ages
<1> QED
  BY <1>1, <1>2

\* Moving one key to the end moves every other by at most one.
LEMMA MovedAges ==
    ASSUME NEW c \in Seq(Keys), NEW k \in Keys, NEW i \in DOMAIN c, c[i] = k
    PROVE  Ages(c, MovedToEnd(c, k))
<1> DEFINE h == CHOOSE j \in DOMAIN c : c[j] = k
           front == SubSeq(c, 1, h - 1)
           back == SubSeq(c, h + 1, Len(c))
<1>0. h \in 1..Len(c) /\ c[h] = k
  OBVIOUS
<1>1. h \in 1..Len(c) /\ c[h] = k /\ Len(c) \in Nat /\ DOMAIN c = 1..Len(c)
  BY <1>0
<1> HIDE DEF h
<1>2. /\ front \in Seq(Keys) /\ Len(front) = h - 1
      /\ \A m \in 1..(h - 1) : front[m] = c[m]
  BY <1>0
<1>3. /\ back \in Seq(Keys) /\ Len(back) = Len(c) - h
      /\ \A m \in 1..(Len(c) - h) : back[m] = c[m + h]
  BY <1>0
<1>4. MovedToEnd(c, k) = front \o back \o <<k>>
  BY DEF MovedToEnd, h
<1> HIDE DEF front, back
<1> DEFINE both == front \o back
<1>5. both \in Seq(Keys) /\ Len(both) = Len(c) - 1
  <2>1. both \in Seq(Keys) /\ Len(both) = Len(front) + Len(back)
    BY <1>2, <1>3, ConcatProperties
  <2> QED
    BY <1>1, <1>2, <1>3, <2>1
<1>6. \A m \in 1..(h - 1) : both[m] = c[m]
  BY <1>1, <1>2, <1>3
<1>7. ASSUME NEW m \in (h + 1)..Len(c)
      PROVE  both[m - 1] = c[m]
  <2>1. m - 1 - (h - 1) \in 1..(Len(c) - h) /\ m - 1 - (h - 1) + h = m
    BY <1>1
  <2>2. both[m - 1] = back[m - 1 - (h - 1)]
    BY <1>1, <1>2, <1>3
  <2> QED
    BY <1>3, <2>1, <2>2
<1> HIDE DEF both
<1>8. MovedToEnd(c, k) = Append(both, k)
  <2>1. MovedToEnd(c, k) = both \o <<k>>
    BY <1>4 DEF both
  <2> QED
    BY <1>5, <2>1
<1> PICK d : d = MovedToEnd(c, k)
  OBVIOUS
<1>11. k \in Keys /\ Len(both) + 1 = Len(c)
  BY <1>1, <1>5
<1>9. /\ d \in Seq(Keys) /\ Len(d) = Len(c) /\ d[Len(c)] = k /\ DOMAIN d = 1..Len(c)
      /\ \A m \in 1..(Len(c) - 1) : d[m] = both[m]
  <2>1. /\ d \in Seq(Keys) /\ Len(d) = Len(both) + 1 /\ d[Len(both) + 1] = k
        /\ \A m \in 1..Len(both) : d[m] = both[m]
    BY <1>5, <1>8
  <2>2. Len(both) = Len(c) - 1
    BY <1>5
  <2> QED
    BY <1>11, <2>1, <2>2
<1>10. ASSUME NEW j \in Keys, NEW n \in Nat, Cached(c, j, n)
       PROVE  Cached(d, j, n + 1)
  <2>0. CacheSize \in Nat
    BY ExecutorConstants
  <2>1. CASE n >= CacheSize
    BY <2>0, <2>1 DEF Cached
  <2>2. CASE \E m \in DOMAIN c : c[m] = j /\ Len(c) - m <= n
    <3>1. PICK m \in DOMAIN c : c[m] = j /\ Len(c) - m <= n
      BY <2>2
    <3>2. CASE m = h
      <4>1. Len(c) \in DOMAIN d /\ d[Len(c)] = j /\ Len(d) - Len(c) <= n + 1
        BY <1>1, <1>9, <3>1, <3>2
      <4> QED
        BY <4>1 DEF Cached
    <3>3. CASE m < h
      <4>1. m \in DOMAIN d /\ d[m] = j /\ Len(d) - m <= n + 1
        BY <1>1, <1>6, <1>9, <3>1, <3>3
      <4> QED
        BY <4>1 DEF Cached
    <3>4. CASE m > h
      <4>1. m - 1 \in DOMAIN d /\ d[m - 1] = j /\ Len(d) - (m - 1) <= n + 1
        BY <1>1, <1>7, <1>9, <3>1, <3>4
      <4> QED
        BY <4>1 DEF Cached
    <3> QED
      BY <1>1, <3>1, <3>2, <3>3, <3>4
  <2> QED
    BY <1>10, <2>1, <2>2 DEF Cached
<1> QED
  BY <1>10 DEF Ages

LEMMA ReachType ==
    ASSUME TypeInv, NEW w \in Workers
    PROVE  /\ Reach(w) \in Nat /\ Len(results[w]) \in Nat /\ CacheSize \in Nat \ {0}
           /\ pc[w] = "emit" => Reach(w) = Len(results[w]) + 1
           /\ pc[w] # "emit" => Reach(w) = Len(results[w])
           /\ \A i \in 1..Reach(w) : batch[w][i] \in Keys \cup {NULL} /\ i \in Nat \ {0}
           /\ \A i : Ran(w, i) => i \in 1..Reach(w) /\ batch[w][i] \in Keys /\ batch[w][i] # NULL
<1>1. results[w] \in Seq(Status) /\ Serving(w) /\ batch[w] \in Batches \cup {<<>>}
  BY DEF TypeInv, TypeOK
<1>2. Len(results[w]) \in Nat /\ CacheSize \in Nat \ {0}
  BY <1>1, ExecutorConstants
<1>3. Reach(w) \in Nat
      /\ (pc[w] = "emit" => Reach(w) = Len(results[w]) + 1)
      /\ (pc[w] # "emit" => Reach(w) = Len(results[w]))
  <2>1. CASE pc[w] = "emit"
    BY <1>2, <2>1 DEF Reach
  <2>2. CASE pc[w] # "emit"
    BY <1>2, <2>2 DEF Reach
  <2> QED
    BY <2>1, <2>2
<1>4. batch[w] \in Seq(Keys \cup {NULL})
  <2>1. CASE batch[w] = <<>>
    BY <2>1
  <2>2. CASE batch[w] \in Batches
    BY <2>2, ExecutorConstants
  <2> QED
    BY <1>1, <2>1, <2>2
<1>5. Reach(w) <= Len(batch[w]) /\ Len(batch[w]) \in Nat
  <2>1. Len(batch[w]) \in Nat
    BY <1>4
  <2>2. CASE pc[w] = "emit"
    BY <1>1, <1>2, <1>3, <2>1, <2>2 DEF Serving, Active
  <2>3. CASE pc[w] # "emit"
    BY <1>1, <1>3, <2>1, <2>3 DEF Serving
  <2> QED
    BY <2>1, <2>2, <2>3
<1>6. \A i \in 1..Reach(w) : batch[w][i] \in Keys \cup {NULL} /\ i \in Nat \ {0}
  BY <1>3, <1>4, <1>5
<1>7. \A i : Ran(w, i) => i \in 1..Reach(w) /\ batch[w][i] \in Keys /\ batch[w][i] # NULL
  BY <1>6 DEF Ran
<1> QED
  BY <1>2, <1>3, <1>6, <1>7

\* No success and no loss is forgotten.
Grows ==
    /\ logged \in [Keys -> Nat] /\ lost \in [Keys -> Nat]
    /\ logged' \in [Keys -> Nat] /\ lost' \in [Keys -> Nat]
    /\ \A k \in Keys : logged[k] <= logged'[k] /\ lost[k] <= lost'[k]

LEMMA StoresGrow == TypeInv /\ TypeInv' /\ [Next]_vars => Grows
<1> SUFFICES ASSUME TypeInv, TypeInv', [Next]_vars PROVE Grows
  OBVIOUS
<1>1. /\ logged \in [Keys -> Nat] /\ lost \in [Keys -> Nat]
      /\ logged' \in [Keys -> Nat] /\ lost' \in [Keys -> Nat]
  BY DEF TypeInv, TypeOK
<1>2. CASE logged' = logged /\ lost' = lost
  BY <1>1, <1>2 DEF Grows
<1>3. ASSUME NEW w \in Workers, Active(w),
             \/ logged' = Counted(logged, w) /\ lost' = lost
             \/ logged' = logged /\ lost' = Counted(lost, w)
      PROVE  Grows
  <2>1. Key(w) \in Keys \cup {NULL}
    BY <1>3, KeyType
  <2>2. \A k \in Keys : Counted(logged, w)[k] = IF k = Key(w) THEN logged[k] + 1 ELSE logged[k]
    BY <1>1, <2>1, CountedType
  <2>3. \A k \in Keys : Counted(lost, w)[k] = IF k = Key(w) THEN lost[k] + 1 ELSE lost[k]
    BY <1>1, <2>1, CountedType
  <2>4. CASE logged' = Counted(logged, w) /\ lost' = lost
    BY <1>1, <2>2, <2>4 DEF Grows
  <2>5. CASE logged' = logged /\ lost' = Counted(lost, w)
    BY <1>1, <2>3, <2>5 DEF Grows
  <2> QED
    BY <1>3, <2>4, <2>5
<1>4. ASSUME NEW w \in Workers, Submit(w) \/ Run(w) \/ Crash(w)
      PROVE  Grows
  <2>1. CASE Submit(w) \/ Validate(w) \/ GateRaises(w) \/ Refuse(w) \/ FailAfterWrite(w) \/ NoHandler(w)
             \/ CheckSeen(w) \/ CheckPersisted(w) \/ Succeed(w)
    <3>1. logged' = logged /\ lost' = lost
      BY <2>1 DEF Submit, Validate, GateRaises, Refuse, FailAfterWrite, NoHandler, CheckSeen,
                  CheckPersisted, Succeed, stores
    <3> QED
      BY <1>2, <3>1
  <2>2. CASE Emit(w) \/ Crash(w)
    <3>1. Active(w)
      BY <2>2 DEF Emit, Crash, Active
    <3> QED
      BY <1>2, <1>3, <2>2, <3>1 DEF Emit, Crash
  <2> QED
    BY <1>4, <2>1, <2>2 DEF Run
<1> QED
  BY <1>2, <1>4 DEF Next, vars

\* What one worker does leaves the memory of the others as it was.
LEMMA OtherOnce ==
    ASSUME TypeInv, TypeInv', Grows, NEW q \in Workers, OnceOf(q),
           pc'[q] = pc[q], status'[q] = status[q], batch'[q] = batch[q],
           results'[q] = results[q], cache'[q] = cache[q]
    PROVE  OnceOf(q)'
<1>1. /\ Reach(q)' = Reach(q) /\ Key(q)' = Key(q) /\ Seen(q)' = Seen(q)
      /\ \A i : Ran(q, i)' <=> Ran(q, i)
  BY DEF Reach, Ran, Past, Key, Position, Seen
<1>2. /\ Reach(q) \in Nat /\ Len(results[q]) \in Nat
      /\ \A i : Ran(q, i) => batch[q][i] \in Keys
  BY ReachType
<1>3. \A k \in Keys : /\ lost[k] > 0 => lost'[k] > 0
                      /\ logged[k] > 0 => logged'[k] > 0
  BY DEF Grows
<1>4. Remembers(q)'
  BY <1>1 DEF OnceOf, Remembers
<1>5. RanAgain(q)'
  BY <1>1, <1>2, <1>3 DEF OnceOf, RanAgain
<1>6. Settled(q)'
  BY <1>1, <1>2, <1>3 DEF OnceOf, Settled
<1>7. Looked(q)'
  BY <1>1, <1>2, <1>3 DEF OnceOf, Looked
<1> QED
  BY <1>4, <1>5, <1>6, <1>7 DEF OnceOf

\* A new executor remembers nothing.
LEMMA FreshOnce ==
    ASSUME TypeInv', NEW q \in Workers, results'[q] = <<>>,
           pc'[q] \notin {"emit", "persisted", "handle"}
    PROVE  OnceOf(q)'
<1>1. Reach(q)' = 0
  BY DEF Reach
<1> QED
  BY <1>1 DEF OnceOf, Remembers, RanAgain, Settled, Looked

\* A stage has settled a command's status.
LEMMA DecideOnce ==
    ASSUME TypeInv, TypeInv', Grows, NEW w \in Workers, OnceOf(w), NEW s \in Status,
           Active(w), pc[w] # "emit", Decide(w, s), UNCHANGED <<batch, results>>,
           Ages(cache[w], cache'[w]),
           s = "success" =>
             pc[w] = "handle" /\ (Key(w) # NULL => Cached(cache'[w], Key(w), 0))
    PROVE  OnceOf(w)'
<1>1. /\ pc'[w] = "emit" /\ status'[w] = s
  BY DEF Decide, Goto, TypeInv, TypeOK
<1>2. /\ Reach(w) \in Nat /\ Reach(w) = Len(results[w]) /\ Reach(w)' = Reach(w) + 1
      /\ Position(w) = Reach(w) + 1 /\ CacheSize \in Nat
  BY <1>1, ReachType DEF Reach, Position
<1> PICK last : last = Reach(w) + 1
  OBVIOUS
<1>3. /\ \A i \in 1..Reach(w) : Ran(w, i)' <=> Ran(w, i)
      /\ \A i : Ran(w, i) => batch[w][i] \in Keys
      /\ Ran(w, last)' => s = "success" /\ Key(w) # NULL
  <2>1. \A i \in 1..Reach(w) : Past(w, i)' = Past(w, i)
    BY <1>2 DEF Past
  <2>2. Past(w, last)' = s
    BY <1>1, <1>2 DEF Past
  <2>3. \A i \in 1..Reach(w) : i \in 1..Reach(w)'
    BY <1>2
  <2>4. \A i \in 1..Reach(w) : Ran(w, i)' <=> Ran(w, i)
    BY <2>1, <2>3 DEF Ran
  <2>5. \A i : Ran(w, i) => batch[w][i] \in Keys
    BY ReachType
  <2>6. Ran(w, last)' => s = "success" /\ Key(w) # NULL
    BY <1>2, <2>2 DEF Ran, Key
  <2> QED
    BY <2>4, <2>5, <2>6
<1>4. \A k \in Keys : /\ lost[k] > 0 => lost'[k] > 0
                      /\ logged[k] > 0 => logged'[k] > 0
  BY DEF Grows
<1>5. Remembers(w)'
  <2> SUFFICES ASSUME NEW i \in 1..(Reach(w) + 1), Ran(w, i)'
               PROVE  Cached(cache'[w], batch[w][i], Reach(w) + 1 - i)
    BY <1>2 DEF Remembers
  <2>1. CASE i \in 1..Reach(w)
    <3>1. Ran(w, i) /\ batch[w][i] \in Keys /\ Reach(w) - i \in Nat
      BY <1>2, <1>3, <2>1
    <3>2. Cached(cache[w], batch[w][i], Reach(w) - i)
      BY <2>1, <3>1 DEF OnceOf, Remembers
    <3>3. Cached(cache'[w], batch[w][i], Reach(w) - i + 1)
      BY <3>1, <3>2 DEF Ages
    <3>4. Reach(w) - i + 1 = Reach(w) + 1 - i
      BY <1>2
    <3> QED
      BY <3>3, <3>4
  <2>2. CASE i = Reach(w) + 1
    <3>1. Cached(cache'[w], Key(w), 0)
      BY <1>3, <2>2
    <3>2. Reach(w) + 1 - i = 0 /\ batch[w][i] = Key(w)
      BY <1>2, <2>2 DEF Key
    <3> QED
      BY <3>1, <3>2
  <2> QED
    BY <1>2, <2>1, <2>2
<1>6. RanAgain(w)'
  <2> SUFFICES ASSUME NEW i \in 1..(Reach(w) + 1), NEW j \in 1..(Reach(w) + 1),
                      Ran(w, i)', Ran(w, j)', i < j, batch[w][i] = batch[w][j]
               PROVE  lost'[batch[w][i]] > 0 /\ j - i > CacheSize
    BY <1>2 DEF RanAgain
  <2>0. i \in 1..Reach(w) /\ Ran(w, i) /\ batch[w][i] \in Keys
    BY <1>2, <1>3
  <2>1. CASE j \in 1..Reach(w)
    <3>1. Ran(w, j)
      BY <1>3, <2>1
    <3>2. lost[batch[w][i]] > 0 /\ j - i > CacheSize
      BY <2>0, <2>1, <3>1 DEF OnceOf, RanAgain
    <3> QED
      BY <1>4, <2>0, <3>2
  <2>2. CASE j = Reach(w) + 1
    <3>1. batch[w][i] = Key(w) /\ s = "success" /\ Key(w) # NULL /\ pc[w] = "handle"
      BY <1>2, <1>3, <2>2 DEF Key
    <3>2. Key(w) \notin Seen(w) /\ lost[Key(w)] > 0
      BY <2>0, <3>1 DEF OnceOf, Looked
    <3>3. Cached(cache[w], batch[w][i], Reach(w) - i)
      BY <2>0 DEF OnceOf, Remembers
    <3>4. Reach(w) - i >= CacheSize
      BY <3>1, <3>2, <3>3 DEF Cached, Seen
    <3> QED
      BY <1>2, <1>4, <2>0, <2>2, <3>1, <3>2, <3>4
  <2> QED
    BY <1>2, <2>1, <2>2
<1>7. Settled(w)'
  <2> SUFFICES ASSUME NEW i \in 1..Len(results[w]), Ran(w, i)'
               PROVE  logged'[batch[w][i]] > 0 \/ lost'[batch[w][i]] > 0
    BY DEF Settled
  <2>1. Ran(w, i) /\ batch[w][i] \in Keys
    BY <1>2, <1>3
  <2> QED
    BY <1>4, <2>1 DEF OnceOf, Settled
<1>8. Looked(w)'
  BY <1>1 DEF Looked
<1> QED
  BY <1>5, <1>6, <1>7, <1>8 DEF OnceOf

LEMMA GotoOnce ==
    ASSUME TypeInv, TypeInv', Grows, NEW w \in Workers, OnceOf(w),
           NEW g \in {"check", "persisted", "handle"},
           pc[w] # "emit", Goto(w, g), UNCHANGED <<batch, results, status, cache>>,
           g # "check" /\ Key(w) # NULL => Key(w) \notin Seen(w),
           g = "handle" /\ Key(w) # NULL =>
             \A i \in 1..Reach(w) : Ran(w, i) /\ batch[w][i] = Key(w) => lost[Key(w)] > 0
    PROVE  OnceOf(w)'
<1>1. pc'[w] = g
  BY DEF Goto, TypeInv, TypeOK
<1>2. /\ Reach(w)' = Reach(w) /\ Key(w)' = Key(w) /\ Seen(w)' = Seen(w)
      /\ \A i : Ran(w, i)' <=> Ran(w, i)
  BY <1>1 DEF Reach, Ran, Past, Key, Position, Seen
<1>3. /\ Reach(w) \in Nat /\ Len(results[w]) \in Nat
      /\ \A i : Ran(w, i) => batch[w][i] \in Keys
  BY ReachType
<1>4. \A k \in Keys : /\ lost[k] > 0 => lost'[k] > 0
                      /\ logged[k] > 0 => logged'[k] > 0
  BY DEF Grows
<1>5. Remembers(w)'
  BY <1>2 DEF OnceOf, Remembers
<1>6. RanAgain(w)'
  BY <1>2, <1>3, <1>4 DEF OnceOf, RanAgain
<1>7. Settled(w)'
  BY <1>2, <1>3, <1>4 DEF OnceOf, Settled
<1>8. Looked(w)'
  BY <1>1, <1>2, <1>3, <1>4 DEF Looked
<1> QED
  BY <1>5, <1>6, <1>7, <1>8 DEF OnceOf

LEMMA AnswerOnce ==
    ASSUME TypeInv, TypeInv', Grows, NEW w \in Workers, OnceOf(w), NEW s \in Status,
           Active(w), Answer(w, s), UNCHANGED <<batch, cache>>,
           \/ pc[w] = "emit" /\ s = status[w]
           \/ pc[w] = "handle" /\ s = "failed",
           s = "success" /\ Key(w) # NULL => logged'[Key(w)] > 0 \/ lost'[Key(w)] > 0
    PROVE  OnceOf(w)'
<1> PICK last : last = Len(results[w]) + 1
  OBVIOUS
<1>1. /\ results'[w] = Append(results[w], s) /\ pc'[w] \notin {"emit", "persisted", "handle"}
      /\ results[w] \in Seq(Status) /\ pc[w] # "idle"
  BY DEF Answer, Goto, TypeInv, TypeOK, Active
<1>2. /\ Reach(w) \in Nat /\ Len(results[w]) \in Nat /\ last \in Nat
      /\ pc[w] = "emit" => Reach(w) = last
      /\ pc[w] # "emit" => Reach(w) = Len(results[w])
      /\ Len(results'[w]) = last /\ Reach(w)' = last /\ Position(w) = last
      /\ \A i \in 1..Len(results[w]) : results'[w][i] = results[w][i]
      /\ results'[w][last] = s
  <2>1. /\ Reach(w) \in Nat /\ Len(results[w]) \in Nat
        /\ pc[w] = "emit" => Reach(w) = Len(results[w]) + 1
        /\ pc[w] # "emit" => Reach(w) = Len(results[w])
    BY ReachType
  <2>2. s \in Status /\ Len(results'[w]) = last /\ results'[w][last] = s
        /\ \A i \in 1..Len(results[w]) : results'[w][i] = results[w][i]
    BY <1>1
  <2>3. Reach(w)' = last
    <3>1. last \in Nat /\ Len(results'[w]) = last /\ pc'[w] # "emit"
      BY <1>1, <2>1, <2>2
    <3>2. Reach(w)' = Len(results'[w]) + 0
      BY <3>1 DEF Reach
    <3> QED
      BY <3>1, <3>2
  <2> QED
    BY <2>1, <2>2, <2>3 DEF Position
<1>3. /\ \A i \in 1..Reach(w) : Ran(w, i)' <=> Ran(w, i)
      /\ \A i : Ran(w, i) => batch[w][i] \in Keys
      /\ \A i : Ran(w, i)' => i \in 1..Reach(w) /\ batch[w][i] \in Keys
      /\ Ran(w, last)' => s = "success" /\ Key(w) # NULL
  <2>1. \A i \in 1..last : Past(w, i)' = IF i = last THEN s ELSE results[w][i]
    BY <1>2 DEF Past
  <2>2. \A i \in 1..Reach(w) : i \in 1..last /\ Past(w, i) = Past(w, i)'
    <3>1. CASE pc[w] = "emit"
      <4>1. s = status[w] /\ Reach(w) = last
        BY <1>2, <3>1
      <4>2. \A i \in 1..last : Past(w, i) = IF i = last THEN s ELSE results[w][i]
        BY <1>2, <4>1 DEF Past
      <4> QED
        BY <2>1, <4>1, <4>2
    <3>2. CASE pc[w] = "handle"
      <4>1. Reach(w) = Len(results[w])
        BY <1>2, <3>2
      <4>2. \A i \in 1..Reach(w) : i \in 1..last /\ i # last /\ Past(w, i) = results[w][i]
        BY <1>2, <4>1 DEF Past
      <4> QED
        BY <2>1, <4>2
    <3> QED
      BY <3>1, <3>2
  <2>3. \A i \in 1..Reach(w) : Ran(w, i)' <=> Ran(w, i)
    BY <1>2, <2>2 DEF Ran
  <2>4. \A i : Ran(w, i) => batch[w][i] \in Keys
    BY ReachType
  <2>5. Ran(w, last)' => s = "success" /\ Key(w) # NULL
    BY <1>2, <2>1 DEF Ran, Key
  <2>6. \A i : Ran(w, i)' => i \in 1..Reach(w)
    <3> SUFFICES ASSUME NEW i, Ran(w, i)' PROVE i \in 1..Reach(w)
      OBVIOUS
    <3>1. i \in 1..last
      BY <1>2 DEF Ran
    <3>2. CASE pc[w] = "emit"
      BY <1>2, <3>1, <3>2
    <3>3. CASE pc[w] = "handle"
      <4>1. i # last
        BY <2>5, <3>3
      <4> QED
        BY <1>2, <3>1, <3>3, <4>1
    <3> QED
      BY <3>2, <3>3
  <2> QED
    BY <2>3, <2>4, <2>5, <2>6
<1>4. \A k \in Keys : /\ lost[k] > 0 => lost'[k] > 0
                      /\ logged[k] > 0 => logged'[k] > 0
  BY DEF Grows
<1>5. Remembers(w)'
  <2> SUFFICES ASSUME NEW i \in 1..last, Ran(w, i)'
               PROVE  Cached(cache[w], batch[w][i], last - i)
    BY <1>2 DEF Remembers
  <2>1. i \in 1..Reach(w) /\ Ran(w, i) /\ batch[w][i] \in Keys /\ Reach(w) - i \in Nat
    BY <1>2, <1>3
  <2>2. Cached(cache[w], batch[w][i], Reach(w) - i)
    BY <2>1 DEF OnceOf, Remembers
  <2>3. CASE pc[w] = "emit"
    BY <1>2, <2>2, <2>3
  <2>4. CASE pc[w] = "handle"
    <3>1. last - i = Reach(w) - i + 1
      BY <1>2, <2>1, <2>4
    <3>2. cache[w] \in Seq(Keys)
      BY DEF TypeInv, TypeOK
    <3>3. Cached(cache[w], batch[w][i], Reach(w) - i + 1)
      BY <2>1, <2>2, <3>2, StayAges DEF Ages
    <3> QED
      BY <3>1, <3>3
  <2> QED
    BY <2>3, <2>4
<1>6. RanAgain(w)'
  BY <1>2, <1>3, <1>4 DEF OnceOf, RanAgain
<1>7. Settled(w)'
  <2> SUFFICES ASSUME NEW i \in 1..last, Ran(w, i)'
               PROVE  logged'[batch[w][i]] > 0 \/ lost'[batch[w][i]] > 0
    BY <1>2 DEF Settled
  <2>1. CASE i = last
    <3>1. batch[w][i] = Key(w) /\ s = "success" /\ Key(w) # NULL
      BY <1>2, <1>3, <2>1 DEF Key
    <3> QED
      BY <3>1
  <2>2. CASE i # last
    <3>1. i \in 1..Len(results[w]) /\ Ran(w, i) /\ batch[w][i] \in Keys
      BY <1>2, <1>3, <2>2
    <3> QED
      BY <1>4, <3>1 DEF OnceOf, Settled
  <2> QED
    BY <2>1, <2>2
<1>8. Looked(w)'
  BY <1>1 DEF Looked
<1> QED
  BY <1>5, <1>6, <1>7, <1>8 DEF OnceOf

LEMMA OnceStep == OnceInv /\ [Next]_vars => OnceInv'
<1> SUFFICES ASSUME OnceInv, [Next]_vars PROVE OnceInv'
  OBVIOUS
<1>1. CountInv /\ TypeInv /\ TypeOK /\ TypeInv' /\ CountInv'
  BY TypeStep, CountStep DEF OnceInv, CountInv, TypeInv
<1>2. Grows
  BY <1>1, StoresGrow
<1>3. CASE UNCHANGED vars
  <2>1. ASSUME NEW q \in Workers PROVE OnceOf(q)'
    BY <1>1, <1>2, <1>3, OtherOnce DEF vars, OnceInv
  <2> QED
    BY <1>1, <2>1 DEF OnceInv
<1>4. ASSUME NEW w \in Workers, Submit(w) \/ Run(w) \/ Crash(w)
      PROVE  OnceInv'
  <2>1. \A q \in Workers : q # w =>
             /\ pc'[q] = pc[q] /\ status'[q] = status[q] /\ cache'[q] = cache[q]
             /\ batch'[q] = batch[q] /\ results'[q] = results[q]
    BY <1>1, <1>4, OthersStay
  <2>2. ASSUME NEW q \in Workers, q # w PROVE OnceOf(q)'
    BY <1>1, <1>2, <2>1, <2>2, OtherOnce DEF OnceInv
  <2>3. OnceOf(w)'
    <3>0. OnceOf(w) /\ Serving(w) /\ cache[w] \in Seq(Keys) /\ Len(cache[w]) <= CacheSize
      BY <1>1 DEF OnceInv, TypeInv, TypeOK
    <3>1. CASE Submit(w) \/ GateRaises(w) \/ Crash(w)
      <4>1. results'[w] = <<>> /\ pc'[w] \in {"idle", "validate"}
        BY <1>1, <3>1 DEF Submit, GateRaises, Crash, Forget, Goto, TypeOK
      <4> QED
        BY <1>1, <4>1, FreshOnce
    <3>2. CASE Validate(w)
      <4>1. /\ pc[w] = "validate" /\ Active(w) /\ UNCHANGED <<batch, results, cache>>
        BY <3>2 DEF Validate, Active, request
      <4>2. Ages(cache[w], cache'[w])
        BY <3>0, <4>1, StayAges
      <4>3. CASE Decide(w, "rejected")
        BY <1>1, <1>2, <3>0, <4>1, <4>2, <4>3, DecideOnce DEF Status
      <4>4. CASE Goto(w, "check") /\ UNCHANGED status
        BY <1>1, <1>2, <3>0, <4>1, <4>4, GotoOnce
      <4> QED
        BY <3>2, <4>3, <4>4 DEF Validate
    <3>3. CASE CheckSeen(w)
      <4>1. /\ pc[w] = "check" /\ Active(w) /\ UNCHANGED <<batch, results>>
        BY <3>3 DEF CheckSeen, Active, request
      <4>2. CASE Key(w) \in Seen(w)
        <5>1. PICK s \in ReplayAnswers(Key(w)) :
                /\ cache' = [cache EXCEPT ![w] = IF s = "duplicate"
                                                 THEN MovedToEnd(@, Key(w)) ELSE @]
                /\ Decide(w, s)
          BY <3>3, <4>2 DEF CheckSeen
        <5>2. s \in Status /\ s # "success"
          BY DEF ReplayAnswers, Status
        <5>3. cache'[w] = IF s = "duplicate" THEN MovedToEnd(cache[w], Key(w)) ELSE cache[w]
          BY <1>1, <5>1 DEF TypeOK
        <5>4. PICK i \in DOMAIN cache[w] : cache[w][i] = Key(w)
          BY <4>2 DEF Seen
        <5>5. Key(w) \in Keys
          BY <3>0, <5>4
        <5>6. Ages(cache[w], cache'[w])
          BY <3>0, <5>3, <5>4, <5>5, StayAges, MovedAges
        <5> QED
          BY <1>1, <1>2, <3>0, <4>1, <5>1, <5>2, <5>6, DecideOnce
      <4>3. CASE Key(w) \notin Seen(w)
        <5>1. /\ Goto(w, IF Key(w) # NULL /\ HasLog THEN "persisted" ELSE "handle")
              /\ UNCHANGED <<cache, status>>
          BY <3>3, <4>3 DEF CheckSeen
        <5> PICK g : g = IF Key(w) # NULL /\ HasLog THEN "persisted" ELSE "handle"
          OBVIOUS
        <5>2. g = "handle" /\ Key(w) # NULL =>
                \A i \in 1..Reach(w) : Ran(w, i) /\ batch[w][i] = Key(w) => lost[Key(w)] > 0
          <6> SUFFICES ASSUME g = "handle", Key(w) # NULL, NEW i \in 1..Reach(w),
                              Ran(w, i), batch[w][i] = Key(w)
                       PROVE  lost[Key(w)] > 0
            OBVIOUS
          <6>1. Key(w) \in Keys /\ i \in 1..Len(results[w])
            BY <1>1, <4>1, ReachType
          <6>2. logged[Key(w)] = 0
            BY <1>1, <6>1 DEF CountInv, Accounts
          <6> QED
            BY <3>0, <6>1, <6>2 DEF OnceOf, Settled
        <5> QED
          BY <1>1, <1>2, <3>0, <4>1, <4>3, <5>1, <5>2, GotoOnce
      <4> QED
        BY <4>2, <4>3
    <3>4. CASE CheckPersisted(w)
      <4>1. /\ pc[w] = "persisted" /\ Active(w) /\ UNCHANGED <<batch, results>>
            /\ Key(w) \in Keys
        BY <1>1, <3>4, <3>0, KeyType DEF CheckPersisted, Active, request, Serving
      <4>2. CASE Unanswered(w) /\ UNCHANGED cache
        BY <1>1, <1>2, <3>0, <4>1, <4>2, StayAges, DecideOnce DEF Unanswered, Status
      <4>3. CASE logged[Key(w)] = 0 /\ Goto(w, "handle") /\ UNCHANGED <<cache, status>>
        <5>1. \A i \in 1..Reach(w) : Ran(w, i) /\ batch[w][i] = Key(w) => lost[Key(w)] > 0
          <6> SUFFICES ASSUME NEW i \in 1..Reach(w), Ran(w, i), batch[w][i] = Key(w)
                       PROVE  lost[Key(w)] > 0
            OBVIOUS
          <6>1. i \in 1..Len(results[w])
            BY <1>1, <4>1, ReachType
          <6> QED
            BY <3>0, <4>3, <6>1 DEF OnceOf, Settled
        <5>2. Key(w) \notin Seen(w)
          BY <3>0, <4>1, ExecutorConstants DEF OnceOf, Looked
        <5> QED
          BY <1>1, <1>2, <3>0, <4>1, <4>3, <5>1, <5>2, GotoOnce
      <4>4. CASE \E s \in ReplayAnswers(Key(w)) :
                   /\ cache' = [cache EXCEPT ![w] = IF s = "duplicate"
                                                    THEN Recorded(@, Key(w)) ELSE @]
                   /\ Decide(w, s)
        <5>1. PICK s \in ReplayAnswers(Key(w)) :
                /\ cache' = [cache EXCEPT ![w] = IF s = "duplicate"
                                                 THEN Recorded(@, Key(w)) ELSE @]
                /\ Decide(w, s)
          BY <4>4
        <5>2. s \in Status /\ s # "success"
          BY DEF ReplayAnswers, Status
        <5>3. cache'[w] = IF s = "duplicate" THEN Recorded(cache[w], Key(w)) ELSE cache[w]
          BY <1>1, <5>1 DEF TypeOK
        <5>4. Ages(cache[w], cache'[w])
          BY <3>0, <4>1, <5>3, StayAges, RecordedAges
        <5> QED
          BY <1>1, <1>2, <3>0, <4>1, <5>1, <5>2, <5>4, DecideOnce
      <4> QED
        BY <3>4, <4>2, <4>3, <4>4 DEF CheckPersisted
    <3>5. CASE NoHandler(w)
      BY <1>1, <1>2, <3>0, <3>5, AnswerOnce DEF NoHandler, Status, Active, request
    <3>6. CASE Refuse(w) \/ FailAfterWrite(w)
      <4>1. /\ pc[w] = "handle" /\ Active(w) /\ UNCHANGED <<batch, results, cache>>
            /\ \E s \in {"rejected", "replayed", "failed", "broken"} : Decide(w, s)
        BY <3>6 DEF Refuse, FailAfterWrite, Active, request
      <4>2. PICK s \in {"rejected", "replayed", "failed", "broken"} : Decide(w, s)
        BY <4>1
      <4>3. Ages(cache[w], cache'[w])
        BY <3>0, <4>1, StayAges
      <4> QED
        BY <1>1, <1>2, <3>0, <4>1, <4>2, <4>3, DecideOnce DEF Status
    <3>7. CASE Succeed(w)
      <4>1. /\ pc[w] = "handle" /\ Active(w) /\ UNCHANGED <<batch, results>> /\ Decide(w, "success")
            /\ cache'[w] = IF Key(w) = NULL THEN cache[w] ELSE Recorded(cache[w], Key(w))
        BY <1>1, <3>7 DEF Succeed, Active, request, TypeOK
      <4>2. Key(w) \in Keys \cup {NULL}
        BY <1>1, <4>1, KeyType
      <4>3. CASE Key(w) = NULL
        <5>1. Ages(cache[w], cache'[w])
          BY <3>0, <4>1, <4>3, StayAges
        <5> QED
          BY <1>1, <1>2, <3>0, <4>1, <4>3, <5>1, DecideOnce DEF Status
      <4>4. CASE Key(w) # NULL
        <5>1. Ages(cache[w], cache'[w]) /\ Cached(cache'[w], Key(w), 0)
          BY <3>0, <4>1, <4>2, <4>4, RecordedAges
        <5> QED
          BY <1>1, <1>2, <3>0, <4>1, <5>1, DecideOnce DEF Status
      <4> QED
        BY <4>3, <4>4
    <3>8. CASE Emit(w)
      <4>1. /\ pc[w] = "emit" /\ Active(w) /\ UNCHANGED <<batch, cache>> /\ Answer(w, status[w])
            /\ status[w] \in Status
        BY <1>1, <3>0, <3>8 DEF Emit, Active, request, Serving, TypeOK
      <4>2. status[w] = "success" /\ Key(w) # NULL => logged'[Key(w)] > 0 \/ lost'[Key(w)] > 0
        <5> SUFFICES ASSUME status[w] = "success", Key(w) # NULL
                     PROVE  logged'[Key(w)] > 0 \/ lost'[Key(w)] > 0
          OBVIOUS
        <5>1. Key(w) \in Keys
          BY <1>1, <4>1, KeyType
        <5>2. logged \in [Keys -> Nat] /\ lost \in [Keys -> Nat]
          BY <1>1 DEF TypeOK
        <5>3. Counted(logged, w)[Key(w)] = logged[Key(w)] + 1
          BY <5>1, <5>2, CountedType
        <5>4. Counted(lost, w)[Key(w)] = lost[Key(w)] + 1
          BY <5>1, <5>2, CountedType
        <5>5. logged' = Counted(logged, w) \/ lost' = Counted(lost, w)
          BY <3>8 DEF Emit
        <5> QED
          BY <5>1, <5>2, <5>3, <5>4, <5>5
      <4> QED
        BY <1>1, <1>2, <3>0, <4>1, <4>2, AnswerOnce
    <3> QED
      BY <1>4, <3>1, <3>2, <3>3, <3>4, <3>5, <3>6, <3>7, <3>8 DEF Run
  <2> QED
    BY <1>1, <2>2, <2>3 DEF OnceInv
<1> QED
  BY <1>3, <1>4 DEF Next

LEMMA OnceInit == Init => OnceInv
<1> SUFFICES ASSUME Init PROVE OnceInv
  OBVIOUS
<1>1. TypeInv
  BY TypeInit
<1>2. ASSUME NEW k \in Keys PROVE Accounts(k)
  <2>1. Due(k) = {} /\ Running(k) = {}
    BY ExecutorConstants DEF Init, Due, Running, Status
  <2>2. Under(k) = {} /\ Cardinality({}) = 0 /\ Cardinality(Workers) \in Nat
    BY <2>1, SomeWorkers, FS_EmptySet DEF Under
  <2> QED
    BY <2>1, <2>2 DEF Init, Accounts
<1>3. ASSUME NEW w \in Workers PROVE OnceOf(w)
  BY DEF Init, OnceOf, Remembers, RanAgain, Settled, Looked, Reach
<1> QED
  BY <1>1, <1>2, <1>3 DEF OnceInv, CountInv

\* No key succeeds more often than there are workers to have looked before its
\* first event, and once more for each event that was lost (executor.py:
\* _check_idempotency, _handle_success, _emit_event); and an executor runs a key
\* of its own to success again only after a lost event and an eviction.
THEOREM RunsAlwaysAccounted == Spec => []RunsAreAccounted
<1>1. OnceInv => RunsAreAccounted
  <2> SUFFICES ASSUME OnceInv PROVE RunsAreAccounted
    OBVIOUS
  <2>1. TypeInv
    BY DEF OnceInv, CountInv
  <2>2. ASSUME NEW k \in Keys PROVE applied[k] <= Cardinality(Workers) + lost[k]
    <3>1. Accounts(k)
      BY DEF OnceInv, CountInv
    <3>2. Due(k) \subseteq Under(k) /\ Under(k) \subseteq Workers
      BY DEF Due, Running, Under
    <3>3. /\ Cardinality(Due(k)) \in Nat /\ Cardinality(Under(k)) \in Nat /\ Cardinality(Workers) \in Nat
          /\ Cardinality(Due(k)) <= Cardinality(Under(k))
      BY <3>2, SomeWorkers, FS_Subset
    <3>4. logged[k] \in Nat /\ lost[k] \in Nat
      BY <2>1 DEF TypeInv, TypeOK
    <3> QED
      BY <3>1, <3>3, <3>4 DEF Accounts
  <2>3. ASSUME NEW w \in Workers, NEW i \in DOMAIN results[w], NEW j \in DOMAIN results[w],
               i < j, batch[w][i] = batch[w][j], batch[w][i] # NULL,
               results[w][i] = "success", results[w][j] = "success"
        PROVE  lost[batch[w][i]] > 0 /\ j - i > CacheSize
    <3>1. /\ results[w] \in Seq(Status) /\ Reach(w) \in Nat /\ Len(results[w]) \in Nat
          /\ pc[w] = "emit" => Reach(w) = Len(results[w]) + 1
          /\ pc[w] # "emit" => Reach(w) = Len(results[w])
      BY <2>1, ReachType DEF TypeInv, TypeOK
    <3>2. DOMAIN results[w] = 1..Len(results[w])
      BY <3>1
    <3>3. i \in 1..Reach(w) /\ j \in 1..Reach(w)
      BY <3>1, <3>2
    <3>4. Ran(w, i) /\ Ran(w, j)
      BY <2>3, <3>1, <3>2, <3>3 DEF Ran, Past
    <3> QED
      BY <2>3, <3>3, <3>4 DEF OnceInv, OnceOf, RanAgain
  <2> QED
    BY <2>2, <2>3 DEF RunsAreAccounted
<1> QED
  BY <1>1, OnceInit, OnceStep, PTL DEF Spec

-----------------------------------------------------------------------------
(* No batch is cut short: while it runs under STOP_ON_ERROR it has no error *)
(* behind it, and it ends at its last command or at its first error.        *)

NoError(w, n) == \A i \in 1..n : results[w][i] \notin Errors

BatchOf(w) ==
    /\ stop[w] /\ Active(w) => NoError(w, Len(results[w]))
    /\ stop[w] => NoError(w, Len(results[w]) - 1)
    /\ pc[w] = "done" => \/ Len(results[w]) = Len(batch[w])
                         \/ stop[w] /\ results[w][Len(results[w])] \in Errors

BatchInv == TypeInv /\ \A w \in Workers : BatchOf(w)

LEMMA AnswerGoesOn ==
    ASSUME TypeInv, NEW w \in Workers, NEW s \in Status, BatchOf(w),
           Active(w), Answer(w, s), UNCHANGED <<batch, stop>>
    PROVE  BatchOf(w)'
<1> PICK last : last = Len(results[w]) + 1
  OBVIOUS
<1>1. results[w] \in Seq(Status) /\ stop[w] \in BOOLEAN
  BY DEF TypeInv, TypeOK
<1>2. /\ results'[w] = Append(results[w], s)
      /\ pc'[w] = IF last = Len(batch[w]) \/ Halts(w, s) THEN "done" ELSE "validate"
  BY DEF Answer, Goto, TypeInv, TypeOK, Position
<1>3. /\ Len(results[w]) \in Nat /\ last \in Nat /\ Len(results'[w]) = last /\ last - 1 = Len(results[w])
      /\ results'[w][last] = s
      /\ \A i \in 1..Len(results[w]) : results'[w][i] = results[w][i]
  BY <1>1, <1>2
<1>4. stop[w] => \A i \in 1..(last - 1) : results'[w][i] \notin Errors
  BY <1>3 DEF BatchOf, NoError
<1>5. stop[w] /\ pc'[w] # "done" => \A i \in 1..last : results'[w][i] \notin Errors
  <2> SUFFICES ASSUME stop[w], pc'[w] # "done", NEW i \in 1..last
               PROVE  results'[w][i] \notin Errors
    OBVIOUS
  <2>1. CASE i = last
    BY <1>2, <1>3, <2>1 DEF Halts
  <2>2. CASE i # last
    BY <1>3, <1>4, <2>2
  <2> QED
    BY <2>1, <2>2
<1>6. pc'[w] = "done" => last = Len(batch[w]) \/ (stop[w] /\ s \in Errors)
  BY <1>2 DEF Halts
<1>7. (stop[w] /\ Active(w) => NoError(w, Len(results[w])))'
  BY <1>3, <1>5 DEF NoError, Active
<1>8. (stop[w] => NoError(w, Len(results[w]) - 1))'
  BY <1>3, <1>4 DEF NoError
<1> QED
  BY <1>3, <1>6, <1>7, <1>8 DEF BatchOf

LEMMA BatchStep == BatchInv /\ [Next]_vars => BatchInv'
<1> SUFFICES ASSUME BatchInv, [Next]_vars PROVE BatchInv'
  OBVIOUS
<1>1. TypeInv /\ TypeOK /\ TypeInv'
  BY TypeStep DEF BatchInv, TypeInv
<1>2. ASSUME NEW q \in Workers,
             /\ results'[q] = results[q] /\ batch'[q] = batch[q] /\ stop'[q] = stop[q]
             /\ pc'[q] = pc[q] \/ (Active(q) /\ Active(q)')
      PROVE  BatchOf(q)'
  BY <1>2 DEF BatchInv, BatchOf, NoError, Active
<1>3. CASE UNCHANGED vars
  BY <1>1, <1>2, <1>3 DEF vars, BatchInv
<1>4. ASSUME NEW w \in Workers, Submit(w) \/ Run(w) \/ Crash(w)
      PROVE  BatchInv'
  <2>1. ASSUME NEW q \in Workers, q # w PROVE BatchOf(q)'
    <3>1. /\ pc'[q] = pc[q] /\ batch'[q] = batch[q] /\ results'[q] = results[q]
      BY <1>1, <1>4, <2>1, OthersStay
    <3>2. stop'[q] = stop[q]
      BY <1>1, <1>4, <2>1 DEF Submit, Run, Crash, Validate, GateRaises, CheckSeen, CheckPersisted,
             NoHandler, Refuse, FailAfterWrite, Succeed, Emit, request, TypeOK
    <3> QED
      BY <1>2, <3>1, <3>2
  <2>2. BatchOf(w)'
    <3>0. BatchOf(w) /\ Serving(w)
      BY <1>1 DEF BatchInv, TypeInv
    <3>1. CASE Submit(w) \/ GateRaises(w) \/ Crash(w)
      <4>1. results'[w] = <<>> /\ pc'[w] \in {"idle", "validate"}
        BY <1>1, <3>1 DEF Submit, GateRaises, Crash, Forget, Goto, TypeOK
      <4> QED
        BY <4>1 DEF BatchOf, NoError
    <3>2. CASE Validate(w) \/ CheckSeen(w) \/ CheckPersisted(w) \/ Refuse(w) \/ FailAfterWrite(w)
               \/ Succeed(w)
      <4>1. UNCHANGED <<results, batch, stop>> /\ Active(w)
        BY <3>2 DEF Validate, CheckSeen, CheckPersisted, Refuse, FailAfterWrite, Succeed, request,
                    Active
      <4>2. \E g \in {"emit", "check", "persisted", "handle"} : Goto(w, g)
        BY <3>2 DEF Validate, CheckSeen, CheckPersisted, Refuse, FailAfterWrite, Succeed,
                    Unanswered, Decide
      <4>3. Active(w)'
        BY <1>1, <4>2 DEF Goto, TypeOK, Active
      <4> QED
        BY <1>2, <4>1, <4>3
    <3>3. CASE NoHandler(w)
      BY <1>1, <3>0, <3>3, AnswerGoesOn DEF NoHandler, Status, Active, request
    <3>4. CASE Emit(w)
      <4>1. /\ Active(w) /\ UNCHANGED <<batch, stop>> /\ Answer(w, status[w])
            /\ status[w] \in Status
        BY <1>1, <3>0, <3>4 DEF Emit, Active, request, Serving, TypeOK
      <4> QED
        BY <1>1, <3>0, <4>1, AnswerGoesOn
    <3> QED
      BY <1>4, <3>1, <3>2, <3>3, <3>4 DEF Run
  <2> QED
    BY <1>1, <2>1, <2>2 DEF BatchInv
<1> QED
  BY <1>3, <1>4 DEF Next

\* A batch that returns has answered every command, or every command up to its
\* first refusal or failure (executor.py: execute_batch).
THEOREM BatchesAlwaysAnswered == Spec => []BatchIsAnswered
<1>1. Init => BatchInv
  BY TypeInit DEF Init, BatchInv, BatchOf, NoError, Active
<1>2. BatchInv => BatchIsAnswered
  BY DEF BatchInv, BatchOf, NoError, BatchIsAnswered
<1> QED
  BY <1>1, <1>2, BatchStep, PTL DEF Spec

=============================================================================
