--------------------------- MODULE AccessLogProofs ---------------------------
(* Proofs about AccessLog, for any reads, sizes and bounds of the queue.    *)
EXTENDS AccessLog, FiniteSetTheorems, WellFoundedInduction, TLAPS

CallerStages == {"new", "drop", "done", "snap", "limit", "emit", "settle"}
\* The writer holds an entry, or may hold one.
BusyStages == {"write", "count", "snap", "limit", "emit", "settle", "finish"}

-----------------------------------------------------------------------------
(* Types *)

LEMMA GoesType ==
    ASSUME pc \in [Threads -> Stages], NEW t \in Threads, NEW to \in Stages, Goes(t, to)
    PROVE  pc' \in [Threads -> Stages]
BY DEF Goes

LEMMA WakesType ==
    ASSUME pc \in [Threads -> Stages], NEW W, NEW t, NEW to \in Stages, Wakes(W, t, to)
    PROVE  pc' \in [Threads -> Stages]
BY DEF Wakes, Stages

LEMMA CountType ==
    ASSUME TypeOK, NEW k \in DOMAIN Zero, NEW r \in Reads, CountOne(k, r)
    PROVE  /\ owed' \in [DOMAIN Zero -> Int] /\ limited' \in BOOLEAN
           /\ counted' \in [DOMAIN Zero -> SUBSET Reads]
BY DEF TypeOK, CountOne

LEMMA TallyType ==
    ASSUME NEW x \in [DOMAIN Zero -> Int], NEW y \in [DOMAIN Zero -> Int]
    PROVE  Plus(x, y) \in [DOMAIN Zero -> Int] /\ Minus(x, y) \in [DOMAIN Zero -> Int]
BY DEF Plus, Minus

LEMMA ZeroType == Zero \in [DOMAIN Zero -> Int] /\ DOMAIN Zero = {"dropped", "failed"}
BY DEF Zero

LEMMA ReturnsType ==
    ASSUME TypeOK, NEW t \in Signallers, Returns(t)
    PROVE  pc' \in [Threads -> Stages] /\ snap' \in [Signallers -> [DOMAIN Zero -> Int]]
<1>1. t \in Threads /\ After(t) \in Stages
  BY DEF Threads, Signallers, After, Stages
<1>2. pc' \in [Threads -> Stages]
  BY <1>1, GoesType DEF Returns, TypeOK
<1> QED
  BY <1>2, ZeroType DEF Returns, TypeOK

LEMMA SignalType ==
    ASSUME TypeOK, NEW t \in Signallers, Signal(t)
    PROVE  TypeOK'
<1> USE DEF world, log, box, debt
<1>0. t \in Threads
  BY DEF Threads, Signallers
<1>1. CASE Snapshot(t)
  <2>1. pc' \in [Threads -> Stages] /\ snap' \in [Signallers -> [DOMAIN Zero -> Int]]
    <3>1. CASE owed = Zero
      BY <1>1, <3>1, ReturnsType DEF Snapshot
    <3>2. CASE owed # Zero
      BY <1>0, <1>1, <3>2, GoesType DEF Snapshot, Stages, TypeOK
    <3> QED
      BY <3>1, <3>2
  <2> QED
    BY <1>1, <2>1 DEF Snapshot, TypeOK
<1>2. CASE Limit(t)
  <2>1. pc' \in [Threads -> Stages] /\ snap' \in [Signallers -> [DOMAIN Zero -> Int]]
    <3>1. CASE limited
      BY <1>2, <3>1, ReturnsType DEF Limit
    <3>2. CASE ~ limited
      BY <1>0, <1>2, <3>2, GoesType DEF Limit, Stages, TypeOK
    <3> QED
      BY <3>1, <3>2
  <2> QED
    BY <1>2, <2>1 DEF Limit, TypeOK
<1>3. CASE Emit(t)
  <2>1. /\ pc' \in [Threads -> Stages] /\ snap' \in [Signallers -> [DOMAIN Zero -> Int]]
        /\ surfaced' \in [DOMAIN Zero -> Int]
    <3>1. CASE up
      <4>1. Plus(surfaced, snap[t]) \in [DOMAIN Zero -> Int]
        BY TallyType DEF TypeOK
      <4> QED
        BY <1>0, <1>3, <3>1, <4>1, GoesType DEF Emit, Stages, TypeOK
    <3>2. CASE ~ up
      BY <1>3, <3>2, ReturnsType DEF Emit, TypeOK
    <3> QED
      BY <3>1, <3>2
  <2> QED
    BY <1>3, <2>1 DEF Emit, TypeOK
<1>4. CASE Settle(t)
  <2>1. pc' \in [Threads -> Stages] /\ snap' \in [Signallers -> [DOMAIN Zero -> Int]]
    BY <1>4, ReturnsType DEF Settle
  <2>2. owed' \in [DOMAIN Zero -> Int]
    BY <1>4, TallyType DEF Settle, TypeOK
  <2> QED
    BY <1>4, <2>1, <2>2 DEF Settle, TypeOK
<1> QED
  BY <1>1, <1>2, <1>3, <1>4 DEF Signal

LEMMA CallerType ==
    ASSUME TypeOK, NEW r \in Reads, Submit(r) \/ Drop(r) \/ Raise(r)
    PROVE  TypeOK'
<1> USE DEF world, log, box, debt
<1>0. r \in Threads /\ Size[r] \in Nat /\ "dropped" \in DOMAIN Zero /\ "failed" \in DOMAIN Zero
  BY LogAssumption, ZeroType DEF Threads
<1>1. CASE Submit(r)
  <2>1. ASSUME Enqueue(r)
        PROVE  queue' \in Seq(Reads) /\ bytes' \in Int /\ stopping' \in BOOLEAN
    BY <1>0, <2>1 DEF Enqueue, TypeOK
  <2>2. CASE Hand(r)
    <3>1. pc' \in [Threads -> Stages]
      BY <2>2, WakesType DEF Hand, TypeOK, Stages
    <3>2. waiters' \in Seq({Writer, Watcher})
      BY <2>2 DEF Hand, Younger, TypeOK
    <3> QED
      BY <1>1, <2>1, <2>2, <3>1, <3>2 DEF Submit, Hand, TypeOK
  <2>3. CASE HandUnstarted(r)
    <3>1. pc' \in [Threads -> Stages]
      BY <1>0, <2>3, GoesType DEF HandUnstarted, TypeOK, Stages
    <3> QED
      BY <1>1, <2>1, <2>3, <3>1 DEF Submit, HandUnstarted, TypeOK
  <2>4. CASE Refuse(r)
    <3>1. pc' \in [Threads -> Stages]
      BY <1>0, <2>4, GoesType DEF Refuse, TypeOK, Stages
    <3> QED
      BY <1>1, <2>4, <3>1 DEF Submit, Refuse, TypeOK
  <2> QED
    BY <1>1, <2>2, <2>3, <2>4 DEF Submit
<1>2. CASE Drop(r)
  <2>1. pc' \in [Threads -> Stages]
    BY <1>0, <1>2, GoesType DEF Drop, TypeOK, Stages
  <2> QED
    BY <1>0, <1>2, <2>1, CountType DEF Drop, TypeOK
<1>3. CASE Raise(r)
  <2>1. pc' \in [Threads -> Stages]
    BY <1>0, <1>3, GoesType DEF Raise, TypeOK, Stages
  <2> QED
    BY <1>0, <1>3, <2>1, CountType DEF Raise, TypeOK
<1> QED
  BY <1>1, <1>2, <1>3

LEMMA WaitType ==
    ASSUME TypeOK, NEW t \in {Writer, Watcher}, Wait(t)
    PROVE  TypeOK'
<1> USE DEF world, log, debt
<1>1. pc' \in [Threads -> Stages]
  BY GoesType DEF Wait, Threads, Stages, TypeOK
<1>2. waiters' \in Seq({Writer, Watcher})
  BY DEF Wait, TypeOK
<1> QED
  BY <1>1, <1>2 DEF Wait, TypeOK

LEMMA TakeType ==
    ASSUME TypeOK, Take
    PROVE  TypeOK'
<1> USE DEF world, log, box, debt
<1>1. pc' \in [Threads -> Stages]
  BY GoesType DEF Take, GiveUp, Pop, Idle, Threads, Stages, TypeOK
<1>2. CASE GiveUp
  BY <1>1, <1>2 DEF GiveUp, TypeOK
<1>3. CASE Pop
  <2>1. Head(queue) \in Reads /\ Tail(queue) \in Seq(Reads)
    BY <1>3 DEF Pop, TypeOK
  <2>2. Size[Head(queue)] \in Nat
    BY <2>1, LogAssumption
  <2> QED
    BY <1>1, <1>3, <2>1, <2>2 DEF Pop, TypeOK
<1>4. CASE Idle
  BY <1>1, <1>4 DEF Idle, TypeOK
<1> QED
  BY <1>2, <1>3, <1>4 DEF Take

LEMMA WriterType ==
    ASSUME TypeOK, pc[Writer] \in {"write", "count"} => hand \in Reads, WriterStep
    PROVE  TypeOK'
<1> USE DEF world, log, box, debt
<1>0. Writer \in Threads /\ "failed" \in DOMAIN Zero
  BY ZeroType DEF Threads
<1>1. CASE Look
  <2>1. CASE Retire
    <3>1. pc' \in [Threads -> Stages]
      BY <2>1, WakesType DEF Retire, TypeOK, Stages
    <3> QED
      BY <2>1, <3>1 DEF Retire, TypeOK
  <2> QED
    BY <1>1, <2>1, TakeType, WaitType DEF Look
<1>2. CASE Wake
  BY <1>2, TakeType DEF Wake
<1>3. CASE Write
  <2>1. pc' \in [Threads -> Stages]
    BY <1>0, <1>3, GoesType DEF Write, TypeOK, Stages
  <2>2. rows' \subseteq Reads
    BY <1>3 DEF Write, TypeOK
  <2> QED
    BY <1>3, <2>1, <2>2 DEF Write, TypeOK
<1>4. CASE Fail
  <2>1. pc' \in [Threads -> Stages]
    BY <1>0, <1>4, GoesType DEF Fail, TypeOK, Stages
  <2> QED
    <3>1. hand \in Reads
      BY <1>4 DEF Fail
    <3> QED
      BY <1>0, <1>4, <2>1, <3>1, CountType DEF Fail, TypeOK
<1>5. CASE Finish
  <2>1. pc' \in [Threads -> Stages]
    BY <1>5, WakesType DEF Finish, TypeOK, Stages
  <2> QED
    BY <1>5, <2>1 DEF Finish, TypeOK
<1> QED
  BY <1>1, <1>2, <1>3, <1>4, <1>5, SignalType DEF WriterStep, Signallers

LEMMA LapseType ==
    ASSUME TypeOK, NEW t \in {Writer, Watcher}, Lapse(t)
    PROVE  TypeOK'
<1> USE DEF world, log, debt
<1>1. pc' \in [Threads -> Stages]
  BY GoesType DEF Lapse, Threads, Stages, TypeOK
<1>2. PICK i \in DOMAIN waiters :
         waiters' = [j \in 1..(Len(waiters) - 1) |-> waiters[IF j < i THEN j ELSE j + 1]]
  BY DEF Lapse
<1>3. waiters' \in Seq({Writer, Watcher})
  <2>1. /\ Len(waiters) - 1 \in Nat
        /\ \A j \in 1..(Len(waiters) - 1) :
              waiters[IF j < i THEN j ELSE j + 1] \in {Writer, Watcher}
    BY DEF TypeOK
  <2> QED
    BY <1>2, <2>1
<1> QED
  BY <1>1, <1>3 DEF Lapse, TypeOK

LEMMA OtherType ==
    ASSUME TypeOK, WaitIdle \/ Shutdown \/ Deadline \/ Exit \/ Minute \/ Outage
    PROVE  TypeOK'
<1> USE DEF world, log, box, debt
<1>0. Watcher \in Threads /\ pc[Watcher] \in Stages
  BY DEF Threads, TypeOK
<1>1. CASE WaitIdle
  <2>1. CASE Quiet
    BY <1>0, <1>1, <2>1, GoesType DEF WaitIdle, TypeOK, Stages
  <2>2. CASE ~ Quiet
    BY <1>1, <2>2, WaitType DEF WaitIdle
  <2> QED
    BY <2>1, <2>2
<1>2. CASE Shutdown
  <2>1. pc' \in [Threads -> Stages]
    BY <1>0, <1>2, WakesType DEF Shutdown, TypeOK, Stages
  <2> QED
    BY <1>2, <2>1 DEF Shutdown, TypeOK
<1>3. CASE Deadline
  BY <1>3 DEF Deadline, TypeOK
<1>4. CASE Exit
  BY <1>4 DEF Exit, TypeOK
<1>5. CASE Minute
  BY <1>5 DEF Minute, TypeOK
<1>6. CASE Outage
  <2>1. outages' \in 0..MaxOutages /\ up' \in BOOLEAN
    BY <1>6, LogAssumption DEF Outage, TypeOK
  <2> QED
    BY <1>6, <2>1 DEF Outage, TypeOK
<1> QED
  BY <1>1, <1>2, <1>3, <1>4, <1>5, <1>6

-----------------------------------------------------------------------------
(* Who waits for what *)

\* Each thread's stages, and what the writer holds at its own.  A waiter is at
\* its wait, and is on the condition once.
Stations ==
    /\ pc[Watcher] \in {"idle", "look", "wait"}
    /\ \A r \in Reads : pc[r] \in CallerStages
    /\ pc[Writer] \in {"none", "look", "wait", "lapsed"} \cup BusyStages
    /\ hand # NoRead => pc[Writer] \in BusyStages
    /\ pc[Writer] \in {"write", "count"} => hand \in Reads
    /\ \A t \in Waiting : pc[t] = "wait"
    /\ \A i, j \in DOMAIN waiters : waiters[i] = waiters[j] => i = j

Posted == Stations /\ NobodySleepsThrough

LEMMA PostedStart ==
    ASSUME Init
    PROVE  Posted
BY LogAssumption DEF Init, Posted, Stations, NobodySleepsThrough, Waiting, Quiet, Threads,
   CallerStages, BusyStages

\* A signaller moves within its own stages.
LEMMA PostedSignal ==
    ASSUME TypeOK, Posted, NEW t \in Signallers, Signal(t)
    PROVE  Posted'
<1> USE DEF world, log, box, debt
<1>1. /\ UNCHANGED <<waiters, queue, stopping, hand>>
      /\ pc[t] \in {"snap", "limit", "emit", "settle"}
      /\ \E to \in {"limit", "emit", "settle", After(t)} : pc' = [pc EXCEPT ![t] = to]
  BY DEF Signal, Snapshot, Limit, Emit, Settle, Returns, Goes
<1>2. PICK to \in {"limit", "emit", "settle", After(t)} : pc' = [pc EXCEPT ![t] = to]
  BY <1>1
<1>3. t \in Threads /\ t # Watcher /\ (t \in Reads => t # Writer)
  BY LogAssumption DEF Threads, Signallers
<1>4. Stations'
  BY <1>1, <1>2, <1>3, LogAssumption
     DEF Posted, Stations, After, CallerStages, BusyStages, Waiting, Signallers, TypeOK, Threads
<1>5. NobodySleepsThrough'
  BY <1>1 DEF Posted, NobodySleepsThrough, Waiting, Quiet
<1> QED
  BY <1>4, <1>5 DEF Posted

LEMMA WaitersAre ==
    ASSUME TypeOK
    PROVE  Waiting \subseteq {Writer, Watcher}
BY DEF TypeOK, Waiting

LEMMA AppendedTo ==
    ASSUME TypeOK, NEW r \in Reads, Enqueue(r)
    PROVE  queue' # <<>> /\ Queued' = Queued \cup {r}
<1>1. /\ queue' = Append(queue, r) /\ Len(queue) \in Nat
      /\ Len(queue') = Len(queue) + 1 /\ DOMAIN queue' = 1..(Len(queue) + 1)
      /\ DOMAIN queue = 1..Len(queue)
      /\ queue'[Len(queue) + 1] = r
      /\ \A i \in 1..Len(queue) : queue'[i] = queue[i]
  BY DEF Enqueue, TypeOK
<1>2. \A i \in DOMAIN queue' : i \in DOMAIN queue \/ i = Len(queue) + 1
  BY <1>1
<1>3. \A i \in DOMAIN queue : i \in DOMAIN queue'
  BY <1>1
<1>4. Len(queue) + 1 \in DOMAIN queue'
  BY <1>1
<1> QED
  BY <1>1, <1>2, <1>3, <1>4 DEF Queued

\* When the writer waits it waits alone: the queue is drained, so wait_idle
\* has returned.
LEMMA WriterWaitsAlone ==
    ASSUME TypeOK, Posted, Writer \in Waiting
    PROVE  Oldest = {Writer} /\ Younger = <<>>
<1>1. queue = <<>> /\ hand = NoRead
  <2>1. pc[Writer] = "wait"
    BY DEF Posted, Stations
  <2> QED
    BY <2>1 DEF Posted, Stations, NobodySleepsThrough, BusyStages
<1>2. Watcher \notin Waiting
  BY <1>1 DEF Posted, NobodySleepsThrough, Quiet
<1>3. \A i \in DOMAIN waiters : waiters[i] = Writer
  BY <1>2 DEF Waiting, TypeOK
<1>4. Len(waiters) = 1
  <2>1. DOMAIN waiters = 1..Len(waiters) /\ Len(waiters) \in Nat
    BY DEF TypeOK
  <2>2. Len(waiters) >= 1
    BY <2>1 DEF Waiting
  <2>3. ~ (Len(waiters) >= 2)
    <3>1. SUFFICES ASSUME Len(waiters) >= 2 PROVE FALSE
      OBVIOUS
    <3>2. 1 \in DOMAIN waiters /\ 2 \in DOMAIN waiters
      BY <2>1, <3>1
    <3> QED
      BY <1>3, <3>2 DEF Posted, Stations
  <2> QED
    BY <2>1, <2>2, <2>3
<1>5. waiters \in Seq({Writer, Watcher}) /\ 1 \in DOMAIN waiters
  BY <1>4 DEF TypeOK
<1>6. waiters # <<>> /\ Head(waiters) = Writer
  BY <1>3, <1>4, <1>5
<1>7. Tail(waiters) \in Seq({Writer, Watcher}) /\ Len(Tail(waiters)) = 0
  BY <1>4, <1>5, <1>6
<1>8. Tail(waiters) = <<>>
  BY <1>7
<1> QED
  BY <1>6, <1>8 DEF Oldest, Younger

\* What notify leaves behind is waiting still, each once.
LEMMA YoungerWait ==
    ASSUME TypeOK, Posted
    PROVE  /\ \A i \in DOMAIN Younger : Younger[i] \in Waiting \ Oldest
           /\ \A i, j \in DOMAIN Younger : Younger[i] = Younger[j] => i = j
           /\ Oldest \subseteq Waiting
<1>1. CASE waiters = <<>>
  BY <1>1 DEF Younger, Oldest
<1>2. CASE waiters # <<>>
  <2>1. /\ Younger = Tail(waiters) /\ Oldest = {waiters[1]} /\ 1 \in DOMAIN waiters
        /\ \A i \in DOMAIN Younger : i + 1 \in DOMAIN waiters /\ Younger[i] = waiters[i + 1] /\ i \in Nat \ {0}
    BY <1>2 DEF Younger, Oldest, TypeOK
  <2>2. \A i, j \in DOMAIN waiters : waiters[i] = waiters[j] => i = j
    BY DEF Posted, Stations
  <2>3. ASSUME NEW i \in DOMAIN Younger
        PROVE  Younger[i] \in Waiting \ Oldest
    <3>1. i + 1 # 1
      BY <2>1, <2>3
    <3> QED
      BY <2>1, <2>2, <2>3, <3>1 DEF Waiting
  <2>4. ASSUME NEW i \in DOMAIN Younger, NEW j \in DOMAIN Younger, Younger[i] = Younger[j]
        PROVE  i = j
    <3>1. i + 1 = j + 1
      BY <2>1, <2>2, <2>4
    <3> QED
      BY <2>1, <2>4, <3>1
  <2> QED
    BY <2>1, <2>3, <2>4 DEF Waiting
<1> QED
  BY <1>1, <1>2

LEMMA PostedCaller ==
    ASSUME TypeOK, Posted, NEW r \in Reads, Submit(r) \/ Drop(r) \/ Raise(r)
    PROVE  Posted'
<1> USE DEF world, log, box, debt
<1>0. r \in Threads /\ r # Writer /\ r # Watcher /\ Writer # Watcher
  BY LogAssumption DEF Threads
<1>1. CASE /\ UNCHANGED <<waiters, queue, stopping, hand>>
           /\ \E to \in CallerStages : pc' = [pc EXCEPT ![r] = to]
  <2>1. PICK to \in CallerStages : pc' = [pc EXCEPT ![r] = to]
    BY <1>1
  <2>2. r \notin Waiting
    BY <1>0 DEF TypeOK, Waiting
  <2>3. Stations'
    BY <1>0, <1>1, <2>1, <2>2, LogAssumption DEF Posted, Stations, Waiting, TypeOK, Threads
  <2>4. NobodySleepsThrough'
    BY <1>1 DEF Posted, NobodySleepsThrough, Waiting, Quiet
  <2> QED
    BY <2>3, <2>4 DEF Posted
<1>2. CASE Submit(r) /\ Hand(r)
  <2>1. /\ waiters' = Younger /\ UNCHANGED <<stopping, hand>> /\ queue' # <<>>
        /\ ~ stopping
    BY <1>2, AppendedTo DEF Submit, Hand, Enqueue, Refused
  <2>2. /\ Waiting' \subseteq Waiting \ Oldest
        /\ \A i, j \in DOMAIN waiters' : waiters'[i] = waiters'[j] => i = j
    BY <2>1, YoungerWait DEF Waiting
  <2>3. Writer \notin Waiting'
    <3>1. CASE Writer \in Waiting
      BY <3>1, <2>2, WriterWaitsAlone
    <3>2. CASE Writer \notin Waiting
      BY <3>2, <2>2
    <3> QED
      BY <3>1, <3>2
  <2>4. /\ pc'[r] = "done"
        /\ \A u \in Threads \ {r} : pc'[u] = pc[u] \/ pc'[u] = "look"
        /\ \A u \in Threads \ {r} :
              pc'[u] # pc[u] => u \in Oldest \/ (u = Writer /\ pc[Writer] = "none")
        /\ pc'[Writer] = "look" \/ pc'[Writer] = pc[Writer]
    BY <1>0, <1>2 DEF Hand, Wakes, Threads
  <2>5. Oldest \subseteq {Writer, Watcher} /\ \A u \in Oldest : pc[u] = "wait"
    BY YoungerWait DEF TypeOK, Waiting, Posted, Stations
  <2>6. \A u \in Reads : pc'[u] \in CallerStages
    <3>1. \A u \in Reads \ {r} : pc'[u] = pc[u]
      BY <1>0, <2>4, <2>5, LogAssumption DEF Threads
    <3> QED
      BY <2>4, <3>1 DEF Posted, Stations, CallerStages
  <2>7. pc'[Watcher] \in {"idle", "look", "wait"}
    BY <1>0, <2>4 DEF Posted, Stations, Threads
  <2>8. /\ pc'[Writer] \in {"none", "look", "wait", "lapsed"} \cup BusyStages
        /\ hand' # NoRead => pc'[Writer] \in BusyStages
        /\ pc'[Writer] \in {"write", "count"} => hand' \in Reads
    <3>1. CASE pc'[Writer] = pc[Writer]
      BY <2>1, <3>1 DEF Posted, Stations
    <3>2. CASE pc'[Writer] # pc[Writer]
      <4>1. pc'[Writer] = "look" /\ pc[Writer] \in {"wait", "none"}
        BY <1>0, <2>4, <2>5, <3>2 DEF Threads
      <4> QED
        BY <2>1, <4>1 DEF Posted, Stations, BusyStages
    <3> QED
      BY <3>1, <3>2
  <2>9. \A u \in Waiting' : pc'[u] = "wait"
    <3> TAKE u \in Waiting'
    <3>2. u \in Waiting \ Oldest /\ u \in {Writer, Watcher} /\ u # Writer
      BY <2>2, <2>3, WaitersAre
    <3>3. pc'[u] = pc[u]
      BY <1>0, <2>4, <3>2 DEF Threads
    <3> QED
      BY <3>2, <3>3 DEF Posted, Stations
  <2>10. Stations'
    BY <2>2, <2>6, <2>7, <2>8, <2>9 DEF Stations
  <2>11. NobodySleepsThrough'
    BY <2>1, <2>3 DEF NobodySleepsThrough, Quiet
  <2> QED
    BY <2>10, <2>11 DEF Posted
<1>3. CASE Submit(r) /\ HandUnstarted(r)
  <2>1. /\ UNCHANGED <<waiters, stopping, hand>> /\ queue' # <<>>
        /\ pc' = [pc EXCEPT ![r] = "drop"] /\ pc[Writer] = "none"
    BY <1>3, AppendedTo DEF Submit, HandUnstarted, Enqueue, Goes
  <2>2. r \notin Waiting /\ Writer \notin Waiting
    BY <1>0, <2>1, WaitersAre DEF Posted, Stations
  <2>3. Stations'
    BY <1>0, <2>1, <2>2, LogAssumption DEF Posted, Stations, Waiting, TypeOK, Threads, CallerStages
  <2>4. NobodySleepsThrough'
    BY <2>1, <2>2 DEF NobodySleepsThrough, Waiting, Quiet
  <2> QED
    BY <2>3, <2>4 DEF Posted
<1> QED
  BY <1>1, <1>2, <1>3 DEF Submit, Refuse, Drop, Raise, Goes, CallerStages

\* The writer moves on with the condition left as it is.
LEMMA PostedMove ==
    ASSUME TypeOK, Posted, NEW to, pc' = [pc EXCEPT ![Writer] = to],
           UNCHANGED <<waiters, stopping>>, Writer \notin Waiting,
           to \in {"none", "look", "wait", "lapsed"} \cup BusyStages,
           hand' # NoRead => to \in BusyStages,
           to \in {"write", "count"} => hand' \in Reads,
           Quiet' => Quiet
    PROVE  Posted'
<1>1. Writer \in Threads /\ Writer # Watcher /\ Writer \notin Reads
  BY LogAssumption DEF Threads
<1>2. Waiting' = Waiting
  BY DEF Waiting
<1>3. Stations'
  BY <1>1, <1>2, WaitersAre DEF Posted, Stations, TypeOK, Threads
<1>4. NobodySleepsThrough'
  BY <1>2 DEF Posted, NobodySleepsThrough
<1> QED
  BY <1>3, <1>4 DEF Posted

LEMMA PostedTake ==
    ASSUME TypeOK, Posted, pc[Writer] \in {"look", "lapsed"}, Take
    PROVE  Posted'
<1> USE DEF world, log, box, debt
<1>1. Writer \notin Waiting /\ hand = NoRead
  BY DEF Posted, Stations, BusyStages
<1>2. CASE GiveUp
  BY <1>1, <1>2, PostedMove DEF GiveUp, Goes, Quiet
<1>3. CASE Pop
  <2>1. hand' \in Reads /\ hand' # NoRead
    BY <1>3, LogAssumption DEF Pop, TypeOK
  <2> QED
    BY <1>1, <1>3, <2>1, PostedMove DEF Pop, Goes, Quiet, BusyStages
<1>4. CASE Idle
  BY <1>1, <1>4, PostedMove DEF Idle, Goes, Quiet, BusyStages
<1> QED
  BY <1>2, <1>3, <1>4 DEF Take

\* Everyone who waits is woken.
LEMMA PostedAll ==
    ASSUME TypeOK, Posted, NEW t \in {Writer, Watcher}, NEW to, Wakes(Waiting, t, to),
           waiters' = <<>>,
           t = Watcher => to = (IF Watcher \in Waiting THEN "look" ELSE pc[Watcher])
                          /\ UNCHANGED hand,
           t = Writer => to \in {"none", "look"} /\ hand' = NoRead
    PROVE  Posted'
<1>1. Writer # Watcher /\ Writer \notin Reads /\ Watcher \notin Reads
  BY LogAssumption
<1>2. Waiting \subseteq {Writer, Watcher} /\ Waiting' = {}
  BY WaitersAre DEF Waiting
<1>3. \A r \in Reads : pc'[r] = pc[r]
  BY <1>1, <1>2 DEF Wakes, Threads
<1>4. pc'[Watcher] \in {"idle", "look", "wait"}
  BY <1>1 DEF Wakes, Threads, Posted, Stations
<1>5. CASE t = Writer
  <2>1. pc'[Writer] = to
    BY <1>5 DEF Wakes, Threads
  <2> QED
    BY <1>2, <1>3, <1>4, <1>5, <2>1 DEF Posted, Stations, NobodySleepsThrough, BusyStages
<1>6. CASE t = Watcher
  <2>1. pc'[Writer] = IF Writer \in Waiting THEN "look" ELSE pc[Writer]
    BY <1>1, <1>6 DEF Wakes, Threads
  <2>2. Writer \in Waiting => pc[Writer] = "wait" /\ hand = NoRead
    BY DEF Posted, Stations, BusyStages
  <2> QED
    BY <1>2, <1>3, <1>4, <1>6, <2>1, <2>2 DEF Posted, Stations, NobodySleepsThrough, BusyStages
<1> QED
  BY <1>5, <1>6

LEMMA AppendedWaiter ==
    ASSUME TypeOK, Posted, NEW t \in {Writer, Watcher}, t \notin Waiting,
           waiters' = Append(waiters, t)
    PROVE  /\ Waiting' = Waiting \cup {t}
           /\ \A i, j \in DOMAIN waiters' : waiters'[i] = waiters'[j] => i = j
<1>0. waiters \in Seq({Writer, Watcher})
  BY DEF TypeOK
<1>1. /\ Len(waiters) \in Nat
      /\ DOMAIN waiters' = 1..(Len(waiters) + 1) /\ DOMAIN waiters = 1..Len(waiters)
      /\ waiters'[Len(waiters) + 1] = t
      /\ \A i \in 1..Len(waiters) : waiters'[i] = waiters[i]
  BY <1>0
<1>2. \A i \in DOMAIN waiters' : i \in DOMAIN waiters \/ i = Len(waiters) + 1
  BY <1>1
<1>3. \A i \in DOMAIN waiters : i \in DOMAIN waiters' /\ waiters'[i] # t
  BY <1>1 DEF Waiting
<1>4. Len(waiters) + 1 \in DOMAIN waiters'
  BY <1>1
<1> QED
  BY <1>1, <1>2, <1>3, <1>4 DEF Waiting, Posted, Stations

LEMMA PostedWait ==
    ASSUME TypeOK, Posted, NEW t \in {Writer, Watcher}, Wait(t),
           t = Writer => pc[Writer] = "look" /\ queue = <<>> /\ ~ stopping,
           t = Watcher => pc[Watcher] \in {"idle", "look"} /\ ~ Quiet
    PROVE  Posted'
<1>1. Writer # Watcher /\ Writer \notin Reads /\ Watcher \notin Reads
  BY LogAssumption
<1>2. t \notin Waiting
  BY DEF Posted, Stations
<1>3. /\ Waiting' = Waiting \cup {t}
      /\ \A i, j \in DOMAIN waiters' : waiters'[i] = waiters'[j] => i = j
  BY <1>2, AppendedWaiter DEF Wait
<1>4. Stations'
  BY <1>1, <1>2, <1>3, WaitersAre
     DEF Wait, Goes, Posted, Stations, TypeOK, Threads, BusyStages
<1>5. NobodySleepsThrough'
  BY <1>1, <1>3 DEF Wait, Posted, NobodySleepsThrough, Quiet
<1> QED
  BY <1>4, <1>5 DEF Posted

LEMMA PostedWriter ==
    ASSUME TypeOK, Posted, WriterStep
    PROVE  Posted'
<1> USE DEF world, log, box, debt
<1>1. CASE Look
  <2>1. pc[Writer] = "look" /\ hand = NoRead
    BY <1>1 DEF Look, Posted, Stations, BusyStages
  <2>2. CASE Retire
    BY <2>1, <2>2, PostedAll, LogAssumption DEF Retire
  <2>3. CASE Take
    BY <2>1, <2>3, PostedTake
  <2>4. CASE Wait(Writer) /\ queue = <<>> /\ ~ stopping
    BY <2>1, <2>4, PostedWait, LogAssumption
  <2> QED
    BY <1>1, <2>2, <2>3, <2>4 DEF Look
<1>2. CASE Wake
  BY <1>2, PostedTake DEF Wake
<1>3. CASE Write
  <2>1. pc[Writer] = "write" /\ Writer \notin Waiting /\ hand \in Reads
    BY <1>3 DEF Write, Posted, Stations
  <2> QED
    BY <1>3, <2>1, PostedMove DEF Write, Goes, Quiet, BusyStages
<1>4. CASE Fail
  <2>1. Writer \notin Waiting
    BY <1>4 DEF Fail, Posted, Stations
  <2> QED
    BY <1>4, <2>1, PostedMove DEF Fail, Goes, Quiet, BusyStages
<1>5. CASE Finish
  BY <1>5, PostedAll, LogAssumption DEF Finish
<1> QED
  BY <1>1, <1>2, <1>3, <1>4, <1>5, PostedSignal DEF WriterStep, Signallers

LEMMA PostedLapse ==
    ASSUME TypeOK, Posted, NEW t \in {Writer, Watcher}, Lapse(t)
    PROVE  Posted'
<1>1. PICK i \in DOMAIN waiters :
         /\ waiters[i] = t
         /\ waiters' = [j \in 1..(Len(waiters) - 1) |-> waiters[IF j < i THEN j ELSE j + 1]]
  BY DEF Lapse
<1>2. Len(waiters) \in Nat /\ DOMAIN waiters = 1..Len(waiters)
  BY DEF TypeOK
<1>3. \A j \in DOMAIN waiters' :
         \E k \in DOMAIN waiters : k # i /\ waiters'[j] = waiters[k]
  BY <1>1, <1>2
<1>4. Waiting' \subseteq Waiting \ {t}
  BY <1>1, <1>3 DEF Waiting, Posted, Stations
<1>5. \A j, k \in DOMAIN waiters' : waiters'[j] = waiters'[k] => j = k
  <2>1. SUFFICES ASSUME NEW j \in DOMAIN waiters', NEW k \in DOMAIN waiters',
                        waiters'[j] = waiters'[k]
                 PROVE  j = k
    OBVIOUS
  <2> DEFINE Old(n) == IF n < i THEN n ELSE n + 1
  <2>2. Old(j) \in DOMAIN waiters /\ Old(k) \in DOMAIN waiters /\ waiters[Old(j)] = waiters[Old(k)]
    BY <1>1, <1>2, <2>1
  <2>3. Old(j) = Old(k)
    BY <2>2 DEF Posted, Stations
  <2> QED
    BY <1>1, <1>2, <2>1, <2>3
<1>6. Writer # Watcher /\ Writer \notin Reads /\ Watcher \notin Reads
  BY LogAssumption
<1>7. Stations'
  <2>1. t = Writer => pc[Writer] = "wait" /\ hand = NoRead
    BY <1>1 DEF Posted, Stations, Waiting, BusyStages
  <2> QED
    BY <1>4, <1>5, <1>6, <2>1, WaitersAre
       DEF Lapse, Goes, Posted, Stations, TypeOK, Threads, BusyStages
<1>8. NobodySleepsThrough'
  BY <1>4 DEF Lapse, Posted, NobodySleepsThrough, Quiet
<1> QED
  BY <1>7, <1>8 DEF Posted

LEMMA PostedOther ==
    ASSUME TypeOK, Posted, WaitIdle \/ Shutdown \/ Deadline \/ Exit \/ Minute \/ Outage
    PROVE  Posted'
<1> USE DEF world, log, box, debt
<1>1. CASE UNCHANGED <<waiters, queue, stopping, hand, pc>>
  BY <1>1 DEF Posted, Stations, NobodySleepsThrough, Waiting, Quiet
<1>2. CASE WaitIdle /\ Quiet
  <2>1. Watcher \notin Waiting /\ Watcher # Writer /\ Watcher \notin Reads
    BY <1>2, LogAssumption DEF WaitIdle, Posted, Stations
  <2>2. UNCHANGED <<waiters, queue, stopping, hand>> /\ pc' = [pc EXCEPT ![Watcher] = "idle"]
    BY <1>2 DEF WaitIdle, Goes
  <2>3. Stations'
    BY <2>1, <2>2, WaitersAre DEF Posted, Stations, Waiting, TypeOK, Threads
  <2> QED
    BY <2>2, <2>3 DEF Posted, NobodySleepsThrough, Waiting, Quiet
<1>3. CASE WaitIdle /\ ~ Quiet
  BY <1>3, PostedWait, LogAssumption DEF WaitIdle
<1>4. CASE Shutdown
  BY <1>4, PostedAll, LogAssumption DEF Shutdown
<1> QED
  BY <1>1, <1>2, <1>3, <1>4 DEF Deadline, Exit, Minute, Outage

-----------------------------------------------------------------------------
(* Where each read is *)

Failed == counted["failed"]
Dropped == counted["dropped"]

Bounded ==
    /\ Len(queue) <= MaxEntries /\ bytes <= MaxBytes
    /\ \A i, j \in DOMAIN queue : queue[i] = queue[j] => i = j

\* A read is new and nowhere, or it is somewhere; the writer's own is settled
\* once it is past the write; without a writer only counted reads are queued.
Places ==
    /\ hand \notin Queued
    /\ rows \cap Queued = {} /\ rows \cap Failed = {} /\ Failed \cap Queued = {}
    /\ \A r \in Reads : pc[r] = "new" => r \notin Queued \cup {hand} \cup rows \cup Failed
    /\ \A r \in Reads : pc[r] = "done" => r \in Queued \cup {hand} \cup rows \cup Dropped \cup Failed
    /\ \A r \in Reads : pc[r] \in {"snap", "limit", "emit", "settle"} => r \in Failed
    /\ pc[Writer] \in {"write", "count"} => hand \notin rows \cup Failed
    /\ hand # NoRead /\ pc[Writer] \notin {"write", "count"} => hand \in rows \cup Failed
    /\ pc[Writer] = "none" /\ ~ past => \A r \in Queued : r \in Dropped \/ pc[r] = "drop"

Kept == Bounded /\ Places

LEMMA KeptStart ==
    ASSUME Init
    PROVE  Kept
BY LogAssumption DEF Init, Kept, Bounded, Places, Queued, Failed, Dropped, Threads, Zero

LEMMA QueuedAre ==
    ASSUME TypeOK
    PROVE  Queued \subseteq Reads
BY DEF TypeOK, Queued

LEMMA KeptSignal ==
    ASSUME TypeOK, Posted, Kept, NEW t \in Signallers, Signal(t)
    PROVE  Kept'
<1> USE DEF world, log, box, debt
<1>1. /\ UNCHANGED <<bytes, queue, hand, rows, counted, past>>
      /\ pc[t] \in {"snap", "limit", "emit", "settle"}
      /\ \E to \in {"limit", "emit", "settle", After(t)} : pc' = [pc EXCEPT ![t] = to]
  BY DEF Signal, Snapshot, Limit, Emit, Settle, Returns, Goes
<1>2. PICK to \in {"limit", "emit", "settle", After(t)} : pc' = [pc EXCEPT ![t] = to]
  BY <1>1
<1>3. t \in Threads /\ (t \in Reads => t # Writer)
  BY LogAssumption DEF Threads, Signallers
<1>4. Bounded'
  BY <1>1 DEF Kept, Bounded
<1>5. Places'
  BY <1>1, <1>2, <1>3, QueuedAre, LogAssumption
     DEF Kept, Places, After, Queued, Signallers, TypeOK, Threads, Failed, Dropped
<1> QED
  BY <1>4, <1>5 DEF Kept

LEMMA CountedIs ==
    ASSUME TypeOK, NEW k \in DOMAIN Zero, NEW r, CountOne(k, r)
    PROVE  /\ k = "failed" => Failed' = Failed \cup {r} /\ Dropped' = Dropped
           /\ k = "dropped" => Dropped' = Dropped \cup {r} /\ Failed' = Failed
BY ZeroType DEF CountOne, Failed, Dropped, TypeOK

LEMMA KeptEnqueue ==
    ASSUME TypeOK, Posted, Kept, NEW r \in Reads, pc[r] = "new", ~ Refused(r), Enqueue(r)
    PROVE  Bounded'
<1>1. /\ queue' = Append(queue, r) /\ Len(queue) \in Nat
      /\ Len(queue') = Len(queue) + 1 /\ DOMAIN queue' = 1..(Len(queue) + 1)
      /\ DOMAIN queue = 1..Len(queue)
      /\ queue'[Len(queue) + 1] = r
      /\ \A i \in 1..Len(queue) : queue'[i] = queue[i]
  BY DEF Enqueue, TypeOK
<1>2. \A i \in DOMAIN queue' : i \in DOMAIN queue \/ i = Len(queue) + 1
  BY <1>1
<1>3. \A i \in DOMAIN queue : queue'[i] = queue[i] /\ queue[i] # r
  BY <1>1 DEF Kept, Places, Queued
<1>4. Len(queue') <= MaxEntries
  BY <1>1, LogAssumption DEF Refused
<1>5. bytes' <= MaxBytes
  BY LogAssumption DEF Refused, Enqueue, TypeOK
<1> QED
  BY <1>1, <1>2, <1>3, <1>4, <1>5 DEF Kept, Bounded

LEMMA KeptCaller ==
    ASSUME TypeOK, Posted, Kept, NEW r \in Reads, Submit(r) \/ Drop(r) \/ Raise(r)
    PROVE  Kept'
<1> USE DEF world, log, box, debt
<1>0. r \in Threads /\ r # Writer /\ r # Watcher /\ Writer \in Threads
  BY LogAssumption DEF Threads
<1>1. CASE Submit(r) /\ Hand(r)
  <2>1. Bounded'
    BY <1>1, KeptEnqueue DEF Submit, Hand
  <2>2. /\ Queued' = Queued \cup {r} /\ pc[r] = "new"
        /\ UNCHANGED <<hand, rows, Failed, Dropped, past>>
    BY <1>1, AppendedTo DEF Submit, Hand, Failed, Dropped
  <2>3. Oldest \subseteq {Writer, Watcher} /\ \A u \in Oldest : pc[u] = "wait"
    BY YoungerWait, WaitersAre DEF Posted, Stations
  <2>4. /\ pc'[r] = "done" /\ \A u \in Reads \ {r} : pc'[u] = pc[u]
        /\ pc'[Writer] = "look" \/ (pc'[Writer] = pc[Writer] /\ pc[Writer] # "none")
    BY <1>0, <1>1, <2>3, LogAssumption DEF Hand, Wakes, Threads
  <2>5. pc'[Writer] = pc[Writer] \/ hand = NoRead
    <3>1. CASE pc'[Writer] # pc[Writer]
      <4>1. pc[Writer] \in {"wait", "none"}
        BY <1>0, <1>1, <2>3, <3>1 DEF Hand, Wakes, Threads
      <4> QED
        BY <4>1 DEF Posted, Stations, BusyStages
    <3> QED
      BY <3>1
  <2>6. Places'
    BY <2>2, <2>4, <2>5, LogAssumption DEF Kept, Places
  <2> QED
    BY <2>1, <2>6 DEF Kept
<1>2. CASE Submit(r) /\ HandUnstarted(r)
  <2>1. Bounded'
    BY <1>2, KeptEnqueue DEF Submit, HandUnstarted
  <2>2. /\ Queued' = Queued \cup {r} /\ pc[r] = "new"
        /\ UNCHANGED <<hand, rows, Failed, Dropped, past>>
        /\ pc' = [pc EXCEPT ![r] = "drop"]
    BY <1>2, AppendedTo DEF Submit, HandUnstarted, Failed, Dropped, Goes
  <2>3. Places'
    BY <1>0, <2>2, LogAssumption DEF Kept, Places, TypeOK, Threads
  <2> QED
    BY <2>1, <2>3 DEF Kept
<1>3. CASE Submit(r) /\ Refuse(r)
  <2>1. /\ pc' = [pc EXCEPT ![r] = "drop"] /\ pc[r] = "new"
        /\ UNCHANGED <<queue, bytes, hand, rows, counted, past>>
    BY <1>3 DEF Submit, Refuse, Goes
  <2>2. Places'
    BY <1>0, <2>1, LogAssumption DEF Kept, Places, TypeOK, Threads, Queued, Failed, Dropped
  <2> QED
    BY <2>1, <2>2 DEF Kept, Bounded
<1>4. CASE Drop(r)
  <2>1. /\ pc' = [pc EXCEPT ![r] = "done"] /\ pc[r] = "drop"
        /\ UNCHANGED <<queue, bytes, hand, rows, past>>
    BY <1>4 DEF Drop, Goes
  <2>2. Dropped' = Dropped \cup {r} /\ Failed' = Failed
    BY <1>4, CountedIs, ZeroType DEF Drop
  <2>3. Places'
    BY <1>0, <2>1, <2>2, LogAssumption DEF Kept, Places, TypeOK, Threads, Queued
  <2> QED
    BY <2>1, <2>3 DEF Kept, Bounded
<1>5. CASE Raise(r)
  <2>1. /\ \E to \in {"snap", "done"} : pc' = [pc EXCEPT ![r] = to]
        /\ pc[r] = "new" /\ UNCHANGED <<queue, bytes, hand, rows, past>>
    BY <1>5 DEF Raise, Goes
  <2>2. Failed' = Failed \cup {r} /\ Dropped' = Dropped
    BY <1>5, CountedIs, ZeroType DEF Raise
  <2>3. Places'
    BY <1>0, <2>1, <2>2, LogAssumption DEF Kept, Places, TypeOK, Threads, Queued
  <2> QED
    BY <2>1, <2>3 DEF Kept, Bounded
<1> QED
  BY <1>1, <1>2, <1>3, <1>4, <1>5 DEF Submit

LEMMA Popped ==
    ASSUME TypeOK, Kept, Pop
    PROVE  /\ Bounded' /\ hand' \in Queued /\ hand' \in Reads
           /\ Queued' = Queued \ {hand'}
<1>1. queue \in Seq(Reads) /\ queue # <<>>
  BY DEF Pop, TypeOK
<1>2. /\ Len(queue) \in Nat /\ Len(queue) >= 1 /\ Len(queue') = Len(queue) - 1
      /\ DOMAIN queue = 1..Len(queue) /\ DOMAIN queue' = 1..(Len(queue) - 1)
      /\ \A i \in 1..(Len(queue) - 1) : queue'[i] = queue[i + 1]
      /\ hand' = queue[1] /\ 1 \in DOMAIN queue
  BY <1>1 DEF Pop
<1>3. \A i \in DOMAIN queue' : i + 1 \in DOMAIN queue /\ i + 1 # 1
  BY <1>2
<1>4. \A i \in DOMAIN queue : i = 1 \/ (i - 1 \in DOMAIN queue' /\ queue'[i - 1] = queue[i])
  BY <1>2
<1>5. \A i, j \in DOMAIN queue : queue[i] = queue[j] => i = j
  BY DEF Kept, Bounded
<1>6. Queued' = Queued \ {hand'}
  <2>1. ASSUME NEW x \in Queued'
        PROVE  x \in Queued \ {hand'}
    <3>1. PICK i \in DOMAIN queue' : x = queue'[i]
      BY <2>1 DEF Queued
    <3>2. x = queue[i + 1] /\ i + 1 \in DOMAIN queue /\ i + 1 # 1
      BY <1>2, <1>3, <3>1
    <3> QED
      BY <1>2, <1>5, <3>2 DEF Queued
  <2>2. ASSUME NEW x \in Queued, x # hand'
        PROVE  x \in Queued'
    BY <1>2, <1>4, <2>2 DEF Queued
  <2> QED
    BY <2>1, <2>2
<1>7. \A i, j \in DOMAIN queue' : queue'[i] = queue'[j] => i = j
  <2>1. SUFFICES ASSUME NEW i \in DOMAIN queue', NEW j \in DOMAIN queue', queue'[i] = queue'[j]
                 PROVE  i = j
    OBVIOUS
  <2>2. i + 1 = j + 1
    BY <1>2, <1>3, <1>5, <2>1
  <2> QED
    BY <1>2, <2>1, <2>2
<1>8. Len(queue') <= MaxEntries
  BY <1>2, LogAssumption DEF Kept, Bounded
<1>9. bytes' <= MaxBytes
  <2>1. Size[Head(queue)] \in Nat
    BY <1>1, LogAssumption
  <2> QED
    BY <2>1, LogAssumption DEF Kept, Bounded, Pop, TypeOK
<1>10. hand' \in Queued
  BY <1>2 DEF Queued
<1> QED
  BY <1>6, <1>7, <1>8, <1>9, <1>10, QueuedAre DEF Bounded

LEMMA KeptTake ==
    ASSUME TypeOK, Posted, Kept, pc[Writer] \in {"look", "lapsed"}, Take
    PROVE  Kept'
<1> USE DEF world, log, box, debt
<1>0. hand = NoRead /\ NoRead \notin Reads /\ Writer \in Threads /\ Writer \notin Reads
  BY LogAssumption DEF Posted, Stations, BusyStages, Threads
<1>1. CASE Pop
  <2>1. /\ Bounded' /\ hand' \in Queued /\ hand' \in Reads /\ Queued' = Queued \ {hand'}
    BY <1>1, Popped
  <2>2. /\ UNCHANGED <<rows, Failed, Dropped, past>> /\ pc' = [pc EXCEPT ![Writer] = "write"]
    BY <1>1 DEF Pop, Failed, Dropped, Goes
  <2>3. Places'
    <3>1. pc'[Writer] = "write" /\ \A r \in Reads : pc'[r] = pc[r]
      BY <1>0, <2>2 DEF TypeOK, Threads
    <3>2. hand' \notin rows \cup Failed
      BY <2>1 DEF Kept, Places
    <3> QED
      BY <1>0, <2>1, <2>2, <3>1, <3>2 DEF Kept, Places
  <2> QED
    BY <2>1, <2>3 DEF Kept
<1>2. CASE GiveUp \/ Idle
  <2>1. /\ UNCHANGED <<queue, bytes, hand, rows, counted, past>>
        /\ \/ pc' = [pc EXCEPT ![Writer] = "none"] /\ past
           \/ pc' = [pc EXCEPT ![Writer] = "snap"]
           \/ pc' = [pc EXCEPT ![Writer] = "finish"]
    BY <1>2 DEF GiveUp, Idle, Goes
  <2>2. \A r \in Reads : pc'[r] = pc[r]
    BY <1>0, <2>1 DEF TypeOK, Threads
  <2>3. pc'[Writer] \in {"none", "snap", "finish"} /\ (pc'[Writer] = "none" => past)
    BY <1>0, <2>1 DEF TypeOK, Threads
  <2>4. UNCHANGED <<Queued, Failed, Dropped>>
    BY <2>1 DEF Queued, Failed, Dropped
  <2>5. Places'
    BY <1>0, <2>1, <2>2, <2>3, <2>4 DEF Kept, Places
  <2> QED
    BY <2>1, <2>5 DEF Kept, Bounded
<1> QED
  BY <1>1, <1>2 DEF Take

\* The reads stay where they are, and the writer where it is or empty-handed.
LEMMA PlacesSame ==
    ASSUME Places, Queued \subseteq Reads, UNCHANGED <<Queued, rows, Failed, Dropped, hand, past>>,
           \A r \in Reads : pc'[r] = pc[r],
           \/ pc'[Writer] = pc[Writer]
           \/ pc'[Writer] \notin {"none", "write", "count"} /\ hand = NoRead
    PROVE  Places'
<1>1. \A r \in Reads : pc'[r] \in {"snap", "limit", "emit", "settle"} => r \in Failed'
  BY DEF Places
<1>2. CASE pc'[Writer] = pc[Writer]
  BY <1>1, <1>2 DEF Places
<1>3. CASE pc'[Writer] \notin {"none", "write", "count"} /\ hand = NoRead
  BY <1>1, <1>3 DEF Places
<1> QED
  BY <1>2, <1>3

\* Waking threads moves neither reads nor their callers.
LEMMA KeptWoken ==
    ASSUME TypeOK, Posted, Kept, NEW W \in SUBSET Waiting, NEW t \in {Writer, Watcher}, NEW to,
           Wakes(W, t, to), UNCHANGED <<queue, bytes, rows, counted, past>>,
           t = Watcher => UNCHANGED hand,
           t = Writer => /\ to \in {"look", "none"} /\ hand' = NoRead
                         /\ pc[Writer] \notin {"write", "count"}
                         /\ to = "none" => queue = <<>>
    PROVE  Kept'
<1>1. Writer # Watcher /\ Writer \notin Reads /\ Watcher \notin Reads
  BY LogAssumption
<1>2. W \subseteq {Writer, Watcher} /\ \A u \in W : pc[u] = "wait"
  BY WaitersAre DEF Posted, Stations
<1>3. \A r \in Reads : pc'[r] = pc[r]
  BY <1>1, <1>2 DEF Wakes, Threads
<1>4. pc'[Writer] = IF t = Writer THEN to ELSE IF Writer \in W THEN "look" ELSE pc[Writer]
  BY <1>1 DEF Wakes, Threads
<1>5. NoRead \notin Queued /\ (hand # NoRead => hand \in rows \cup Failed \/ t = Watcher)
  BY QueuedAre, LogAssumption DEF Kept, Places
<1>6. queue = <<>> => Queued = {}
  BY DEF Queued
<1>7. UNCHANGED <<Queued, Failed, Dropped>>
  BY DEF Queued, Failed, Dropped
<1>8. Places'
  <2>1. CASE t = Writer
    BY <1>3, <1>4, <1>5, <1>6, <1>7, <2>1, LogAssumption DEF Kept, Places
  <2>2. CASE t = Watcher
    <3>1. Writer \in W => hand = NoRead
      BY <1>2 DEF Posted, Stations, BusyStages
    <3>2. hand' = hand /\ (pc'[Writer] = pc[Writer] \/ (pc'[Writer] = "look" /\ hand = NoRead))
      BY <1>1, <1>4, <2>2, <3>1
    <3> QED
      BY <1>3, <1>7, <3>2, PlacesSame, QueuedAre DEF Kept
  <2> QED
    BY <2>1, <2>2
<1> QED
  BY <1>8 DEF Kept, Bounded

\* Nor does a thread that goes to wait, or comes back from it by itself.
LEMMA KeptMove ==
    ASSUME TypeOK, Posted, Kept, NEW t \in {Writer, Watcher}, NEW to \in {"wait", "lapsed", "idle"},
           pc' = [pc EXCEPT ![t] = to],
           t = Writer => pc[Writer] \in {"look", "wait"},
           UNCHANGED <<queue, bytes, hand, rows, counted, past>>
    PROVE  Kept'
<1>1. t \in Threads /\ t \notin Reads /\ (t = Writer => hand = NoRead)
  BY LogAssumption DEF Threads, Posted, Stations, BusyStages
<1>2. UNCHANGED <<Queued, Failed, Dropped>>
  BY DEF Queued, Failed, Dropped
<1>3. /\ \A r \in Reads : pc'[r] = pc[r]
      /\ pc'[Writer] = pc[Writer] \/ (pc'[Writer] \notin {"none", "write", "count"} /\ hand = NoRead)
  BY <1>1, LogAssumption DEF TypeOK, Threads
<1>4. Places'
  BY <1>2, <1>3, PlacesSame, QueuedAre DEF Kept
<1> QED
  BY <1>4 DEF Kept, Bounded

LEMMA KeptWriter ==
    ASSUME TypeOK, Posted, Kept, WriterStep
    PROVE  Kept'
<1> USE DEF world, log, box, debt
<1>0. Writer \in Threads /\ Writer \notin Reads /\ Writer # Watcher /\ NoRead \notin Reads
  BY LogAssumption DEF Threads
<1>1. CASE Look
  <2>1. pc[Writer] = "look" /\ hand = NoRead
    BY <1>1 DEF Look, Posted, Stations, BusyStages
  <2>2. CASE Retire /\ queue = <<>>
    BY <1>0, <2>1, <2>2, KeptWoken DEF Retire
  <2>3. CASE Take
    BY <2>1, <2>3, KeptTake
  <2>4. CASE Wait(Writer)
    BY <1>0, <2>1, <2>4, KeptMove DEF Wait, Goes
  <2> QED
    BY <1>1, <2>2, <2>3, <2>4 DEF Look
<1>2. CASE Wake
  BY <1>2, KeptTake DEF Wake
<1>3. CASE Write
  <2>1. /\ UNCHANGED <<queue, bytes, hand, counted, past>> /\ pc[Writer] = "write"
        /\ \/ rows' = rows \cup {hand} /\ pc' = [pc EXCEPT ![Writer] = "snap"]
           \/ rows' = rows /\ pc' = [pc EXCEPT ![Writer] = "count"]
    BY <1>3 DEF Write, Goes
  <2>2. /\ \A r \in Reads : pc'[r] = pc[r]
        /\ \/ rows' = rows \cup {hand} /\ pc'[Writer] = "snap"
           \/ rows' = rows /\ pc'[Writer] = "count"
    BY <1>0, <2>1 DEF TypeOK, Threads
  <2>3. hand \in Reads
    BY <2>1 DEF Posted, Stations
  <2>4. UNCHANGED <<Queued, Failed, Dropped>>
    BY <2>1 DEF Queued, Failed, Dropped
  <2>5. Places'
    BY <1>0, <2>1, <2>2, <2>3, <2>4 DEF Kept, Places
  <2> QED
    BY <2>1, <2>5 DEF Kept, Bounded
<1>4. CASE Fail
  <2>1. /\ UNCHANGED <<queue, bytes, hand, rows, past>> /\ pc[Writer] = "count"
        /\ pc' = [pc EXCEPT ![Writer] = "snap"]
    BY <1>4 DEF Fail, Goes
  <2>2. pc'[Writer] = "snap" /\ \A r \in Reads : pc'[r] = pc[r]
    BY <1>0, <2>1 DEF TypeOK, Threads
  <2>3. Failed' = Failed \cup {hand} /\ Dropped' = Dropped
    BY <1>4, CountedIs, ZeroType DEF Fail
  <2>4. Queued' = Queued
    BY <2>1 DEF Queued
  <2>5. Places'
    BY <1>0, <2>1, <2>2, <2>3, <2>4 DEF Kept, Places
  <2> QED
    BY <2>1, <2>5 DEF Kept, Bounded
<1>5. CASE Finish
  BY <1>0, <1>5, KeptWoken DEF Finish
<1> QED
  BY <1>1, <1>2, <1>3, <1>4, <1>5, KeptSignal DEF WriterStep, Signallers

LEMMA KeptOther ==
    ASSUME TypeOK, Posted, Kept,
           \/ WaitIdle \/ Shutdown \/ Deadline \/ Exit \/ Minute \/ Outage
           \/ \E t \in {Writer, Watcher} : Lapse(t)
    PROVE  Kept'
<1> USE DEF world, log, box, debt
<1>1. CASE UNCHANGED <<bytes, queue, hand, rows, counted, pc>> /\ (past => past')
  BY <1>1 DEF Kept, Bounded, Places, Queued, Failed, Dropped
<1>2. CASE WaitIdle
  <2>1. Watcher # Writer
    BY LogAssumption
  <2> QED
    BY <1>2, <2>1, KeptMove DEF WaitIdle, Wait, Goes
<1>3. CASE Shutdown
  BY <1>3, KeptWoken, LogAssumption DEF Shutdown
<1>4. ASSUME NEW t \in {Writer, Watcher}, Lapse(t)
      PROVE  Kept'
  <2>1. t = Writer => pc[Writer] = "wait"
    BY <1>4 DEF Lapse, Posted, Stations, Waiting
  <2> QED
    BY <1>4, <2>1, KeptMove DEF Lapse, Goes
<1> QED
  BY <1>1, <1>2, <1>3, <1>4 DEF Deadline, Exit, Minute, Outage

-----------------------------------------------------------------------------
(* Sums *)

Sum(f, S) == SumFunctionOnSet(f, S)

LEMMA LeastNatural ==
    ASSUME NEW S, S \subseteq Nat, S # {}
    PROVE  \E x \in S : \A y \in S : x <= y
<1> DEFINE R == {ss \in Nat \X Nat : ss[1] < ss[2]}
<1>1. IsWellFoundedOn(R, Nat)
  BY NatLessThanWellFounded DEF OpToRel
<1>2. PICK x \in S : \A y \in S : ~(<<y, x>> \in R)
  <2> HIDE DEF R
  <2> QED
    BY <1>1, WFMin
<1>3. \A y \in S : ~(y < x)
  BY <1>2
<1> QED
  BY <1>3

\* Among the subsets of a finite set one is least.
LEMMA LeastSubset ==
    ASSUME NEW S, IsFiniteSet(S), NEW F, F \subseteq SUBSET S, F # {}
    PROVE  \E T \in F : \A x \in T : T \ {x} \notin F
<1> DEFINE N == {Cardinality(T) : T \in F}
<1>1. \A T \in F : IsFiniteSet(T) /\ Cardinality(T) \in Nat
  BY FS_Subset, FS_CardinalityType
<1>2. N \subseteq Nat /\ N # {}
  BY <1>1
<1>3. PICK n \in N : \A m \in N : n <= m
  <2> HIDE DEF N
  <2> QED
    BY <1>2, LeastNatural
<1>4. PICK T \in F : n = Cardinality(T)
  BY <1>3
<1>5. ASSUME NEW x \in T, T \ {x} \in F PROVE FALSE
  <2>1. Cardinality(T \ {x}) = Cardinality(T) - 1
    BY <1>1, FS_RemoveElement
  <2>2. n <= Cardinality(T \ {x})
    BY <1>3, <1>5
  <2> QED
    BY <1>1, <1>4, <2>1, <2>2
<1> QED
  BY <1>5

\* What the fold computes along the way.
Pick(S) == CHOOSE x \in S : TRUE
Folded(g, f, S) ==
    g = [s \in SUBSET S |-> IF s = {} THEN 0 ELSE f[Pick(s)] + g[s \ {Pick(s)}]]

LEMMA SumIsFold ==
    ASSUME NEW f, NEW S
    PROVE  Sum(f, S) = (CHOOSE g : Folded(g, f, S))[S]
BY DEF Sum, SumFunctionOnSet, FoldFunctionOnSet, MapThenFoldSet, Folded, Pick

LEMMA FoldAt ==
    ASSUME NEW f, NEW S, NEW g, Folded(g, f, S), NEW s \in SUBSET S
    PROVE  g[s] = IF s = {} THEN 0 ELSE f[Pick(s)] + g[s \ {Pick(s)}]
<1> DEFINE h == [t \in SUBSET S |-> IF t = {} THEN 0 ELSE f[Pick(t)] + g[t \ {Pick(t)}]]
<1>1. h[s] = IF s = {} THEN 0 ELSE f[Pick(s)] + g[s \ {Pick(s)}]
  OBVIOUS
<1>2. g = h
  BY DEF Folded
<1> HIDE DEF h
<1> QED
  BY <1>1, <1>2

LEMMA PickIn == ASSUME NEW S, S # {} PROVE Pick(S) \in S
BY DEF Pick

\* Two folds agree on the sets they share.
LEMMA FoldsAgree ==
    ASSUME NEW f, NEW S, NEW g, Folded(g, f, S), NEW e, NEW T, NEW h, Folded(h, e, T),
           IsFiniteSet(T), T \subseteq S, \A x \in T : f[x] = e[x]
    PROVE  \A s \in SUBSET T : g[s] = h[s]
<1> DEFINE F == {s \in SUBSET T : g[s] # h[s]}
<1> SUFFICES ASSUME F # {} PROVE FALSE
  OBVIOUS
<1>1. F \subseteq SUBSET T
  OBVIOUS
<1>2. PICK s \in F : \A x \in s : s \ {x} \notin F
  <2> HIDE DEF F
  <2> QED
    BY <1>1, LeastSubset
<1>3. s \in SUBSET T /\ s \in SUBSET S /\ g[s] # h[s]
  OBVIOUS
<1>9. \A x \in s : g[s \ {x}] = h[s \ {x}]
  BY <1>2, <1>3
<1> HIDE DEF F
<1>4. g[s] = (IF s = {} THEN 0 ELSE f[Pick(s)] + g[s \ {Pick(s)}])
  BY <1>3, FoldAt
<1>5. h[s] = (IF s = {} THEN 0 ELSE e[Pick(s)] + h[s \ {Pick(s)}])
  BY <1>3, FoldAt
<1>6. s # {}
  BY <1>3, <1>4, <1>5
<1>7. Pick(s) \in s
  BY <1>6, PickIn
<1>8. f[Pick(s)] = e[Pick(s)]
  BY <1>3, <1>7
<1> QED
  BY <1>3, <1>4, <1>5, <1>6, <1>7, <1>8, <1>9

LEMMA FoldIs ==
    ASSUME NEW f, NEW S, IsFiniteSet(S)
    PROVE  \E g : Folded(g, f, S)
<1> DEFINE D(n) == {s \in SUBSET S : Cardinality(s) <= n}
           Good(n, g) == \A s \in D(n) : g[s] = IF s = {} THEN 0 ELSE f[Pick(s)] + g[s \ {Pick(s)}]
           Bad == {n \in Nat : ~\E g : Good(n, g)}
<1>1. \A s \in SUBSET S : IsFiniteSet(s) /\ Cardinality(s) \in Nat
  BY FS_Subset, FS_CardinalityType
<1>2. Bad = {}
  <2> SUFFICES ASSUME Bad # {} PROVE FALSE
    OBVIOUS
  <2>1. PICK n \in Bad : \A m \in Bad : n <= m
    <3>1. Bad \subseteq Nat
      OBVIOUS
    <3> HIDE DEF Bad
    <3> QED
      BY <3>1, LeastNatural
  <2>2. n \in Nat /\ ~\E g : Good(n, g)
    BY <2>1
  <2>3. CASE n = 0
    <3> DEFINE g == [s \in SUBSET S |-> 0]
    <3>1. \A s \in D(0) : s = {}
      BY <1>1, FS_EmptySet
    <3>2. Good(0, g)
      BY <3>1
    <3> QED
      BY <2>2, <2>3, <3>2
  <2>4. CASE n # 0
    <3>1. n - 1 \in Nat /\ n - 1 \notin Bad
      <4> HIDE DEF Bad
      <4> QED
        BY <2>1, <2>2, <2>4
    <3>2. PICK h : Good(n - 1, h)
      BY <3>1
    <3> DEFINE g == [s \in SUBSET S |-> IF s = {} THEN 0 ELSE f[Pick(s)] + h[s \ {Pick(s)}]]
    <3>3. ASSUME NEW s \in SUBSET S, Cardinality(s) <= n - 1 PROVE g[s] = h[s]
      <4>1. s \in D(n - 1)
        BY <3>3
      <4> QED
        BY <3>2, <4>1
    <3>4. ASSUME NEW s \in D(n) PROVE g[s] = IF s = {} THEN 0 ELSE f[Pick(s)] + g[s \ {Pick(s)}]
      <4>1. CASE s = {}
        BY <4>1
      <4>2. CASE s # {}
        <5>1. Pick(s) \in s /\ s \ {Pick(s)} \in SUBSET S
          BY <4>2, PickIn
        <5>2. Cardinality(s \ {Pick(s)}) = Cardinality(s) - 1
          BY <1>1, <5>1, FS_RemoveElement
        <5>3. Cardinality(s \ {Pick(s)}) <= n - 1
          BY <1>1, <2>2, <3>4, <5>2
        <5>4. g[s \ {Pick(s)}] = h[s \ {Pick(s)}]
          BY <3>3, <5>1, <5>3
        <5>5. g[s] = f[Pick(s)] + h[s \ {Pick(s)}]
          BY <4>2
        <5> QED
          BY <4>2, <5>4, <5>5
      <4> QED
        BY <4>1, <4>2
    <3>5. Good(n, g)
      BY <3>4
    <3> QED
      BY <2>2, <3>5
  <2> QED
    BY <2>3, <2>4
<1>3. PICK n \in Nat : n = Cardinality(S)
  BY <1>1
<1>4. PICK h : Good(n, h)
  BY <1>2
<1> DEFINE g == [s \in SUBSET S |-> IF s = {} THEN 0 ELSE f[Pick(s)] + h[s \ {Pick(s)}]]
<1>5. \A s \in SUBSET S : s \in D(n)
  BY <1>3, FS_Subset
<1>6. \A s \in SUBSET S : g[s] = h[s]
  BY <1>4, <1>5
<1>7. \A s \in SUBSET S : s # {} => s \ {Pick(s)} \in SUBSET S
  OBVIOUS
<1>8. g = [s \in SUBSET S |-> IF s = {} THEN 0 ELSE f[Pick(s)] + g[s \ {Pick(s)}]]
  <2>1. \A s \in SUBSET S :
           (IF s = {} THEN 0 ELSE f[Pick(s)] + h[s \ {Pick(s)}])
           = (IF s = {} THEN 0 ELSE f[Pick(s)] + g[s \ {Pick(s)}])
    BY <1>6, <1>7
  <2> QED
    BY <2>1
<1> HIDE DEF g
<1> QED
  BY <1>8 DEF Folded
LEMMA SumOf ==
    ASSUME NEW f, NEW S, IsFiniteSet(S)
    PROVE  \E g : Folded(g, f, S) /\ Sum(f, S) = g[S]
<1>1. \E g : Folded(g, f, S)
  BY FoldIs
<1> DEFINE g == CHOOSE g : Folded(g, f, S)
<1>2. Folded(g, f, S)
  BY <1>1
<1> QED
  BY <1>2, SumIsFold

\* A sum depends on what is summed only.
LEMMA SumSame ==
    ASSUME NEW f, NEW e, NEW S, IsFiniteSet(S), \A x \in S : f[x] = e[x]
    PROVE  Sum(f, S) = Sum(e, S)
<1>1. PICK g : Folded(g, f, S) /\ Sum(f, S) = g[S]
  BY SumOf
<1>2. PICK h : Folded(h, e, S) /\ Sum(e, S) = h[S]
  BY SumOf
<1> QED
  BY <1>1, <1>2, FoldsAgree

LEMMA SumFirst ==
    ASSUME NEW f, NEW S, IsFiniteSet(S)
    PROVE  Sum(f, S) = IF S = {} THEN 0 ELSE f[Pick(S)] + Sum(f, S \ {Pick(S)})
<1>1. PICK g : Folded(g, f, S) /\ Sum(f, S) = g[S]
  BY SumOf
<1>2. g[S] = IF S = {} THEN 0 ELSE f[Pick(S)] + g[S \ {Pick(S)}]
  BY <1>1, FoldAt
<1>3. ASSUME S # {} PROVE g[S \ {Pick(S)}] = Sum(f, S \ {Pick(S)})
  <2>1. PICK T : T = S \ {Pick(S)}
    OBVIOUS
  <2>2. IsFiniteSet(T) /\ T \subseteq S
    BY <2>1, FS_Subset
  <2>3. PICK h : Folded(h, f, T) /\ Sum(f, T) = h[T]
    BY <2>2, SumOf
  <2>4. g[T] = h[T]
    BY <1>1, <2>2, <2>3, FoldsAgree
  <2> QED
    BY <2>1, <2>3, <2>4
<1> QED
  BY <1>1, <1>2, <1>3

LEMMA SumEmpty == ASSUME NEW f PROVE Sum(f, {}) = 0
BY SumFirst, FS_EmptySet

LEMMA SumType ==
    ASSUME NEW f, NEW S, IsFiniteSet(S), \A x \in S : f[x] \in Int
    PROVE  Sum(f, S) \in Int
<1> DEFINE F == {s \in SUBSET S : Sum(f, s) \notin Int}
<1> SUFFICES ASSUME F # {} PROVE FALSE
  OBVIOUS
<1>1. F \subseteq SUBSET S
  OBVIOUS
<1>2. PICK s \in F : \A x \in s : s \ {x} \notin F
  <2> HIDE DEF F
  <2> QED
    BY <1>1, LeastSubset
<1>3. s \in SUBSET S /\ Sum(f, s) \notin Int /\ IsFiniteSet(s)
  BY FS_Subset
<1>4. \A x \in s : Sum(f, s \ {x}) \in Int
  BY <1>2, <1>3
<1> HIDE DEF F
<1>5. Sum(f, s) = IF s = {} THEN 0 ELSE f[Pick(s)] + Sum(f, s \ {Pick(s)})
  BY <1>3, SumFirst
<1>6. s # {} => Pick(s) \in s
  BY PickIn
<1> QED
  BY <1>3, <1>4, <1>5, <1>6

\* A sum is any of its terms and the rest.
LEMMA SumTake ==
    ASSUME NEW f, NEW S, IsFiniteSet(S), \A x \in S : f[x] \in Int, NEW y \in S
    PROVE  Sum(f, S) = f[y] + Sum(f, S \ {y})
<1> DEFINE F == {s \in SUBSET S : \E x \in s : Sum(f, s) # f[x] + Sum(f, s \ {x})}
<1> SUFFICES ASSUME F # {} PROVE FALSE
  OBVIOUS
<1>1. F \subseteq SUBSET S
  OBVIOUS
<1>2. PICK s \in F : \A x \in s : s \ {x} \notin F
  <2> HIDE DEF F
  <2> QED
    BY <1>1, LeastSubset
<1>3. s \in SUBSET S /\ IsFiniteSet(s)
  BY FS_Subset
<1>4. PICK x \in s : Sum(f, s) # f[x] + Sum(f, s \ {x})
  OBVIOUS
<1>5. \A z \in s : \A w \in s \ {z} : Sum(f, s \ {z}) = f[w] + Sum(f, (s \ {z}) \ {w})
  BY <1>2, <1>3
<1> HIDE DEF F
<1>6. PICK z : z = Pick(s)
  OBVIOUS
<1>7. z \in s /\ Sum(f, s) = f[z] + Sum(f, s \ {z})
  BY <1>3, <1>4, <1>6, SumFirst, PickIn
<1>8. x # z
  BY <1>4, <1>7
<1>9. Sum(f, s \ {z}) = f[x] + Sum(f, (s \ {z}) \ {x}) /\ Sum(f, s \ {x}) = f[z] + Sum(f, (s \ {x}) \ {z})
  BY <1>4, <1>5, <1>7, <1>8
<1>10. (s \ {z}) \ {x} = (s \ {x}) \ {z}
  OBVIOUS
<1>11. f[x] \in Int /\ f[z] \in Int /\ Sum(f, (s \ {z}) \ {x}) \in Int
  <2>1. PICK t : t = (s \ {z}) \ {x}
    OBVIOUS
  <2>2. IsFiniteSet(t) /\ \A w \in t : f[w] \in Int
    BY <1>3, <2>1, FS_Subset
  <2> QED
    BY <1>3, <1>4, <1>7, <2>1, <2>2, SumType
<1>12. f[z] + (f[x] + Sum(f, (s \ {z}) \ {x})) = f[x] + (f[z] + Sum(f, (s \ {z}) \ {x}))
  BY <1>11
<1> QED
  BY <1>4, <1>7, <1>9, <1>10, <1>12

\* One more term.
LEMMA SumAdd ==
    ASSUME NEW f, NEW S, IsFiniteSet(S), NEW y, y \notin S, \A x \in S \cup {y} : f[x] \in Int
    PROVE  Sum(f, S \cup {y}) = f[y] + Sum(f, S)
<1>1. PICK T : T = S \cup {y}
  OBVIOUS
<1>2. IsFiniteSet(T) /\ y \in T /\ T \ {y} = S
  BY <1>1, FS_AddElement
<1> QED
  BY <1>1, <1>2, SumTake

\* A sum over numbers, moved by one.
LEMMA SumMoved ==
    ASSUME NEW f, NEW e, NEW n \in Nat, \A i \in 1..n : e[i] = f[i + 1] /\ e[i] \in Int
    PROVE  Sum(e, 1..n) = Sum(f, 2..(n + 1))
<1> DEFINE Bad == {m \in 0..n : Sum(e, 1..m) # Sum(f, 2..(m + 1))}
<1> SUFFICES ASSUME Bad # {} PROVE FALSE
  OBVIOUS
<1>1. PICK m \in Bad : \A k \in Bad : m <= k
  <2>1. Bad \subseteq Nat
    OBVIOUS
  <2> HIDE DEF Bad
  <2> QED
    BY <2>1, LeastNatural
<1>2. m \in 0..n /\ Sum(e, 1..m) # Sum(f, 2..(m + 1))
  OBVIOUS
<1>3. m = 0 \/ Sum(e, 1..(m - 1)) = Sum(f, 2..((m - 1) + 1))
  <2> SUFFICES ASSUME m # 0 PROVE m - 1 \in 0..n /\ m - 1 \notin Bad
    OBVIOUS
  <2> HIDE DEF Bad
  <2> QED
    BY <1>1, <1>2
<1> HIDE DEF Bad
<1>4. CASE m = 0
  <2>1. 1..m = {} /\ 2..(m + 1) = {}
    BY <1>4
  <2> QED
    BY <1>2, <2>1, SumEmpty
<1>5. CASE m # 0
  <2>1. /\ 1..m = (1..(m - 1)) \cup {m} /\ m \notin 1..(m - 1)
        /\ 2..(m + 1) = (2..m) \cup {m + 1} /\ m + 1 \notin 2..m
        /\ (m - 1) + 1 = m
    BY <1>2, <1>5
  <2>2. IsFiniteSet(1..(m - 1)) /\ IsFiniteSet(2..m)
    BY <1>2, <1>5, FS_Interval
  <2>3. \A i \in 1..m : e[i] \in Int
    BY <1>2
  <2>4. \A i \in 2..(m + 1) : f[i] \in Int
    <3> SUFFICES ASSUME NEW i \in 2..(m + 1) PROVE f[i] \in Int
      OBVIOUS
    <3>1. i - 1 \in 1..n /\ (i - 1) + 1 = i
      BY <1>2
    <3> QED
      BY <3>1
  <2>5. Sum(e, 1..m) = e[m] + Sum(e, 1..(m - 1))
    <3>1. PICK A : A = 1..(m - 1)
      OBVIOUS
    <3>2. IsFiniteSet(A) /\ m \notin A /\ 1..m = A \cup {m}
      BY <2>1, <2>2, <3>1
    <3>3. \A i \in A \cup {m} : e[i] \in Int
      BY <2>3, <3>2
    <3>4. Sum(e, A \cup {m}) = e[m] + Sum(e, A)
      BY <3>2, <3>3, SumAdd
    <3> QED
      BY <3>1, <3>2, <3>4
  <2>6. Sum(f, 2..(m + 1)) = f[m + 1] + Sum(f, 2..m)
    <3>1. PICK A, y : A = 2..m /\ y = m + 1
      OBVIOUS
    <3>2. IsFiniteSet(A) /\ y \notin A /\ 2..(m + 1) = A \cup {y}
      BY <2>1, <2>2, <3>1
    <3>3. \A i \in A \cup {y} : f[i] \in Int
      BY <2>4, <3>2
    <3>4. Sum(f, A \cup {y}) = f[y] + Sum(f, A)
      BY <3>2, <3>3, SumAdd
    <3> QED
      BY <3>1, <3>2, <3>4
  <2>7. e[m] = f[m + 1]
    BY <1>2, <1>5
  <2> QED
    BY <1>2, <1>3, <1>5, <2>1, <2>5, <2>6, <2>7
<1> QED
  BY <1>4, <1>5
-----------------------------------------------------------------------------
(* What is counted is owed, on a row, or about to come off *)

Sizes == [i \in DOMAIN queue |-> Size[queue[i]]]
Weighed == bytes = Sum(Sizes, DOMAIN queue)

\* The signallers whose row is out and whose counts are not yet taken off.
Settling == {t \in Signallers : pc[t] = "settle"}
Snaps(k) == [t \in Signallers |-> snap[t][k]]
Reported(k) == Sum(Snaps(k), Settling)
Tallied == \A k \in DOMAIN Zero : owed[k] + surfaced[k] = Cardinality(counted[k]) + Reported(k)
\* A read is counted as dropped once, when its caller is told.
Unasked == \A r \in Reads : pc[r] \in {"new", "drop"} => r \notin Dropped

Tally == Weighed /\ Tallied /\ Unasked

LEMMA SignallersFinite == IsFiniteSet(Signallers)
BY LogAssumption, FS_AddElement DEF Signallers

LEMMA ReportedIs ==
    ASSUME NEW k, NEW f, f = Snaps(k), NEW S, S = Settling
    PROVE  Reported(k) = Sum(f, S)
BY DEF Reported

LEMMA ReportedNext ==
    ASSUME NEW k, NEW f, f = Snaps(k)', NEW S, S = Settling'
    PROVE  Reported(k)' = Sum(f, S)
BY DEF Reported

LEMMA WeighedIs ==
    ASSUME NEW f, f = Sizes, NEW S, S = DOMAIN queue
    PROVE  Weighed <=> bytes = Sum(f, S)
BY DEF Weighed

LEMMA WeighedNext ==
    ASSUME NEW f, f = Sizes', NEW S, S = DOMAIN queue'
    PROVE  Weighed' <=> bytes' = Sum(f, S)
BY DEF Weighed

LEMMA WeighedSame ==
    ASSUME Weighed, UNCHANGED <<queue, bytes>>
    PROVE  Weighed'
<1>1. PICK f, S : f = Sizes /\ S = DOMAIN queue
  OBVIOUS
<1>2. f = Sizes' /\ S = DOMAIN queue'
  BY <1>1 DEF Sizes
<1> QED
  BY <1>1, <1>2, WeighedIs, WeighedNext

LEMMA WeighedEnqueue ==
    ASSUME TypeOK, Weighed, NEW r \in Reads, Enqueue(r)
    PROVE  Weighed'
<1>1. PICK f, e, n, S : f = Sizes /\ e = Sizes' /\ n = Len(queue) /\ S = DOMAIN queue
  OBVIOUS
<1>2. PICK T, m, s : T = DOMAIN queue' /\ m = n + 1 /\ s = Size[r]
  OBVIOUS
<1>3. /\ n \in Nat /\ S = 1..n /\ T = 1..m /\ s \in Nat
      /\ queue'[m] = r /\ \A i \in S : queue'[i] = queue[i] /\ queue[i] \in Reads
  BY <1>1, <1>2, LogAssumption DEF TypeOK, Enqueue
<1>4. IsFiniteSet(S) /\ T = S \cup {m} /\ m \notin S
  <2>1. IsFiniteSet(S)
    BY <1>3, FS_Interval
  <2>2. \A i : i \in T <=> i \in S \/ i = m
    BY <1>2, <1>3
  <2>3. m \notin S
    BY <1>2, <1>3
  <2> QED
    BY <2>1, <2>2, <2>3
<1>5. e[m] = s /\ \A i \in S : e[i] = f[i] /\ f[i] \in Int
  <2>1. \A i \in S : f[i] = Size[queue[i]]
    BY <1>1 DEF Sizes
  <2>2. \A i \in T : e[i] = Size[queue'[i]]
    BY <1>1, <1>2 DEF Sizes
  <2> QED
    BY <1>2, <1>3, <1>4, <2>1, <2>2, LogAssumption
<1>6. Sum(e, S) = Sum(f, S)
  BY <1>4, <1>5, SumSame
<1>7. \A x \in S \cup {m} : e[x] \in Int
  BY <1>3, <1>5
<1>8. Sum(e, S \cup {m}) = e[m] + Sum(e, S)
  BY <1>4, <1>7, SumAdd
<1>9. bytes = Sum(f, S) /\ bytes' = bytes + s /\ bytes \in Int
  BY <1>1, <1>2, WeighedIs DEF Enqueue, TypeOK
<1>10. bytes' = Sum(e, T)
  <2>1. Sum(e, T) = s + Sum(f, S)
    BY <1>4, <1>5, <1>6, <1>8
  <2> QED
    BY <1>3, <1>9, <2>1
<1> QED
  BY <1>1, <1>2, <1>10, WeighedNext

LEMMA WeighedPop ==
    ASSUME TypeOK, Weighed, Pop
    PROVE  Weighed'
<1>1. PICK f, e, n, S : f = Sizes /\ e = Sizes' /\ n = Len(queue) - 1 /\ S = DOMAIN queue
  OBVIOUS
<1>2. PICK T, s : T = DOMAIN queue' /\ s = Size[Head(queue)]
  OBVIOUS
<1>3. /\ n \in Nat /\ S = 1..(n + 1) /\ T = 1..n /\ Head(queue) = queue[1]
      /\ \A i \in T : queue'[i] = queue[i + 1]
      /\ \A i \in S : queue[i] \in Reads
  BY <1>1, <1>2 DEF TypeOK, Pop
<1>4. IsFiniteSet(S) /\ 1 \in S /\ S \ {1} = 2..(n + 1) /\ \A i \in T : i + 1 \in S
  <2>1. IsFiniteSet(1..(n + 1))
    BY <1>3, FS_Interval
  <2>2. (1..(n + 1)) \ {1} = 2..(n + 1)
    BY <1>3
  <2>3. 1 \in S /\ \A i \in T : i + 1 \in S
    BY <1>3
  <2> QED
    BY <1>3, <2>1, <2>2, <2>3
<1>5. \A i \in S : f[i] = Size[queue[i]] /\ f[i] \in Int
  BY <1>1, <1>3, LogAssumption DEF Sizes
<1>6. \A i \in T : e[i] = Size[queue'[i]]
  BY <1>1, <1>2 DEF Sizes
<1>7. \A i \in 1..n : e[i] = f[i + 1] /\ e[i] \in Int
  BY <1>3, <1>4, <1>5, <1>6
<1>8. Sum(e, 1..n) = Sum(f, 2..(n + 1))
  BY <1>3, <1>7, SumMoved
<1>9. Sum(f, S) = f[1] + Sum(f, S \ {1})
  BY <1>4, <1>5, SumTake
<1>10. f[1] = s /\ s \in Int
  BY <1>2, <1>3, <1>4, <1>5
<1>11. Sum(f, S \ {1}) \in Int
  <2>1. PICK U : U = S \ {1}
    OBVIOUS
  <2>2. IsFiniteSet(U) /\ \A i \in U : f[i] \in Int
    BY <1>4, <1>5, <2>1, FS_Subset
  <2> QED
    BY <2>1, <2>2, SumType
<1>12. bytes = Sum(f, S) /\ bytes' = bytes - s
  BY <1>1, <1>2, WeighedIs DEF Pop
<1>13. bytes' = Sum(e, T)
  <2>1. Sum(f, S \ {1}) = Sum(e, T)
    BY <1>3, <1>4, <1>8
  <2>2. bytes = s + Sum(e, T) /\ Sum(e, T) \in Int
    BY <1>9, <1>10, <1>11, <1>12, <2>1
  <2> QED
    BY <1>10, <1>12, <2>2
<1> QED
  BY <1>1, <1>2, <1>13, WeighedNext

LEMMA ReportedSame ==
    ASSUME Settling' = Settling, \A t \in Settling : snap'[t] = snap[t], NEW k
    PROVE  Reported(k)' = Reported(k)
<1>1. PICK f, e, S : f = Snaps(k) /\ e = Snaps(k)' /\ S = Settling
  OBVIOUS
<1>2. S \subseteq Signallers /\ IsFiniteSet(S)
  BY <1>1, SignallersFinite, FS_Subset DEF Settling
<1>3. \A t \in S : f[t] = e[t]
  BY <1>1, <1>2 DEF Snaps
<1>4. Sum(f, S) = Sum(e, S)
  BY <1>2, <1>3, SumSame
<1>5. Reported(k) = Sum(f, S)
  BY <1>1, ReportedIs
<1>6. Reported(k)' = Sum(e, S)
  BY <1>1, ReportedNext
<1> QED
  BY <1>4, <1>5, <1>6

LEMMA ReportedType ==
    ASSUME TypeOK, NEW k \in DOMAIN Zero
    PROVE  Reported(k) \in Int
<1>1. PICK f, S : f = Snaps(k) /\ S = Settling
  OBVIOUS
<1>2. S \subseteq Signallers /\ IsFiniteSet(S)
  BY <1>1, SignallersFinite, FS_Subset DEF Settling
<1>3. \A t \in S : f[t] \in Int
  BY <1>1, <1>2 DEF Snaps, TypeOK
<1> QED
  BY <1>1, <1>2, <1>3, SumType, ReportedIs

\* A row went out: its counts are reported until they come off.
LEMMA ReportedMore ==
    ASSUME TypeOK, NEW t \in Signallers, pc[t] # "settle", Goes(t, "settle"), UNCHANGED snap,
           NEW k \in DOMAIN Zero
    PROVE  Reported(k)' = Reported(k) + snap[t][k]
<1>1. PICK f, S, T : f = Snaps(k) /\ S = Settling /\ T = Settling'
  OBVIOUS
<1>2. f = Snaps(k)'
  BY <1>1 DEF Snaps
<1>3. S \subseteq Signallers /\ IsFiniteSet(S) /\ t \notin S
  BY <1>1, SignallersFinite, FS_Subset DEF Settling
<1>4. T = S \cup {t}
  BY <1>1 DEF Settling, Goes, TypeOK, Threads, Signallers
<1>5. f[t] = snap[t][k] /\ \A u \in S \cup {t} : f[u] \in Int
  BY <1>1, <1>3 DEF Snaps, TypeOK
<1>6. Sum(f, S \cup {t}) = f[t] + Sum(f, S)
  BY <1>3, <1>5, SumAdd
<1>7. Reported(k) = Sum(f, S) /\ Reported(k) \in Int
  BY <1>1, ReportedIs, ReportedType
<1>8. Reported(k)' = Sum(f, T)
  BY <1>1, <1>2, ReportedNext
<1> QED
  BY <1>4, <1>5, <1>6, <1>7, <1>8

LEMMA ReportedLess ==
    ASSUME TypeOK, NEW t \in Signallers, pc[t] = "settle", Returns(t), NEW k \in DOMAIN Zero
    PROVE  Reported(k)' \in Int /\ Reported(k) = Reported(k)' + snap[t][k]
<1>1. PICK f, e, S, T : f = Snaps(k) /\ e = Snaps(k)' /\ S = Settling /\ T = Settling'
  OBVIOUS
<1>2. S \subseteq Signallers /\ IsFiniteSet(S) /\ t \in S
  BY <1>1, SignallersFinite, FS_Subset DEF Settling
<1>3. T = S \ {t}
  BY <1>1 DEF Settling, Returns, After, Goes, TypeOK, Threads, Signallers
<1>4. \A u \in T : u \in Signallers /\ u # t
  BY <1>2, <1>3
<1>5. \A u \in T : f[u] = e[u]
  BY <1>1, <1>4 DEF Snaps, Returns, TypeOK
<1>6. f[t] = snap[t][k] /\ \A u \in S : f[u] \in Int
  BY <1>1, <1>2 DEF Snaps, TypeOK
<1>7. Sum(f, S) = f[t] + Sum(f, S \ {t})
  BY <1>2, <1>6, SumTake
<1>8. IsFiniteSet(T) /\ \A u \in T : f[u] \in Int
  BY <1>2, <1>3, <1>6, FS_Subset
<1>9. Sum(f, T) = Sum(e, T) /\ Sum(f, T) \in Int
  BY <1>5, <1>8, SumSame, SumType
<1>10. Reported(k) = Sum(f, S)
  BY <1>1, ReportedIs
<1>11. Reported(k)' = Sum(e, T)
  BY <1>1, ReportedNext
<1> QED
  BY <1>2, <1>3, <1>6, <1>7, <1>9, <1>10, <1>11
LEMMA TalliedSame ==
    ASSUME Tallied, UNCHANGED <<owed, surfaced, counted>>,
           Settling' = Settling, \A t \in Settling : snap'[t] = snap[t]
    PROVE  Tallied'
<1>1. \A k \in DOMAIN Zero : Reported(k)' = Reported(k)
  BY ReportedSame
<1> QED
  BY <1>1 DEF Tallied

LEMMA SettlingSame ==
    ASSUME \A t \in Signallers : pc'[t] = "settle" <=> pc[t] = "settle"
    PROVE  Settling' = Settling
BY DEF Settling

LEMMA UnaskedSame ==
    ASSUME Unasked, UNCHANGED counted, \A r \in Reads : pc'[r] = pc[r] \/ pc'[r] \notin {"new", "drop"}
    PROVE  Unasked'
BY DEF Unasked, Dropped

\* A read counted for the first time is owed.
LEMMA TalliedCount ==
    ASSUME TypeOK, Tallied, NEW k \in DOMAIN Zero, NEW r \in Reads, r \notin counted[k],
           CountOne(k, r), UNCHANGED <<surfaced, snap>>, Settling' = Settling
    PROVE  Tallied'
<1>1. \A j \in DOMAIN Zero : Reported(j)' = Reported(j)
  BY ReportedSame
<1>2. owed[k] \in Int /\ surfaced[k] \in Int /\ Reported(k) \in Int
  BY ReportedType DEF TypeOK
<1>3. IsFiniteSet(counted[k])
  BY FS_Subset, LogAssumption DEF TypeOK
<1>4. Cardinality(counted[k] \cup {r}) = Cardinality(counted[k]) + 1 /\ Cardinality(counted[k]) \in Nat
  BY <1>3, FS_AddElement, FS_CardinalityType
<1>5. /\ owed'[k] = owed[k] + 1 /\ counted'[k] = counted[k] \cup {r}
      /\ \A j \in DOMAIN Zero \ {k} : owed'[j] = owed[j] /\ counted'[j] = counted[j]
  BY DEF CountOne, TypeOK
<1>6. owed'[k] + surfaced'[k] = Cardinality(counted'[k]) + Reported(k)'
  <2>1. Cardinality(counted'[k]) = Cardinality(counted[k]) + 1
    BY <1>4, <1>5
  <2>2. owed[k] + surfaced[k] = Cardinality(counted[k]) + Reported(k)
    BY DEF Tallied
  <2>3. surfaced' = surfaced /\ Reported(k)' = Reported(k)
    BY <1>1
  <2> QED
    BY <1>2, <1>4, <1>5, <2>1, <2>2, <2>3
<1>7. ASSUME NEW j \in DOMAIN Zero, j # k
      PROVE  owed'[j] + surfaced'[j] = Cardinality(counted'[j]) + Reported(j)'
  BY <1>1, <1>5, <1>7 DEF Tallied
<1> QED
  BY <1>6, <1>7 DEF Tallied

LEMMA TallySignal ==
    ASSUME TypeOK, Posted, Tally, NEW t \in Signallers, Signal(t)
    PROVE  Tally'
<1> USE DEF world, log, box, debt
<1>0. t \in Threads /\ \A u \in Signallers : u \in Threads
  BY DEF Threads, Signallers
<1>1. /\ UNCHANGED <<bytes, queue, counted>>
      /\ \E to \in {"limit", "emit", "settle", After(t)} : pc' = [pc EXCEPT ![t] = to]
  BY DEF Signal, Snapshot, Limit, Emit, Settle, Returns, Goes
<1>2. Weighed' /\ Unasked'
  <2>1. PICK to \in {"limit", "emit", "settle", After(t)} : pc' = [pc EXCEPT ![t] = to]
    BY <1>1
  <2>2. \A r \in Reads : pc'[r] = pc[r] \/ pc'[r] \notin {"new", "drop"}
    BY <1>0, <2>1 DEF TypeOK, After, Threads
  <2> QED
    BY <1>1, <2>2, WeighedSame, UnaskedSame DEF Tally
<1>3. CASE Snapshot(t) \/ Limit(t) \/ (Emit(t) /\ ~ up)
  <2>1. /\ UNCHANGED <<owed, surfaced>>
        /\ pc[t] # "settle"
        /\ \E to \in {"limit", "emit", After(t)} : pc' = [pc EXCEPT ![t] = to]
        /\ snap' = snap \/ \E x : snap' = [snap EXCEPT ![t] = x]
    BY <1>3 DEF Snapshot, Limit, Emit, Returns, Goes
  <2>2. PICK to \in {"limit", "emit", After(t)} : pc' = [pc EXCEPT ![t] = to]
    BY <2>1
  <2>3. Settling' = Settling
    BY <1>0, <2>1, <2>2, SettlingSame DEF TypeOK, After
  <2>4. \A u \in Settling : snap'[u] = snap[u]
    <3>1. \A u \in Settling : u \in Signallers /\ u # t
      BY <2>1 DEF Settling
    <3> QED
      BY <2>1, <3>1 DEF TypeOK
  <2> QED
    BY <1>1, <1>2, <2>1, <2>3, <2>4, TalliedSame DEF Tally
<1>4. CASE Emit(t) /\ up
  <2>1. /\ surfaced' = Plus(surfaced, snap[t]) /\ Goes(t, "settle")
        /\ pc[t] # "settle" /\ UNCHANGED <<owed, snap>>
    BY <1>4 DEF Emit
  <2>2. \A k \in DOMAIN Zero : Reported(k)' = Reported(k) + snap[t][k]
    BY <2>1, ReportedMore
  <2>3. ASSUME NEW k \in DOMAIN Zero
        PROVE  owed'[k] + surfaced'[k] = Cardinality(counted'[k]) + Reported(k)'
    <3>1. surfaced'[k] = surfaced[k] + snap[t][k] /\ owed' = owed /\ counted' = counted
      BY <1>1, <2>1 DEF Plus
    <3>2. owed[k] + surfaced[k] = Cardinality(counted[k]) + Reported(k)
      BY DEF Tally, Tallied
    <3>3. /\ owed[k] \in Int /\ surfaced[k] \in Int /\ snap[t][k] \in Int /\ Reported(k) \in Int
          /\ Cardinality(counted[k]) \in Int
      BY ReportedType, FS_Subset, FS_CardinalityType, LogAssumption DEF TypeOK
    <3>4. Reported(k)' = Reported(k) + snap[t][k]
      BY <2>2
    <3>5. PICK o, s, x, c : o = owed[k] /\ s = surfaced[k] /\ x = snap[t][k] /\ c = Cardinality(counted[k])
      OBVIOUS
    <3>6. PICK n : n = Reported(k)'
      OBVIOUS
    <3>7. o + (s + x) = c + n
      BY <3>2, <3>3, <3>4, <3>5, <3>6
    <3>8. owed'[k] = o /\ surfaced'[k] = s + x /\ Cardinality(counted'[k]) = c
      BY <3>1, <3>5
    <3> QED
      BY <3>6, <3>7, <3>8
  <2> QED
    BY <1>2, <2>3 DEF Tally, Tallied
<1>5. CASE Settle(t)
  <2>1. /\ owed' = Minus(owed, snap[t]) /\ Returns(t) /\ pc[t] = "settle" /\ UNCHANGED surfaced
    BY <1>5 DEF Settle
  <2>2. \A k \in DOMAIN Zero : Reported(k)' \in Int /\ Reported(k) = Reported(k)' + snap[t][k]
    BY <2>1, ReportedLess
  <2>3. ASSUME NEW k \in DOMAIN Zero
        PROVE  owed'[k] + surfaced'[k] = Cardinality(counted'[k]) + Reported(k)'
    <3>1. owed'[k] = owed[k] - snap[t][k] /\ surfaced' = surfaced /\ counted' = counted
      BY <1>1, <2>1 DEF Minus
    <3>2. owed[k] + surfaced[k] = Cardinality(counted[k]) + Reported(k)
      BY DEF Tally, Tallied
    <3>3. /\ owed[k] \in Int /\ surfaced[k] \in Int /\ snap[t][k] \in Int
          /\ Cardinality(counted[k]) \in Int
      BY FS_Subset, FS_CardinalityType, LogAssumption DEF TypeOK
    <3>4. Reported(k)' \in Int /\ Reported(k) = Reported(k)' + snap[t][k]
      BY <2>2
    <3>5. PICK o, s, x, c : o = owed[k] /\ s = surfaced[k] /\ x = snap[t][k] /\ c = Cardinality(counted[k])
      OBVIOUS
    <3>6. PICK n : n = Reported(k)'
      OBVIOUS
    <3>7. (o - x) + s = c + n
      BY <3>2, <3>3, <3>4, <3>5, <3>6
    <3>8. owed'[k] = o - x /\ surfaced'[k] = s /\ Cardinality(counted'[k]) = c
      BY <3>1, <3>5
    <3> QED
      BY <3>6, <3>7, <3>8
  <2> QED
    BY <1>2, <2>3 DEF Tally, Tallied
<1> QED
  BY <1>3, <1>4, <1>5 DEF Signal
\* Nothing is counted or reported, and no signaller comes to or leaves its row.
LEMMA TalliedStill ==
    ASSUME Tallied, UNCHANGED <<owed, surfaced, counted, snap>>,
           \A t \in Signallers : pc'[t] = "settle" <=> pc[t] = "settle"
    PROVE  Tallied'
BY TalliedSame, SettlingSame

\* A thread that moves, and was not at its row nor comes to it.
LEMMA TalliedMove ==
    ASSUME TypeOK, Tallied, UNCHANGED <<owed, surfaced, counted, snap>>, NEW t \in Threads, NEW to,
           pc' = [pc EXCEPT ![t] = to], pc[t] # "settle", to # "settle"
    PROVE  Tallied'
<1>1. \A u \in Signallers : pc'[u] = "settle" <=> pc[u] = "settle"
  BY DEF TypeOK, Threads, Signallers
<1> QED
  BY <1>1, TalliedStill

\* Woken threads were waiting, or not yet running.
LEMMA TalliedWoken ==
    ASSUME TypeOK, Tallied, UNCHANGED <<owed, surfaced, counted, snap>>,
           NEW W, \A u \in W : pc[u] \in {"wait", "none"},
           NEW t \in Threads, NEW to, Wakes(W, t, to), pc[t] # "settle", to # "settle"
    PROVE  Tallied'
<1>1. \A u \in Signallers : pc'[u] = "settle" <=> pc[u] = "settle"
  BY DEF Wakes, Threads, Signallers
<1> QED
  BY <1>1, TalliedStill

LEMMA TallyCaller ==
    ASSUME TypeOK, Posted, Kept, Tally, NEW r \in Reads, Submit(r) \/ Drop(r) \/ Raise(r)
    PROVE  Tally'
<1> USE DEF world, log, box, debt
<1>0. /\ r \in Threads /\ r \in Signallers /\ r # Writer /\ r # Watcher /\ Writer \in Threads
      /\ "dropped" \in DOMAIN Zero /\ "failed" \in DOMAIN Zero
  BY LogAssumption, ZeroType DEF Threads, Signallers
<1>1. CASE Submit(r) /\ Hand(r)
  <2>1. Weighed'
    BY <1>1, WeighedEnqueue DEF Hand, Tally
  <2>2. PICK W : /\ W = Oldest \cup (IF pc[Writer] = "none" THEN {Writer} ELSE {})
                 /\ Wakes(W, r, "done")
    BY <1>1 DEF Hand
  <2>3. \A u \in W : pc[u] \in {"wait", "none"} /\ u \notin Reads
    BY <2>2, YoungerWait, WaitersAre, LogAssumption DEF Posted, Stations
  <2>4. pc[r] = "new" /\ UNCHANGED <<owed, surfaced, counted, snap>>
    BY <1>1 DEF Submit
  <2>5. Tallied'
    BY <1>0, <2>2, <2>3, <2>4, TalliedWoken DEF Tally
  <2>6. \A u \in Reads : pc'[u] = pc[u] \/ pc'[u] \notin {"new", "drop"}
    BY <2>2, <2>3 DEF Wakes, Threads
  <2> QED
    BY <2>1, <2>4, <2>5, <2>6, UnaskedSame DEF Tally
<1>2. CASE Submit(r) /\ (HandUnstarted(r) \/ Refuse(r))
  <2>1. pc[r] = "new" /\ pc' = [pc EXCEPT ![r] = "drop"] /\ UNCHANGED <<owed, surfaced, counted, snap>>
    BY <1>2 DEF Submit, HandUnstarted, Refuse, Goes
  <2>2. Weighed'
    BY <1>2, WeighedEnqueue, WeighedSame DEF HandUnstarted, Refuse, Tally
  <2>3. Tallied'
    BY <1>0, <2>1, TalliedMove DEF Tally
  <2>4. Unasked'
    BY <1>0, <2>1 DEF Tally, Unasked, Dropped, TypeOK
  <2> QED
    BY <2>2, <2>3, <2>4 DEF Tally
<1>3. CASE Drop(r)
  <2>1. /\ pc[r] = "drop" /\ pc' = [pc EXCEPT ![r] = "done"] /\ CountOne("dropped", r)
        /\ UNCHANGED <<surfaced, snap, queue, bytes>>
    BY <1>3 DEF Drop, Goes
  <2>2. Settling' = Settling
    BY <1>0, <2>1, SettlingSame DEF TypeOK, Threads, Signallers
  <2>3. r \notin counted["dropped"]
    BY <2>1 DEF Tally, Unasked, Dropped
  <2>4. Tallied'
    BY <1>0, <2>1, <2>2, <2>3, TalliedCount DEF Tally
  <2>5. Dropped' = Dropped \cup {r}
    BY <1>0, <2>1, CountedIs
  <2>6. \A u \in Reads : pc'[u] \in {"new", "drop"} => u # r /\ pc[u] \in {"new", "drop"}
    BY <1>0, <2>1 DEF TypeOK, Threads
  <2>7. Unasked'
    BY <2>5, <2>6 DEF Tally, Unasked
  <2> QED
    BY <2>1, <2>4, <2>7, WeighedSame DEF Tally
<1>4. CASE Raise(r)
  <2>1. /\ pc[r] = "new" /\ CountOne("failed", r) /\ UNCHANGED <<surfaced, snap, queue, bytes>>
        /\ \E to \in {"snap", "done"} : pc' = [pc EXCEPT ![r] = to]
    BY <1>4 DEF Raise, Goes
  <2>2. PICK to \in {"snap", "done"} : pc' = [pc EXCEPT ![r] = to]
    BY <2>1
  <2>3. Settling' = Settling
    BY <1>0, <2>1, <2>2, SettlingSame DEF TypeOK, Threads, Signallers
  <2>4. r \notin counted["failed"]
    BY <2>1 DEF Kept, Places, Failed
  <2>5. Tallied'
    BY <1>0, <2>1, <2>3, <2>4, TalliedCount DEF Tally
  <2>6. Dropped' = Dropped
    BY <1>0, <2>1, CountedIs
  <2>7. \A u \in Reads : pc'[u] \in {"new", "drop"} => pc[u] \in {"new", "drop"}
    BY <1>0, <2>1, <2>2 DEF TypeOK, Threads
  <2>8. Unasked'
    BY <2>6, <2>7 DEF Tally, Unasked
  <2> QED
    BY <2>1, <2>5, <2>8, WeighedSame DEF Tally
<1> QED
  BY <1>1, <1>2, <1>3, <1>4 DEF Submit

\* A step of the writer or the watcher that neither counts nor reports.
LEMMA TallyMove ==
    ASSUME TypeOK, Tally, UNCHANGED <<queue, bytes, owed, surfaced, counted, snap>>,
           NEW t \in {Writer, Watcher}, NEW to \in Stages \ {"settle"},
           pc' = [pc EXCEPT ![t] = to], pc[t] # "settle"
    PROVE  Tally'
<1>1. t \in Threads /\ t \notin Reads
  BY LogAssumption DEF Threads
<1>2. \A r \in Reads : pc'[r] = pc[r]
  BY <1>1 DEF TypeOK, Threads
<1> QED
  BY <1>1, <1>2, WeighedSame, TalliedMove, UnaskedSame DEF Tally

LEMMA TallyWoken ==
    ASSUME TypeOK, Posted, Tally, UNCHANGED <<queue, bytes, owed, surfaced, counted, snap>>,
           NEW t \in {Writer, Watcher}, NEW to \in Stages \ {"settle"},
           Wakes(Waiting, t, to), pc[t] # "settle"
    PROVE  Tally'
<1>1. t \in Threads /\ t \notin Reads
  BY LogAssumption DEF Threads
<1>2. \A u \in Waiting : pc[u] = "wait" /\ u \notin Reads
  BY WaitersAre, LogAssumption DEF Posted, Stations
<1>3. Tallied'
  BY <1>1, <1>2, TalliedWoken DEF Tally
<1>4. \A r \in Reads : pc'[r] = pc[r]
  BY <1>1, <1>2 DEF Wakes, Threads
<1> QED
  BY <1>3, <1>4, WeighedSame, UnaskedSame DEF Tally

LEMMA TallyTake ==
    ASSUME TypeOK, Tally, pc[Writer] \in {"look", "lapsed"}, Take
    PROVE  Tally'
<1> USE DEF world, log, box, debt
<1>0. Writer \in Threads /\ Writer \notin Reads
  BY LogAssumption DEF Threads
<1>1. CASE Pop
  <2>1. UNCHANGED <<owed, surfaced, counted, snap>> /\ pc' = [pc EXCEPT ![Writer] = "write"]
    BY <1>1 DEF Pop, Goes
  <2>2. \A r \in Reads : pc'[r] = pc[r]
    BY <1>0, <2>1 DEF TypeOK, Threads
  <2> QED
    BY <1>0, <1>1, <2>1, <2>2, WeighedPop, TalliedMove, UnaskedSame DEF Tally
<1>2. CASE GiveUp \/ Idle
  <2>1. /\ UNCHANGED <<queue, bytes, owed, surfaced, counted, snap>>
        /\ \E to \in {"none", "snap", "finish"} : pc' = [pc EXCEPT ![Writer] = to]
    BY <1>2 DEF GiveUp, Idle, Goes
  <2>2. PICK to \in {"none", "snap", "finish"} : pc' = [pc EXCEPT ![Writer] = to]
    BY <2>1
  <2>3. to \in Stages \ {"settle"}
    BY DEF Stages
  <2> QED
    BY <2>1, <2>2, <2>3, TallyMove
<1> QED
  BY <1>1, <1>2 DEF Take

LEMMA TallyWriter ==
    ASSUME TypeOK, Posted, Kept, Tally, WriterStep
    PROVE  Tally'
<1> USE DEF world, log, box, debt
<1>0. Writer \in Threads /\ Writer \in Signallers /\ Writer \notin Reads
  BY LogAssumption DEF Threads, Signallers
<1>1. CASE Look
  <2>1. pc[Writer] = "look"
    BY <1>1 DEF Look
  <2>2. CASE Retire
    BY <2>1, <2>2, TallyWoken DEF Retire, Stages
  <2>3. CASE Take
    BY <2>1, <2>3, TallyTake
  <2>4. CASE Wait(Writer)
    BY <2>1, <2>4, TallyMove DEF Wait, Goes, Stages
  <2> QED
    BY <1>1, <2>2, <2>3, <2>4 DEF Look
<1>2. CASE Wake
  BY <1>2, TallyTake DEF Wake
<1>3. CASE Write
  <2>1. /\ UNCHANGED <<queue, bytes, owed, surfaced, counted, snap>> /\ pc[Writer] = "write"
        /\ \E to \in {"snap", "count"} : pc' = [pc EXCEPT ![Writer] = to]
    BY <1>3 DEF Write, Goes
  <2>2. PICK to \in {"snap", "count"} : pc' = [pc EXCEPT ![Writer] = to]
    BY <2>1
  <2>3. to \in Stages \ {"settle"}
    BY DEF Stages
  <2> QED
    BY <2>1, <2>2, <2>3, TallyMove
<1>4. CASE Fail
  <2>1. /\ pc[Writer] = "count" /\ CountOne("failed", hand) /\ UNCHANGED <<surfaced, snap, queue, bytes>>
        /\ pc' = [pc EXCEPT ![Writer] = "snap"]
    BY <1>4 DEF Fail, Goes
  <2>2. Settling' = Settling
    BY <1>0, <2>1, SettlingSame DEF TypeOK, Threads, Signallers
  <2>3. hand \in Reads /\ hand \notin counted["failed"] /\ "failed" \in DOMAIN Zero
    BY <2>1, ZeroType DEF Kept, Places, Failed, Posted, Stations
  <2>4. Tallied'
    BY <2>1, <2>2, <2>3, TalliedCount DEF Tally
  <2>5. Dropped' = Dropped
    BY <2>1, <2>3, CountedIs
  <2>6. \A u \in Reads : pc'[u] = pc[u]
    BY <1>0, <2>1 DEF TypeOK, Threads
  <2>7. Unasked'
    BY <2>5, <2>6 DEF Tally, Unasked
  <2> QED
    BY <2>1, <2>4, <2>7, WeighedSame DEF Tally
<1>5. CASE Finish
  BY <1>5, TallyWoken DEF Finish, Stages
<1>6. CASE Signal(Writer)
  BY <1>0, <1>6, TallySignal
<1> QED
  BY <1>1, <1>2, <1>3, <1>4, <1>5, <1>6 DEF WriterStep

LEMMA TallyOther ==
    ASSUME TypeOK, Posted, Tally,
           \/ WaitIdle \/ Shutdown \/ Deadline \/ Exit \/ Minute \/ Outage
           \/ \E t \in {Writer, Watcher} : Lapse(t)
    PROVE  Tally'
<1> USE DEF world, log, box, debt
<1>1. CASE UNCHANGED <<queue, bytes, owed, surfaced, counted, snap, pc>>
  BY <1>1, WeighedSame, TalliedStill, UnaskedSame DEF Tally
<1>2. CASE WaitIdle
  BY <1>2, TallyMove DEF WaitIdle, Wait, Goes, Stages
<1>3. CASE Shutdown
  <2>1. PICK to : to = IF Watcher \in Waiting THEN "look" ELSE pc[Watcher]
    OBVIOUS
  <2>2. to \in Stages \ {"settle"} /\ pc[Watcher] # "settle"
    BY <2>1 DEF Posted, Stations, Stages
  <2> QED
    BY <1>3, <2>1, <2>2, TallyWoken DEF Shutdown
<1>4. ASSUME NEW t \in {Writer, Watcher}, Lapse(t)
      PROVE  Tally'
  <2>1. pc[t] = "wait"
    BY <1>4 DEF Lapse, Posted, Stations, Waiting
  <2>2. PICK to : to = IF t = Writer THEN "lapsed" ELSE "idle"
    OBVIOUS
  <2>3. to \in Stages \ {"settle"}
    BY <2>2 DEF Stages
  <2> QED
    BY <1>4, <2>1, <2>2, <2>3, TallyMove DEF Lapse, Goes
<1> QED
  BY <1>1, <1>2, <1>3, <1>4 DEF Deadline, Exit, Minute, Outage

LEMMA TallyStart ==
    ASSUME Init
    PROVE  Tally
<1>1. Settling = {} /\ queue = <<>> /\ DOMAIN queue = {}
  BY LogAssumption DEF Init, Settling, Threads, Signallers
<1>2. Weighed
  <2>1. PICK f, S : f = Sizes /\ S = DOMAIN queue
    OBVIOUS
  <2>2. Sum(f, S) = 0
    BY <1>1, <2>1, SumEmpty
  <2> QED
    BY <2>1, <2>2, WeighedIs DEF Init
<1>3. \A k : Reported(k) = 0
  <2>1. SUFFICES ASSUME NEW k PROVE Reported(k) = 0
    OBVIOUS
  <2>2. PICK f, S : f = Snaps(k) /\ S = Settling
    OBVIOUS
  <2>3. Sum(f, S) = 0
    BY <1>1, <2>2, SumEmpty
  <2> QED
    BY <2>2, <2>3, ReportedIs
<1>4. ASSUME NEW k \in DOMAIN Zero
      PROVE  owed[k] = 0 /\ surfaced[k] = 0 /\ counted[k] = {}
  BY <1>4, ZeroType DEF Init, Zero
<1>5. Tallied
  BY <1>3, <1>4, FS_EmptySet DEF Tallied
<1>6. Unasked
  BY ZeroType DEF Init, Unasked, Dropped
<1> QED
  BY <1>2, <1>5, <1>6 DEF Tally

LEMMA TallyIs ==
    ASSUME Tally
    PROVE  TalliesAddUp
BY DEF Tally, Weighed, Tallied, TalliesAddUp, Sizes, Reported, Snaps, Settling, Sum, SumFunction

-----------------------------------------------------------------------------
(* The theorems *)

Inv == TypeOK /\ Posted /\ Kept /\ Tally

LEMMA TypeStart ==
    ASSUME Init
    PROVE  TypeOK
<1>1. pc \in [Threads -> Stages]
  BY DEF Init, Stages
<1>2. Zero \in [DOMAIN Zero -> Int]
  BY ZeroType
<1>3. /\ counted \in [DOMAIN Zero -> SUBSET Reads]
      /\ snap \in [Signallers -> [DOMAIN Zero -> Int]]
      /\ surfaced \in [DOMAIN Zero -> Int] /\ owed \in [DOMAIN Zero -> Int]
  BY <1>2 DEF Init
<1>4. outages \in 0..MaxOutages
  BY LogAssumption DEF Init
<1>5. /\ up \in BOOLEAN /\ past \in BOOLEAN /\ exited \in BOOLEAN
      /\ stopping \in BOOLEAN /\ last \in BOOLEAN /\ limited \in BOOLEAN
  BY Zenon DEF Init
<1>6. env \in Modes /\ rows \subseteq Reads /\ bytes \in Int /\ hand \in Reads \cup {NoRead}
  BY DEF Init
<1>7. queue \in Seq(Reads) /\ waiters \in Seq({Writer, Watcher})
  BY DEF Init
<1> QED
  BY <1>1, <1>3, <1>4, <1>5, <1>6, <1>7 DEF TypeOK

LEMMA InvStep ==
    ASSUME Inv, [Next]_vars
    PROVE  Inv'
<1>1. CASE UNCHANGED vars
  <2>1. TypeOK'
    BY <1>1 DEF Inv, vars, world, log, box, debt, TypeOK
  <2>2. Posted'
    BY <1>1 DEF Inv, vars, box, Posted, Stations, NobodySleepsThrough, Waiting, Quiet
  <2>3. Kept'
    BY <1>1 DEF Inv, vars, world, log, box, debt, Kept, Bounded, Places, Queued, Failed, Dropped
  <2>4. Tally'
    <3>1. UNCHANGED <<queue, bytes, owed, surfaced, counted, snap, pc>>
      BY <1>1 DEF vars, log, box, debt
    <3> QED
      BY <3>1, WeighedSame, TalliedStill, UnaskedSame DEF Inv, Tally
  <2> QED
    BY <2>1, <2>2, <2>3, <2>4 DEF Inv
<1>2. ASSUME NEW r \in Reads, CallerStep(r)
      PROVE  Inv'
  BY <1>2, SignalType, CallerType, PostedSignal, PostedCaller, KeptSignal, KeptCaller,
     TallySignal, TallyCaller DEF Inv, CallerStep, Signallers
<1>3. CASE WriterStep
  <2>1. pc[Writer] \in {"write", "count"} => hand \in Reads
    BY DEF Inv, Posted, Stations
  <2> QED
    BY <1>3, <2>1, WriterType, PostedWriter, KeptWriter, TallyWriter DEF Inv
<1>4. ASSUME NEW t \in {Writer, Watcher}, Lapse(t)
      PROVE  Inv'
  BY <1>4, LapseType, PostedLapse, KeptOther, TallyOther DEF Inv
<1>5. CASE WaitIdle \/ Shutdown \/ Deadline \/ Exit \/ Minute \/ Outage
  BY <1>5, OtherType, PostedOther, KeptOther, TallyOther DEF Inv
<1> QED
  BY <1>1, <1>2, <1>3, <1>4, <1>5 DEF Next

LEMMA InvAlways == Spec => []Inv
<1>1. Init => Inv
  BY TypeStart, PostedStart, KeptStart, TallyStart DEF Inv
<1>2. Inv /\ [Next]_vars => Inv'
  BY InvStep
<1> QED
  BY <1>1, <1>2, PTL DEF Spec

\* Every variable keeps its type, for any reads, sizes and bounds.
THEOREM TypeCorrect == Spec => []TypeOK
<1>1. Inv => TypeOK
  BY DEF Inv
<1> QED
  BY <1>1, InvAlways, PTL

\* No wakeup is lost: one notify wakes one waiter, and that is enough because
\* the writer, when it waits, waits alone.  (submit, _run, wait_idle)
THEOREM NobodyOversleeps == Spec => []NobodySleepsThrough
<1>1. Inv => NobodySleepsThrough
  BY DEF Inv, Posted
<1> QED
  BY <1>1, InvAlways, PTL

\* The queue keeps its bounds, and every read handed over is queued, in hand,
\* written or counted, at the end of the process too unless the deadline of
\* the shutdown has passed.  (submit, _run, _write, shutdown)
THEOREM EveryReadAccounted == Spec => []ReadsAccounted
<1>1. Inv => ReadsAccounted
  BY DEF Inv, Kept, Bounded, Places, ReadsAccounted, Failed, Dropped
<1> QED
  BY <1>1, InvAlways, PTL

\* The bytes are those of the queue, and a read that was counted is owed or on
\* a failure row: with every signaller that reads the counts before another
\* has taken its own off, what both report comes off twice and no more.
\* (submit, _run, record_failure, surface_pending)
THEOREM TalliesAlwaysAddUp == Spec => []TalliesAddUp
<1>1. Inv => TalliesAddUp
  BY TallyIs DEF Inv
<1> QED
  BY <1>1, InvAlways, PTL
=============================================================================
