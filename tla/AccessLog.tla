------------------------------ MODULE AccessLog ------------------------------
(* The per-key access log (trellis/core/access_log.py): transports hand     *)
(* each read of an API key to a bounded queue, one daemon thread writes the *)
(* rows, and a read that could not be recorded is counted and carried by    *)
(* the next failure row the store accepts.                                  *)
(*                                                                          *)
(* A step is one critical section of the writer's condition variable or of  *)
(* the failure state's lock, or one call of the event log.  The condition's *)
(* waiters are a sequence, as in threading.Condition: notify wakes the      *)
(* oldest.  _busy is TRUE exactly while an entry is in hand.  Reads that    *)
(* carry no key, or with the log switched off, never get here.              *)
EXTENDS Integers, Sequences, FiniteSets, Functions

CONSTANTS
    Reads,              \* the reads served, each on its caller's own thread
    Size,               \* the bytes each holds while it is queued
    Writer, Watcher,    \* the writer thread, and a thread in wait_idle
    MaxEntries, MaxBytes,
    MaxOutages,         \* bound: times the event log stops answering
    Modes,              \* what may happen in a behaviour: subsets of Events
    NoRead

\* A transport fails before it hands over; a body cannot be parsed; the thread
\* cannot be started; someone waits for the queue to drain; the process exits.
Events == {"raise", "garbled", "nothread", "watch", "shutdown"}

Threads == Reads \cup {Writer, Watcher}
Signallers == Reads \cup {Writer}

ASSUME LogAssumption ==
    /\ IsFiniteSet(Reads) /\ Size \in [Reads -> Nat]
    /\ Writer \notin Reads /\ Watcher \notin Reads \cup {Writer}
    /\ NoRead \notin Reads
    /\ MaxEntries \in Nat /\ MaxBytes \in Nat /\ MaxOutages \in Nat
    /\ Modes \subseteq SUBSET Events

VARIABLES
    env,        \* the events that may happen, fixed at the start
    up,         \* the event log answers
    outages,
    rows,       \* the reads with a key_read row
    surfaced,   \* the sums over the failure rows
    queue, bytes, stopping, waiters,    \* AccessLogWriter
    past,       \* the deadline of the shutdown has passed
    hand,       \* the entry the writer took
    last,       \* the writer has a registry to signal through
    owed,       \* reads counted and not yet taken off
    limited,    \* the last signal is under a minute old
    snap,       \* the counts each signaller read
    pc,
    counted,    \* history: the reads counted, by reason
    exited

box == <<queue, bytes, stopping, waiters>>
log == <<rows, surfaced>>
debt == <<owed, limited, counted>>
world == <<up, outages, past, exited>>
vars == <<env, world, log, box, hand, last, debt, snap, pc>>

Zero == [dropped |-> 0, failed |-> 0]
Plus(x, y) == [k \in DOMAIN Zero |-> x[k] + y[k]]
Minus(x, y) == [k \in DOMAIN Zero |-> x[k] - y[k]]

Stages == {"new", "drop", "done", "none", "idle", "look", "wait", "lapsed", "write",
           "count", "snap", "limit", "emit", "settle", "finish"}

TypeOK ==
    /\ env \in Modes
    /\ up \in BOOLEAN /\ outages \in 0..MaxOutages /\ past \in BOOLEAN /\ exited \in BOOLEAN
    /\ rows \subseteq Reads /\ surfaced \in [DOMAIN Zero -> Int]
    /\ queue \in Seq(Reads) /\ bytes \in Int /\ stopping \in BOOLEAN
    /\ waiters \in Seq({Writer, Watcher})
    /\ hand \in Reads \cup {NoRead} /\ last \in BOOLEAN
    /\ owed \in [DOMAIN Zero -> Int] /\ limited \in BOOLEAN
    /\ counted \in [DOMAIN Zero -> SUBSET Reads]
    /\ snap \in [Signallers -> [DOMAIN Zero -> Int]]
    /\ pc \in [Threads -> Stages]

Init ==
    /\ env \in Modes
    /\ up = TRUE /\ outages = 0 /\ past = FALSE /\ exited = FALSE
    /\ rows = {} /\ surfaced = Zero
    /\ queue = <<>> /\ bytes = 0 /\ stopping = FALSE /\ waiters = <<>>
    /\ hand = NoRead /\ last = FALSE
    /\ owed = Zero /\ limited = FALSE /\ counted = [k \in DOMAIN Zero |-> {}]
    /\ snap = [t \in Signallers |-> Zero]
    /\ pc = [t \in Threads |-> CASE t = Writer -> "none"
                                 [] t = Watcher -> "idle"
                                 [] OTHER -> "new"]

Goes(t, to) == pc' = [pc EXCEPT ![t] = to]
\* The threads of W wake, and t goes on; a woken thread takes the lock again.
Wakes(W, t, to) == pc' = [u \in Threads |-> IF u = t THEN to ELSE IF u \in W THEN "look" ELSE pc[u]]
Waiting == {waiters[i] : i \in DOMAIN waiters}
Oldest == IF waiters = <<>> THEN {} ELSE {Head(waiters)}
Younger == IF waiters = <<>> THEN <<>> ELSE Tail(waiters)

-----------------------------------------------------------------------------
(* The caller's side *)

CountOne(kind, r) ==
    /\ owed' = [owed EXCEPT ![kind] = @ + 1]
    /\ counted' = [counted EXCEPT ![kind] = @ \cup {r}]
    /\ UNCHANGED limited

Refused(r) == stopping \/ Len(queue) >= MaxEntries \/ bytes + Size[r] > MaxBytes

Enqueue(r) ==
    /\ queue' = Append(queue, r)
    /\ bytes' = bytes + Size[r]
    /\ UNCHANGED stopping

\* The thread runs, or is started; one waiter is woken.
Hand(r) ==
    /\ ~ Refused(r)
    /\ Enqueue(r)
    /\ waiters' = Younger
    /\ Wakes(Oldest \cup (IF pc[Writer] = "none" THEN {Writer} ELSE {}), r, "done")

\* start() raises: the entry stays in the queue, and is counted dropped.
HandUnstarted(r) ==
    /\ "nothread" \in env /\ pc[Writer] = "none"
    /\ ~ Refused(r)
    /\ Enqueue(r)
    /\ Goes(r, "drop")
    /\ UNCHANGED waiters

Refuse(r) ==
    /\ Refused(r)
    /\ Goes(r, "drop")
    /\ UNCHANGED box

Submit(r) ==
    /\ pc[r] = "new"
    /\ Hand(r) \/ HandUnstarted(r) \/ Refuse(r)
    /\ UNCHANGED <<env, world, log, hand, last, debt, snap>>

Drop(r) ==
    /\ pc[r] = "drop"
    /\ CountOne("dropped", r)
    /\ Goes(r, "done")
    /\ UNCHANGED <<env, world, log, box, hand, last, snap>>

\* The transport fails before it has an entry, with a registry or without.
Raise(r) ==
    /\ "raise" \in env /\ pc[r] = "new"
    /\ CountOne("failed", r)
    /\ \E to \in {"snap", "done"} : Goes(r, to)
    /\ UNCHANGED <<env, world, log, box, hand, last, snap>>

-----------------------------------------------------------------------------
(* One failure row, by the writer or by a caller *)

\* Where a signaller goes on when surface_pending returns; its locals are gone.
After(t) == IF t = Writer THEN "finish" ELSE "done"
Returns(t) == Goes(t, After(t)) /\ snap' = [snap EXCEPT ![t] = Zero]

Snapshot(t) ==
    /\ pc[t] = "snap"
    /\ IF owed = Zero THEN Returns(t)
       ELSE Goes(t, "limit") /\ snap' = [snap EXCEPT ![t] = owed]
    /\ UNCHANGED <<env, world, log, box, hand, last, debt>>

Limit(t) ==
    /\ pc[t] = "limit"
    /\ IF limited THEN Returns(t) ELSE Goes(t, "emit") /\ UNCHANGED snap
    /\ limited' = TRUE
    /\ UNCHANGED <<env, world, log, box, hand, last, owed, counted>>

Emit(t) ==
    /\ pc[t] = "emit"
    /\ IF up
       THEN /\ surfaced' = Plus(surfaced, snap[t])
            /\ Goes(t, "settle")
            /\ UNCHANGED snap
       ELSE Returns(t) /\ UNCHANGED surfaced
    /\ UNCHANGED <<env, world, rows, box, hand, last, debt>>

SettleAll(t) ==
    /\ pc[t] = "settle"
    /\ owed' = Zero
    /\ Returns(t)
    /\ UNCHANGED <<env, world, log, box, hand, last, limited, counted>>

Settle(t) ==
    /\ pc[t] = "settle"
    /\ owed' = Minus(owed, snap[t])
    /\ Returns(t)
    /\ UNCHANGED <<env, world, log, box, hand, last, limited, counted>>

Signal(t) == Snapshot(t) \/ Limit(t) \/ Emit(t) \/ Settle(t)

-----------------------------------------------------------------------------
(* The writer thread *)

\* The deadline of a shutdown has passed: what is queued stays there.
GiveUp ==
    /\ stopping /\ past
    /\ Goes(Writer, "none")
    /\ UNCHANGED <<env, world, log, box, hand, last, debt, snap>>

Pop ==
    /\ ~ (stopping /\ past)
    /\ queue # <<>>
    /\ hand' = Head(queue)
    /\ queue' = Tail(queue)
    /\ bytes' = bytes - Size[Head(queue)]
    /\ Goes(Writer, "write")
    /\ UNCHANGED <<env, world, log, stopping, waiters, last, debt, snap>>

\* Nothing came for a minute: the counts that wait are signalled.
IdleSkips ==
    /\ ~ (stopping /\ past)
    /\ queue = <<>>
    /\ Goes(Writer, "finish")
    /\ UNCHANGED <<env, world, log, box, hand, last, debt, snap>>

Idle ==
    /\ ~ (stopping /\ past)
    /\ queue = <<>>
    /\ Goes(Writer, IF last THEN "snap" ELSE "finish")
    /\ UNCHANGED <<env, world, log, box, hand, last, debt, snap>>

Take == GiveUp \/ Pop \/ Idle

Retire ==
    /\ stopping
    /\ waiters' = <<>>
    /\ Wakes(Waiting, Writer, "none")
    /\ UNCHANGED <<env, world, log, queue, bytes, stopping, hand, last, debt, snap>>

Wait(t) ==
    /\ waiters' = Append(waiters, t)
    /\ Goes(t, "wait")
    /\ UNCHANGED <<env, world, log, queue, bytes, stopping, hand, last, debt, snap>>

LookAtStopping ==
    /\ pc[Writer] = "look"
    /\ IF stopping THEN Retire
       ELSE IF queue # <<>> THEN Take
       ELSE Wait(Writer)

Look ==
    /\ pc[Writer] = "look"
    /\ IF queue # <<>> THEN Take
       ELSE IF stopping THEN Retire
       ELSE Wait(Writer)

Wake == pc[Writer] = "lapsed" /\ Take

Write ==
    /\ pc[Writer] = "write"
    /\ last' = TRUE
    /\ \/ /\ up
          /\ rows' = rows \cup {hand}
          /\ Goes(Writer, "snap")
       \/ /\ ~ up \/ "garbled" \in env
          /\ Goes(Writer, "count")
          /\ UNCHANGED rows
    /\ UNCHANGED <<env, world, surfaced, box, hand, debt, snap>>

Fail ==
    /\ pc[Writer] = "count"
    /\ CountOne("failed", hand)
    /\ Goes(Writer, "snap")
    /\ UNCHANGED <<env, world, log, box, hand, last, snap>>

FinishQuietly ==
    /\ pc[Writer] = "finish"
    /\ hand' = NoRead
    /\ Goes(Writer, "look")
    /\ UNCHANGED <<env, world, log, box, last, debt, snap>>

Finish ==
    /\ pc[Writer] = "finish"
    /\ hand' = NoRead
    /\ waiters' = <<>>
    /\ Wakes(Waiting, Writer, "look")
    /\ UNCHANGED <<env, world, log, queue, bytes, stopping, last, debt, snap>>

WriterStep == Look \/ Wake \/ Write \/ Fail \/ Finish \/ Signal(Writer)

-----------------------------------------------------------------------------
(* wait_idle, and the end of the process *)

Quiet == queue = <<>> /\ hand = NoRead

WaitIdle ==
    /\ "watch" \in env
    /\ pc[Watcher] \in {"idle", "look"}
    /\ IF Quiet
       THEN Goes(Watcher, "idle") /\ UNCHANGED <<env, world, log, box, hand, last, debt, snap>>
       ELSE Wait(Watcher)

\* A wait times out: the thread leaves the waiters and takes the lock again.
Lapse(t) ==
    /\ \E i \in DOMAIN waiters :
          /\ waiters[i] = t
          /\ waiters' = [j \in 1..(Len(waiters) - 1) |-> waiters[IF j < i THEN j ELSE j + 1]]
    /\ Goes(t, IF t = Writer THEN "lapsed" ELSE "idle")
    /\ UNCHANGED <<env, world, log, queue, bytes, stopping, hand, last, debt, snap>>

Shutdown ==
    /\ "shutdown" \in env /\ ~ stopping
    /\ stopping' = TRUE
    /\ waiters' = <<>>
    /\ Wakes(Waiting, Watcher, IF Watcher \in Waiting THEN "look" ELSE pc[Watcher])
    /\ UNCHANGED <<env, world, log, queue, bytes, hand, last, debt, snap>>

Deadline ==
    /\ stopping /\ ~ past
    /\ past' = TRUE
    /\ UNCHANGED <<env, up, outages, exited, log, box, hand, last, debt, snap, pc>>

\* join returns: the thread has ended, never ran, or is left behind.
Exit ==
    /\ stopping /\ (pc[Writer] = "none" \/ past)
    /\ exited' = TRUE
    /\ UNCHANGED <<env, up, outages, past, log, box, hand, last, debt, snap, pc>>

Minute ==
    /\ limited
    /\ limited' = FALSE
    /\ UNCHANGED <<env, world, log, box, hand, last, owed, counted, snap, pc>>

Outage ==
    /\ up' = ~ up
    /\ outages' = IF up THEN outages + 1 ELSE outages
    /\ outages' <= MaxOutages
    /\ UNCHANGED <<env, past, exited, log, box, hand, last, debt, snap, pc>>

CallerStep(r) == Submit(r) \/ Drop(r) \/ Raise(r) \/ Signal(r)

Next ==
    /\ ~ exited
    /\ \/ \E r \in Reads : CallerStep(r)
       \/ WriterStep
       \/ WaitIdle
       \/ \E t \in {Writer, Watcher} : Lapse(t)
       \/ Shutdown
       \/ Deadline
       \/ Exit
       \/ Minute
       \/ Outage

Spec == Init /\ [][Next]_vars

\* The threads are scheduled, waits time out and minutes pass.
FairSpec ==
    /\ Spec
    /\ WF_vars(~ exited /\ WriterStep)
    /\ WF_vars(~ exited /\ Lapse(Writer))
    /\ WF_vars(~ exited /\ Minute)
    /\ \A r \in Reads : WF_vars(~ exited /\ (Drop(r) \/ Signal(r)))
-----------------------------------------------------------------------------
(* Properties *)

Queued == {queue[i] : i \in DOMAIN queue}

\* The queue keeps its bounds, holds a read once, and no read is both written
\* and counted as failed.  A read handed over stays queued, is in hand, is
\* written or is counted; and a thread that ended before the deadline left
\* nothing in the queue that is not counted.  (submit, _run, _write: a thread
\* that looks at _stopping before the queue ends with accepted reads in it.)
ReadsAccounted ==
    /\ Len(queue) <= MaxEntries /\ bytes <= MaxBytes
    /\ \A i, j \in DOMAIN queue : queue[i] = queue[j] => i = j
    /\ hand \notin Queued
    /\ rows \cap (Queued \cup counted["failed"]) = {}
    /\ \A r \in Reads : pc[r] = "done" =>
           r \in Queued \cup {hand} \cup rows \cup counted["dropped"] \cup counted["failed"]
    /\ pc[Writer] = "none" /\ ~ past =>
           \A r \in Queued : r \in counted["dropped"] \/ pc[r] = "drop"

\* The writer is never left waiting for an entry that is there, nor wait_idle
\* for a queue that is drained: one notify wakes only the oldest waiter, and
\* both threads wait on one condition.
NobodySleepsThrough ==
    /\ Writer \in Waiting => queue = <<>> /\ ~ stopping
    /\ Watcher \in Waiting => ~ Quiet

\* The byte count is the sum of what is queued, and every read counted is
\* owed or on a failure row, however many signallers read the counts at once
\* and however long their rows take: what two of them report twice comes off
\* twice, and the next row corrects it.
TalliesAddUp ==
    /\ bytes = SumFunction([i \in DOMAIN queue |-> Size[queue[i]]])
    /\ \A k \in DOMAIN Zero :
          owed[k] + surfaced[k] = Cardinality(counted[k])
             + SumFunctionOnSet([t \in Signallers |-> snap[t][k]],
                                {t \in Signallers : pc[t] = "settle"})

\* Once the event log answers for good, and the writer has written or tried
\* once, the queue drains and every count reaches a row, though no further
\* read comes: the wait for an entry times out so that an idle log signals.
CatchesUp ==
    <>[](up /\ ~ stopping /\ last) => <>[](queue = <<>> /\ owed = Zero)
=============================================================================
