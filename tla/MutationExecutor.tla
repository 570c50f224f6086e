-------------------------- MODULE MutationExecutor --------------------------
(***************************************************************************)
(* The governed write pipeline (mutate/executor.py): validate, policy,     *)
(* idempotency, handler, audit event, for one command after another of a   *)
(* batch.  A request builds its own executor, so the cache of idempotency  *)
(* keys is the request's; requests meet in the stores and the event log.   *)
(*                                                                         *)
(* A command is its idempotency key, or NULL for one without a key.  What  *)
(* its arguments make of it (validation, policy, the handler's own checks) *)
(* is a free choice among the outcomes the code tells apart.  A handler is *)
(* one step; the steps around it interleave with other requests and with   *)
(* the death of the process.                                               *)
(***************************************************************************)
EXTENDS Integers, Sequences, FiniteSets

CONSTANTS
    Workers,      \* threads and processes that serve requests
    Keys,         \* idempotency keys
    Hooked,       \* keys of commands whose handler has a replay_refusal
    Batches,      \* batches a client may submit: sequences of Keys and NULL
    CacheSize,    \* idempotency_cache_size
    MaxRequests,  \* bound on the requests submitted
    HasLog,       \* FALSE with no event log, or the null one
    Losses,       \* what may go wrong in this instance: see AllLosses
    NULL

\* The event log's read or append raises; the process dies; a handler raises
\* after a write it has already made.
AllLosses == {"read", "append", "crash", "partial"}

\* CommandStatus.  Two answers are told apart by what is behind them: a handler's
\* own IdempotencyError, a DUPLICATE too, is "replayed", and a FAILED of a handler
\* that raised after a write of its own is "broken".
Status == {"success", "rejected", "failed", "broken", "duplicate", "replayed"}

Errors == {"rejected", "failed", "broken"}

ASSUME ExecutorConstants ==
    /\ IsFiniteSet(Workers)
    /\ Hooked \subseteq Keys
    /\ NULL \notin Keys \cup Status
    /\ Batches \subseteq Seq(Keys \cup {NULL}) \ {<<>>}
    /\ CacheSize \in Nat \ {0}
    /\ MaxRequests \in Nat
    /\ HasLog \in BOOLEAN
    /\ Losses \subseteq AllLosses

VARIABLES
    applied,    \* times the handler has succeeded under each key
    logged,     \* MUTATION_EXECUTED events under each key
    lost,       \* successes under each key whose event never landed
    requests,   \* requests submitted so far
    pc,         \* the stage each worker is at
    batch,      \* the commands of its request
    stop,       \* whether the strategy is STOP_ON_ERROR
    cache,      \* _seen_idempotency_keys of its executor, oldest first
    results,    \* the statuses of the commands it has answered
    status,     \* the outcome of the current command, before its event
    wrote       \* positions of the commands whose write landed

stores == <<applied, logged, lost>>
request == <<requests, batch, stop>>
vars == <<applied, logged, lost, requests, pc, batch, stop,
          cache, results, status, wrote>>

Stages == {"idle", "validate", "check", "persisted", "handle", "emit", "done"}

Init ==
    /\ applied = [k \in Keys |-> 0]
    /\ logged = [k \in Keys |-> 0]
    /\ lost = [k \in Keys |-> 0]
    /\ requests = 0
    /\ pc = [w \in Workers |-> "idle"]
    /\ batch = [w \in Workers |-> <<>>]
    /\ stop = [w \in Workers |-> FALSE]
    /\ cache = [w \in Workers |-> <<>>]
    /\ results = [w \in Workers |-> <<>>]
    /\ status = [w \in Workers |-> NULL]
    /\ wrote = [w \in Workers |-> {}]

-----------------------------------------------------------------------------
Position(w) == Len(results[w]) + 1

Key(w) == batch[w][Position(w)]

Goto(w, stage) == pc' = [pc EXCEPT ![w] = stage]

\* One more for w's key; a command without one is not counted.
Counted(count, w) ==
    IF Key(w) = NULL THEN count ELSE [count EXCEPT ![Key(w)] = @ + 1]

Seen(w) == {cache[w][i] : i \in DOMAIN cache[w]}

\* _record_idempotency_key: the oldest key makes room.
Recorded(c, k) == Append(IF Len(c) < CacheSize THEN c ELSE Tail(c), k)

\* OrderedDict.move_to_end
MovedToEnd(c, k) ==
    LET i == CHOOSE i \in DOMAIN c : c[i] = k
    IN  SubSeq(c, 1, i - 1) \o SubSeq(c, i + 1, Len(c)) \o <<k>>

\* A stage has settled the command's status; its event comes next.
Decide(w, s) ==
    /\ status' = [status EXCEPT ![w] = s]
    /\ Goto(w, "emit")

\* A duplicate stops the batch too.
HaltsOnDuplicate(w, s) == stop[w] /\ s \in Errors \cup {"duplicate"}

Halts(w, s) == stop[w] /\ s \in Errors

\* The CommandResult, and execute_batch's loop.
Answer(w, s) ==
    /\ results' = [results EXCEPT ![w] = Append(@, s)]
    /\ status' = [status EXCEPT ![w] = NULL]
    /\ Goto(w, IF Position(w) = Len(batch[w]) \/ Halts(w, s)
               THEN "done" ELSE "validate")

\* The request's locals are gone, answered or not.
Forget(w) ==
    /\ cache' = [cache EXCEPT ![w] = <<>>]
    /\ results' = [results EXCEPT ![w] = <<>>]
    /\ status' = [status EXCEPT ![w] = NULL]
    /\ wrote' = [wrote EXCEPT ![w] = {}]

-----------------------------------------------------------------------------
\* A request, first or retried, with an executor of its own.
Submit(w) ==
    /\ pc[w] \in {"idle", "done"}
    /\ requests < MaxRequests
    /\ requests' = requests + 1
    /\ \E b \in Batches, s \in BOOLEAN :
         /\ batch' = [batch EXCEPT ![w] = b]
         /\ stop' = [stop EXCEPT ![w] = s]
    /\ Forget(w)
    /\ Goto(w, "validate")
    /\ UNCHANGED stores

\* Stages 1 and 2: the roster, the operation's schema, the policy gate.
Validate(w) ==
    /\ pc[w] = "validate"
    /\ \/ Decide(w, "rejected")
       \/ Goto(w, "check") /\ UNCHANGED status
    /\ UNCHANGED <<stores, request, cache, results, wrote>>

\* The gate reads the document store outside any except clause: what it
\* raises leaves execute_batch, results and all.
GateRaises(w) ==
    /\ pc[w] = "validate"
    /\ "read" \in Losses
    /\ Forget(w)
    /\ Goto(w, "idle")
    /\ UNCHANGED <<stores, request>>

\* _replay_refused on a hit: refused, not answered, or nothing against it.
ReplayAnswers(k) ==
    IF k \in Hooked THEN {"rejected", "failed", "duplicate"} ELSE {"duplicate"}

\* Stage 3 in memory.
CheckSeen(w) ==
    /\ pc[w] = "check"
    /\ IF Key(w) \in Seen(w)
       THEN \E s \in ReplayAnswers(Key(w)) :
              /\ cache' = [cache EXCEPT ![w] = IF s = "duplicate"
                                               THEN MovedToEnd(@, Key(w)) ELSE @]
              /\ Decide(w, s)
       ELSE /\ Goto(w, IF Key(w) # NULL /\ HasLog THEN "persisted" ELSE "handle")
            /\ UNCHANGED <<cache, status>>
    /\ UNCHANGED <<stores, request, results, wrote>>

\* The handler runs although the log did not answer.
UnansweredOpen(w) == Goto(w, "handle") /\ UNCHANGED status

\* _idempotency_check_failed
Unanswered(w) == Decide(w, "failed")

\* Stage 3 in the event log.  A miss records nothing.
CheckPersisted(w) ==
    /\ pc[w] = "persisted"
    /\ \/ /\ "read" \in Losses
          /\ Unanswered(w)
          /\ UNCHANGED cache
       \/ /\ logged[Key(w)] = 0
          /\ Goto(w, "handle")
          /\ UNCHANGED <<cache, status>>
       \/ /\ logged[Key(w)] > 0
          /\ \E s \in ReplayAnswers(Key(w)) :
               /\ cache' = [cache EXCEPT ![w] = IF s = "duplicate"
                                                THEN Recorded(@, Key(w)) ELSE @]
               /\ Decide(w, s)
    /\ UNCHANGED <<stores, request, results, wrote>>

\* The one exit of execute without an event.
NoHandler(w) ==
    /\ pc[w] = "handle"
    /\ Answer(w, "failed")
    /\ UNCHANGED <<stores, request, cache, wrote>>

\* A refusal or failure that records the key all the same.
RefuseRecorded(w) ==
    /\ pc[w] = "handle"
    /\ \E s \in {"rejected", "replayed", "failed"} : Decide(w, s)
    /\ cache' = [cache EXCEPT ![w] = IF Key(w) = NULL THEN @
                                     ELSE Recorded(@, Key(w))]
    /\ UNCHANGED <<stores, request, results, wrote>>

\* The handler raises: a refusal, an IdempotencyError, or a failure.
Refuse(w) ==
    /\ pc[w] = "handle"
    /\ \E s \in {"rejected", "replayed", "failed"} : Decide(w, s)
    /\ UNCHANGED <<stores, request, cache, results, wrote>>

\* The handler raises after its write, as a strict embed does.
FailAfterWrite(w) ==
    /\ pc[w] = "handle"
    /\ "partial" \in Losses
    /\ wrote' = [wrote EXCEPT ![w] = @ \cup {Position(w)}]
    /\ Decide(w, "broken")
    /\ UNCHANGED <<stores, request, cache, results>>

\* The handler succeeds; only now is the key recorded.
Succeed(w) ==
    /\ pc[w] = "handle"
    /\ applied' = Counted(applied, w)
    /\ wrote' = [wrote EXCEPT ![w] = @ \cup {Position(w)}]
    /\ cache' = [cache EXCEPT ![w] = IF Key(w) = NULL THEN @
                                     ELSE Recorded(@, Key(w))]
    /\ Decide(w, "success")
    /\ UNCHANGED <<logged, lost, request, results>>

\* The audit event's failure becomes the command's (#551).
EmitFailing(w) ==
    /\ pc[w] = "emit"
    /\ \/ /\ HasLog
          /\ logged' = IF status[w] = "success" THEN Counted(logged, w) ELSE logged
          /\ Answer(w, status[w])
          /\ UNCHANGED lost
       \/ /\ ~HasLog \/ "append" \in Losses
          /\ lost' = IF status[w] = "success" THEN Counted(lost, w) ELSE lost
          /\ Answer(w, "failed")
          /\ UNCHANGED logged
    /\ UNCHANGED <<applied, request, cache, wrote>>

\* Stage 5 and every rejection's event, which changes no outcome if it fails.
Emit(w) ==
    /\ pc[w] = "emit"
    /\ \/ /\ HasLog
          /\ logged' = IF status[w] = "success" THEN Counted(logged, w) ELSE logged
          /\ UNCHANGED lost
       \/ /\ ~HasLog \/ "append" \in Losses
          /\ lost' = IF status[w] = "success" THEN Counted(lost, w) ELSE lost
          /\ UNCHANGED logged
    /\ Answer(w, status[w])
    /\ UNCHANGED <<applied, request, cache, wrote>>

\* The process dies between two steps.
Crash(w) ==
    /\ "crash" \in Losses
    /\ pc[w] \notin {"idle", "done"}
    /\ lost' = IF status[w] = "success" THEN Counted(lost, w) ELSE lost
    /\ Forget(w)
    /\ Goto(w, "idle")
    /\ UNCHANGED <<applied, logged, request>>

Run(w) ==
    \/ Validate(w) \/ GateRaises(w)
    \/ CheckSeen(w) \/ CheckPersisted(w)
    \/ NoHandler(w) \/ Refuse(w) \/ FailAfterWrite(w) \/ Succeed(w)
    \/ Emit(w)

Next == \E w \in Workers : Submit(w) \/ Run(w) \/ Crash(w)

Spec == Init /\ [][Next]_vars

-----------------------------------------------------------------------------
(* Properties.                                                             *)

TypeOK ==
    /\ applied \in [Keys -> Nat]
    /\ logged \in [Keys -> Nat]
    /\ lost \in [Keys -> Nat]
    /\ requests \in 0..MaxRequests
    /\ pc \in [Workers -> Stages]
    /\ batch \in [Workers -> Batches \cup {<<>>}]
    /\ stop \in [Workers -> BOOLEAN]
    /\ cache \in [Workers -> Seq(Keys)]
    /\ \A w \in Workers : Len(cache[w]) <= CacheSize
    /\ results \in [Workers -> Seq(Status)]
    /\ status \in [Workers -> Status \cup {NULL}]
    /\ wrote \in [Workers -> SUBSET Nat]

\* A keyed command is answered SUCCESS or DUPLICATE only when the handler has
\* succeeded under its key, in this request or an earlier one: a refused,
\* failed or lost attempt never turns a later retry into a duplicate.
AnsweredMeansApplied ==
    \A w \in Workers : \A i \in DOMAIN results[w] :
        results[w][i] \in {"success", "duplicate"} /\ batch[w][i] # NULL
          => applied[batch[w][i]] > 0

\* A key succeeds at most once for each request in flight at the same time,
\* and once more for each success whose audit event was lost: neither retries
\* nor evictions nor restarts run a logged command again.  One executor runs a
\* key to success again only when that event was lost, and then only when
\* CacheSize commands or more came between: the comment on
\* _seen_idempotency_keys says that "evicted keys are still rejected" by the log.
RunsAreAccounted ==
    /\ \A k \in Keys : applied[k] <= Cardinality(Workers) + lost[k]
    /\ \A w \in Workers : \A i, j \in DOMAIN results[w] :
         /\ i < j
         /\ batch[w][i] = batch[w][j] /\ batch[w][i] # NULL
         /\ results[w][i] = "success" /\ results[w][j] = "success"
         => lost[batch[w][i]] > 0 /\ j - i > CacheSize

\* A batch that returns has answered every command, or under STOP_ON_ERROR
\* every command up to the first refusal or failure: no failure of an event,
\* a read or a handler cuts it short, and a duplicate is not an error.
BatchIsAnswered ==
    \A w \in Workers : pc[w] = "done" =>
        /\ \/ Len(results[w]) = Len(batch[w])
           \/ stop[w] /\ results[w][Len(results[w])] \in Errors
        /\ stop[w] => \A i \in 1..(Len(results[w]) - 1) : results[w][i] \notin Errors

\* A command answered FAILED or REJECTED has written nothing, unless its own
\* handler raised after a write: no stage before or after the handler, its audit
\* event included, turns a write that landed into a failure.  The docstring of
\* _emit_event says "nothing was committed" of every such site.
FailedWroteNothing ==
    \A w \in Workers : \A i \in DOMAIN results[w] :
        results[w][i] \in {"failed", "rejected"} => i \notin wrote[w]

=============================================================================
