------------------------- MODULE ParameterPromotion -------------------------
(* How a tuned parameter goes live and is taken back                        *)
(* (trellis.learning.tuners).  A tuning pass refreshes the pending          *)
(* proposals; a proposal that clears the gate is merged onto the parameters *)
(* its scope resolves to and stored as a new snapshot; the unattended pass  *)
(* then watches what it promoted and, when outcomes degrade, writes the     *)
(* baseline back.  A person promotes or rejects the same proposals by hand. *)
(*                                                                          *)
(* Four stores are written in turn with no transaction around them, and     *)
(* each write is a step; the reads that gate one proposal are one step.  A  *)
(* version is the place of a snapshot in `snaps', which is its created_at   *)
(* order.  Sample sizes have three tiers: 0 below the manual floor, 1 above *)
(* it, 2 above the unattended one.  Values are numbers.  Dry runs, the      *)
(* cursor, other floors than the defaults and the events nobody reads       *)
(* (TUNER_PROPOSAL_REJECTED, PARAMETERS_DEGRADED) are left out.             *)
EXTENDS Integers, Sequences, FiniteSets

CONSTANTS
    Proposals,          \* deterministic ids: one per rule and scope
    Scope, Sets,        \* the scope of each, and the values it proposes
    Governed,           \* proposals for a component of the immutable core
    Unreachable,        \* proposals for a scope no reader resolves
    Scopes, Candidates, \* for each scope, itself and its wider ones, in order
    Keys, Vals, Seed,   \* a snapshot that is there already: its scope and values
    ManualEffect, AutoEffect,    \* the least change each gate lets through
    Workers, Clerks,    \* unattended passes; people at the CLI or the API
    MaxSnaps, MaxFaults, MaxActs, \* bounds: versions; deaths; acts by hand
    Modes               \* what may happen in a behaviour: subsets of Events

\* The first snapshot is there; actors overlap; an actor dies; a person
\* acts, bootstraps a scope or forces the gate; unattended promotion is off.
Events == {"seeded", "overlap", "fault", "hand", "bootstrap", "force", "off"}

Partial(V) == UNION {[S -> V] : S \in SUBSET Keys}
None == "none"

ASSUME PromotionAssumption ==
    /\ None \notin Proposals
    /\ Scope \in [Proposals -> Scopes]
    /\ Sets \in [Proposals -> Partial(Vals)]
    /\ Governed \subseteq Proposals /\ Unreachable \subseteq Proposals
    /\ Candidates \in [Scopes -> Seq(Scopes)]
    /\ Vals \subseteq Nat /\ Seed \in [scope : Scopes, vals : Partial(Vals)]
    /\ ManualEffect \in Nat /\ AutoEffect \in Nat /\ AutoEffect >= ManualEffect
    /\ Workers \cap Clerks = {}
    /\ MaxSnaps \in Nat \ {0} /\ MaxFaults \in Nat /\ MaxActs \in Nat
    /\ Modes \subseteq SUBSET Events

VARIABLES
    env,     \* the events that may happen, fixed at the start
    prop,    \* the proposals table
    snaps,   \* the parameter snapshots, oldest first
    updated, \* PARAMS_UPDATED events
    auto,    \* versions with a PARAMS_AUTO_PROMOTED event
    rolled,  \* PARAMS_AUTO_ROLLED_BACK events
    health,  \* what the outcomes of each version say against its baseline
    run,     \* the locals of each actor
    spent    \* how much of each bound is used up

stores == <<prop, snaps, updated, auto, rolled>>
vars == <<env, stores, health, run, spent>>

Actors == Workers \cup Clerks
Terminal == {"promoted", "rejected"}
Tiers == 0..2
Unlisted == -1
Policies == {"auto", "manual", "bootstrap", "force"}
Versions == 1..MaxSnaps
NoVersion == 0

\* reverted_from is set on a rollback only.
Snapshot(s, v, q, from) == [scope |-> s, vals |-> v, prop |-> q, from |-> from]
Updated(v, base, from) == [version |-> v, base |-> base, from |-> from]

Idle == [pc |-> "idle", todo |-> {}, list |-> [q \in Proposals |-> Unlisted],
         sweep |-> {}, q |-> None, policy |-> "auto", base |-> NoVersion,
         version |-> NoVersion, by |-> NoVersion]

RunState ==
    [pc : {"idle", "tune", "write", "gate", "refuse", "put", "mark", "emit",
           "announce", "monitor", "demote", "revert", "report", "sweep"},
     todo : SUBSET Proposals, list : [Proposals -> Tiers \cup {Unlisted}],
     sweep : SUBSET Versions, q : Proposals \cup {None}, policy : Policies,
     base : 0..MaxSnaps, version : 0..MaxSnaps, by : 0..MaxSnaps]

\* A proposal a tuner without the screen wrote may be pending already.
Init ==
    /\ env \in Modes
    /\ prop = [q \in Proposals |->
                 IF q \in Unreachable THEN [status |-> "pending", size |-> 2]
                 ELSE [status |-> None, size |-> 0]]
    /\ snaps = IF "seeded" \in env
               THEN <<Snapshot(Seed.scope, Seed.vals, None, NoVersion)>> ELSE <<>>
    /\ updated = {} /\ auto = {} /\ rolled = {}
    /\ health = [v \in Versions |-> "few"]
    /\ run = [a \in Actors |-> Idle]
    /\ spent = [acts |-> 0, faults |-> 0]

Spend(b) == spent' = [spent EXCEPT ![b] = @ + 1]
Alone == "overlap" \in env \/ \A a \in Actors : run[a].pc = "idle"

\* More outcomes of a version come in: too few, no worse, or worse.  Only
\* those of unattended promotions are looked at.
Observe(v) ==
    /\ v \in auto /\ health[v] # "worse"
    /\ \E h \in {"fine", "worse"} \ {health[v]} : health' = [health EXCEPT ![v] = h]
    /\ UNCHANGED <<env, stores, run, spent>>

-----------------------------------------------------------------------------
(* Operators                                                                *)

Highest(S) == IF S = {} THEN NoVersion ELSE CHOOSE v \in S : \A w \in S : w <= v
At(s) == {v \in 1..Len(snaps) : snaps[v].scope = s}

\* ParameterStore.get_active and resolve: the newest snapshot of the first
\* scope of the chain that has one.
Resolve(s) ==
    LET hit == {i \in 1..Len(Candidates[s]) : At(Candidates[s][i]) # {}}
    IN IF hit = {} THEN NoVersion
       ELSE Highest(At(Candidates[s][CHOOSE i \in hit : \A j \in hit : i <= j]))
ValuesOf(v) == IF v = NoVersion THEN <<>> ELSE snaps[v].vals

Merge(base, set) ==
    [k \in (DOMAIN base) \cup (DOMAIN set) |-> IF k \in DOMAIN set THEN set[k] ELSE base[k]]

\* _compute_effect_size: the largest change among the keys the baseline has.
Distance(x, y) == IF x < y THEN y - x ELSE x - y
Comparable(q, base) == DOMAIN Sets[q] \cap DOMAIN ValuesOf(base)
Effective(q, base, least) ==
    \E k \in Comparable(q, base) : Distance(Sets[q][k], ValuesOf(base)[k]) >= least

\* _apply_policy.  "bare" is the one verdict a later call may clear: there
\* is nothing to compare the proposal with.
Floor(policy) == IF policy = "auto" THEN 2 ELSE 1
Least(policy) == IF policy = "auto" THEN AutoEffect ELSE ManualEffect
BareAdmitted(q, size, base, policy) ==
    IF size >= Floor(policy)
         /\ (Comparable(q, base) = {} \/ Effective(q, base, Least(policy)))
    THEN "passed" ELSE "refused"
ApplyPolicy(q, size, base, policy) ==
    IF size < Floor(policy) THEN "refused"
    ELSE IF Comparable(q, base) = {}
         THEN IF policy = "bootstrap" THEN "passed" ELSE "bare"
    ELSE IF Effective(q, base, Least(policy)) THEN "passed" ELSE "refused"

-----------------------------------------------------------------------------
(* RuleTuner.run                                                            *)

\* The rules fire for some proposals; the screen drops the unreachable ones.
Tune(w) ==
    /\ run[w].pc = "idle" /\ Alone
    /\ \E fired \in SUBSET (Proposals \ Unreachable) :
         run' = [run EXCEPT ![w] = [Idle EXCEPT !.pc = "tune", !.todo = fired]]
    /\ UNCHANGED <<env, stores, health, spent>>

\* In the fixed order of the rules, the status is read; a decided proposal is passed over.
First(S) == CHOOSE q \in S : TRUE
NeverSettled(q) == FALSE
Settled(q) == prop[q].status \in Terminal
TuneRead(w) ==
    LET q == First(run[w].todo) IN
    /\ run[w].pc = "tune" /\ run[w].todo # {}
    /\ run' = [run EXCEPT ![w].todo = @ \ {q},
                          ![w].pc = IF Settled(q) THEN "tune" ELSE "write",
                          ![w].q = IF Settled(q) THEN None ELSE q]
    /\ UNCHANGED <<env, stores, health, spent>>

\* put_proposal replaces the row, whatever its status is by now.
TuneWrite(w) ==
    LET q == run[w].q IN
    /\ run[w].pc = "write"
    /\ \E size \in Tiers :
         /\ prop' = [prop EXCEPT ![q] = [status |-> "pending", size |-> size]]
         /\ run' = [run EXCEPT ![w].pc = "tune", ![w].q = None, ![w].list[q] = size]
    /\ UNCHANGED <<env, snaps, updated, auto, rolled, health, spent>>

Tuned(w) == run[w].pc = "tune" /\ run[w].todo = {}
Listed(w) == {q \in Proposals : run[w].list[q] # Unlisted}

\* run_auto_promotion, _evaluate: what misses the unattended gate is left
\* pending for a person.
Evaluate(w) ==
    LET q == First(Listed(w))
        base == Resolve(Scope[q])
        goes == "off" \notin env /\ ApplyPolicy(q, run[w].list[q], base, "auto") = "passed"
    IN /\ Tuned(w) /\ Listed(w) # {}
       /\ run' = [run EXCEPT ![w].list[q] = Unlisted,
                             ![w].pc = IF goes THEN "gate" ELSE "tune",
                             ![w].q = IF goes THEN q ELSE None]
       /\ UNCHANGED <<env, stores, health, spent>>

-----------------------------------------------------------------------------
(* promote_proposal and reject_proposal                                     *)

\* A person asks for a promotion, under some policy, or for a rejection.
Promote(c, q, policy) ==
    /\ "hand" \in env /\ spent.acts < MaxActs
    /\ policy = "manual" \/ policy \in env
    /\ run[c].pc = "idle" /\ Alone
    /\ run' = [run EXCEPT ![c] = [Idle EXCEPT !.pc = "gate", !.q = q, !.policy = policy]]
    /\ Spend("acts")
    /\ UNCHANGED <<env, stores, health>>

Reject(c, q) ==
    /\ "hand" \in env /\ spent.acts < MaxActs
    /\ run[c].pc = "idle" /\ Alone
    /\ prop[q].status = "pending"
    /\ run' = [run EXCEPT ![c] = [Idle EXCEPT !.pc = "refuse", !.q = q, !.policy = "manual"]]
    /\ Spend("acts")
    /\ UNCHANGED <<env, stores, health>>

\* Back to the caller: the pass goes on, a person's command is over.
Returned(a) == IF a \in Clerks THEN Idle
               ELSE [run[a] EXCEPT !.pc = "tune", !.q = None, !.base = NoVersion,
                                   !.version = NoVersion]

\* The immutable core and reachability stand above force.
Verdict(self) ==
    IF self.q \in Governed \cup Unreachable THEN "refused"
    ELSE IF self.policy = "force" THEN "passed"
    ELSE ApplyPolicy(self.q, prop[self.q].size, Resolve(Scope[self.q]), self.policy)

Gate(a) ==
    LET self == run[a] IN
    /\ self.pc = "gate"
    /\ run' = [run EXCEPT ![a] =
         IF prop[self.q].status # "pending" \/ Verdict(self) = "bare" THEN Returned(a)
         ELSE IF Verdict(self) = "refused" THEN [self EXCEPT !.pc = "refuse"]
         ELSE [self EXCEPT !.pc = "put", !.base = Resolve(Scope[self.q])]]
    /\ UNCHANGED <<env, stores, health, spent>>

\* update_status does not look at the status it replaces.
Refuse(a) ==
    /\ run[a].pc = "refuse"
    /\ prop' = [prop EXCEPT ![run[a].q].status = "rejected"]
    /\ run' = [run EXCEPT ![a] = Returned(a)]
    /\ UNCHANGED <<env, snaps, updated, auto, rolled, health, spent>>

Put(a) ==
    LET q == run[a].q IN
    /\ run[a].pc = "put" /\ Len(snaps) < MaxSnaps
    /\ snaps' = Append(snaps, Snapshot(Scope[q], Merge(ValuesOf(run[a].base), Sets[q]),
                                       q, NoVersion))
    /\ run' = [run EXCEPT ![a].pc = "mark", ![a].version = Len(snaps) + 1]
    /\ UNCHANGED <<env, prop, updated, auto, rolled, health, spent>>

Mark(a) ==
    /\ run[a].pc = "mark"
    /\ prop' = [prop EXCEPT ![run[a].q].status = "promoted"]
    /\ run' = [run EXCEPT ![a].pc = "emit"]
    /\ UNCHANGED <<env, snaps, updated, auto, rolled, health, spent>>

Emit(a) ==
    /\ run[a].pc = "emit"
    /\ updated' = updated \cup {Updated(run[a].version, run[a].base, NoVersion)}
    /\ run' = [run EXCEPT ![a] = IF a \in Clerks THEN Returned(a)
                                 ELSE [@ EXCEPT !.pc = "announce"]]
    /\ UNCHANGED <<env, prop, snaps, auto, rolled, health, spent>>

-----------------------------------------------------------------------------
(* _promote_and_monitor and _sweep_prior_promotions                         *)

Announce(w) ==
    /\ run[w].pc = "announce"
    /\ auto' = auto \cup {run[w].version}
    /\ run' = [run EXCEPT ![w].pc = "monitor"]
    /\ UNCHANGED <<env, prop, snaps, updated, rolled, health, spent>>

\* _load_promotion_event: the newest event of this version that is not a
\* rollback.
Anchors(v) == {e \in updated : e.version = v /\ e.from = NoVersion}

\* monitor_post_promotion, up to the verdict.
DemotesNewest(v) == health[v] = "worse" /\ v = Len(snaps)
Demotes(v) == health[v] = "worse" /\ \E e \in Anchors(v) : e.base # NoVersion

\* What follows a version: the next of the sweep, or the next proposal.
Watched(w) ==
    [run[w] EXCEPT !.pc = IF run[w].q = None THEN "sweep" ELSE "tune",
                   !.q = None, !.base = NoVersion, !.version = NoVersion,
                   !.by = NoVersion]

Monitor(w) ==
    LET v == run[w].version IN
    /\ run[w].pc = "monitor"
    /\ run' = [run EXCEPT ![w] =
         IF Demotes(v)
         THEN [@ EXCEPT !.pc = "demote", !.base = (CHOOSE e \in Anchors(v) : TRUE).base]
         ELSE Watched(w)]
    /\ UNCHANGED <<env, stores, health, spent>>

RestoredWithChange(v, base) == Merge(snaps[base].vals, snaps[v].vals)
Restored(v, base) == snaps[base].vals

Demote(w) ==
    LET v == run[w].version IN
    /\ run[w].pc = "demote" /\ Len(snaps) < MaxSnaps
    /\ snaps' = Append(snaps, Snapshot(snaps[v].scope, Restored(v, run[w].base), None, v))
    /\ run' = [run EXCEPT ![w].pc = "revert", ![w].by = Len(snaps) + 1]
    /\ UNCHANGED <<env, prop, updated, auto, rolled, health, spent>>

Revert(w) ==
    /\ run[w].pc = "revert"
    /\ updated' = updated \cup {Updated(run[w].by, run[w].version, run[w].version)}
    /\ run' = [run EXCEPT ![w].pc = "report"]
    /\ UNCHANGED <<env, prop, snaps, auto, rolled, health, spent>>

Report(w) ==
    /\ run[w].pc = "report"
    /\ rolled' = rolled \cup {[version |-> run[w].version, by |-> run[w].by]}
    /\ run' = [run EXCEPT ![w] = Watched(w)]
    /\ UNCHANGED <<env, prop, snaps, updated, auto, health, spent>>

\* The pass has gated every proposal; earlier promotions are looked at again,
\* save those a rollback is on record for.
RolledBack == {r.version : r \in rolled}
Outstanding == auto \ RolledBack

Sweep(w) ==
    /\ Tuned(w) /\ Listed(w) = {}
    /\ run' = [run EXCEPT ![w] = IF "off" \in env THEN Idle
                                 ELSE [@ EXCEPT !.pc = "sweep", !.sweep = Outstanding]]
    /\ UNCHANGED <<env, stores, health, spent>>

SweepNext(w) ==
    /\ run[w].pc = "sweep"
    /\ IF run[w].sweep = {} THEN run' = [run EXCEPT ![w] = Idle]
       ELSE \E v \in run[w].sweep :
              run' = [run EXCEPT ![w].pc = "monitor", ![w].version = v,
                                 ![w].sweep = @ \ {v}]
    /\ UNCHANGED <<env, stores, health, spent>>

\* The process dies between two of its writes.
Die(a) ==
    /\ "fault" \in env /\ spent.faults < MaxFaults
    /\ run[a].pc # "idle"
    /\ run' = [run EXCEPT ![a] = Idle]
    /\ Spend("faults")
    /\ UNCHANGED <<env, stores, health>>

-----------------------------------------------------------------------------
Step(a) == \/ Gate(a) \/ Refuse(a) \/ Put(a) \/ Mark(a) \/ Emit(a)
Pass(w) == \/ Tune(w) \/ TuneRead(w) \/ TuneWrite(w) \/ Evaluate(w)
           \/ Announce(w) \/ Monitor(w) \/ Demote(w) \/ Revert(w) \/ Report(w)
           \/ Sweep(w) \/ SweepNext(w)

Next ==
    \/ \E v \in Versions : Observe(v)
    \/ \E a \in Actors : Step(a) \/ Die(a)
    \/ \E w \in Workers : Pass(w)
    \/ \E c \in Clerks, q \in Proposals :
         Reject(c, q) \/ \E policy \in Policies \ {"auto"} : Promote(c, q, policy)

Spec == Init /\ [][Next]_vars

\* The worker is scheduled again and again, and a command that began ends.
FairSpec == /\ Spec
            /\ \A w \in Workers : WF_vars(Step(w) \/ Pass(w))
            /\ \A c \in Clerks : WF_vars(Step(c))

-----------------------------------------------------------------------------
(* Properties                                                               *)

\* Every variable keeps its type.
TypeOK ==
    /\ env \in SUBSET Events
    /\ prop \in [Proposals -> [status : Terminal \cup {"pending", None}, size : Tiers]]
    /\ snaps \in Seq([scope : Scopes, vals : Partial(Vals),
                      prop : Proposals \cup {None}, from : 0..MaxSnaps])
    /\ Len(snaps) <= MaxSnaps
    /\ updated \in SUBSET [version : Versions, base : 0..MaxSnaps, from : 0..MaxSnaps]
    /\ auto \in SUBSET Versions
    /\ rolled \in SUBSET [version : Versions, by : Versions]
    /\ health \in [Versions -> {"few", "fine", "worse"}]
    /\ run \in [Actors -> RunState]
    /\ spent \in [acts : 0..MaxActs, faults : 0..MaxFaults]

Snaps == 1..Len(snaps)
OfProposal(q) == {v \in Snaps : snaps[v].prop = q}

\* An unattended promotion can be taken back: its event names an older
\* snapshot to restore, whoever overlaps and whoever dies.
AutoReversible ==
    \A v \in auto : \E e \in Anchors(v) : e.base \in 1..(v - 1)

\* A rollback undoes one unattended promotion: in its scope it restores the
\* values of the baseline its event names, and it never undoes a rollback.
RollbackRestores ==
    \A v \in Snaps : snaps[v].from # NoVersion =>
        LET undone == snaps[v].from IN
        /\ undone \in auto /\ snaps[undone].from = NoVersion
        /\ snaps[v].scope = snaps[undone].scope
        /\ \E e \in Anchors(undone) : snaps[v].vals = snaps[e.base].vals

Orderly == env \cap {"overlap", "fault"} = {}

\* The proposals table tells the truth about the parameters: what is marked
\* promoted has a snapshot, always.  And while actors take turns and none dies,
\* between their steps exactly what has a snapshot is marked promoted, so that a
\* scope cannot flap: a proposal goes live once at most, even after a rollback,
\* and a version is rolled back once at most.
DecisionsTell ==
    /\ \A q \in Proposals : prop[q].status = "promoted" => OfProposal(q) # {}
    /\ Orderly =>
         /\ \A q \in Proposals :
              /\ Cardinality(OfProposal(q)) <= 1
              /\ (\A a \in Actors : run[a].pc = "idle") /\ OfProposal(q) # {}
                   => prop[q].status = "promoted"
         /\ \A v \in Snaps : Cardinality({w \in Snaps : snaps[w].from = v}) <= 1

\* An unattended promotion whose outcomes are worse than its baseline's is
\* rolled back in the end, and the rollback put on record, while the passes
\* go on; whoever overlaps, and whatever pass died half way.
DegradedRolledBack ==
    <>[](Len(snaps) < MaxSnaps =>
            \A v \in auto : health[v] = "worse" => v \in RolledBack)
=============================================================================
