----------------------------- MODULE Guardrails -----------------------------
(***************************************************************************)
(* The limits a hub puts on submissions: the guardrail engine of           *)
(* guardrails.py (cascade depth, cost, rate in a sliding window, forbidden *)
(* patterns, circuit breaker) and the gate of backpressure.py (tasks in    *)
(* flight, tasks queued, token bucket).  A tick is the time in which the   *)
(* bucket gains one token.                                                 *)
(***************************************************************************)
EXTENDS Integers, FiniteSets, FiniteSetsExt

CONSTANTS
  Tasks,
  NoTask,
  Parent,      \* [Tasks -> Tasks \cup {NoTask}], parent_task_id
  Costly,      \* tasks above max_cost_per_task
  Forbidden,   \* tasks whose payload holds a blocked pattern
  MaxDepth,    \* max_cascade_depth
  MaxRate,     \* max_tasks_per_minute
  Window,      \* window_seconds, in ticks
  Threshold,   \* circuit_breaker_threshold
  Cooldown,    \* cooldown_seconds, in ticks
  Capacity,    \* max_tasks_per_sec
  MaxInFlight, MaxQueue,  \* max_in_flight, max_queue_depth; 0: no limit
  MaxTime      \* bound: ticks

ASSUME GuardrailsAssumption ==
  /\ NoTask \notin Tasks /\ Parent \in [Tasks -> Tasks \cup {NoTask}]
  /\ Costly \subseteq Tasks /\ Forbidden \subseteq Tasks
  /\ {MaxDepth, MaxRate, Window, Threshold, Cooldown, Capacity} \subseteq Nat \ {0}
  /\ {MaxInFlight, MaxQueue, MaxTime} \subseteq Nat

VARIABLES
  now,
  depth,         \* _depth_map, 0 for a task that is not in it
  events,        \* _events of the agent: the tasks counted, with the time
  violations,    \* _violation_counts of the agent
  trippedUntil,  \* _tripped_until of the agent, -1 when it is not there
  tokens, last,  \* _tokens and _last of the gate
  registry,      \* task_registry
  accepted,      \* history: the submissions the hub took, with the time
  trips          \* history: the times at which the breaker tripped

engineVars == <<depth, events, violations, trippedUntil, trips>>
gateVars == <<tokens, last, registry, accepted>>

GuardrailsInit ==
  /\ now = 0
  /\ depth = [t \in Tasks |-> 0]
  /\ events = {} /\ accepted = {} /\ trips = {}
  /\ violations = 0 /\ trippedUntil = -1
  /\ tokens = Capacity /\ last = 0
  /\ registry = [t \in Tasks |-> "none"]

At(t) == [task |-> t, time |-> now]

(***************************************************************************)
(* AsimovGuardrailEngine.validate_task_submission                          *)
(***************************************************************************)
(* is_tripped; one that has run out is removed, and its violations too.    *)
Tripped == trippedUntil # -1 /\ now < trippedUntil
Counted == IF trippedUntil # -1 /\ ~Tripped THEN 0 ELSE violations

DepthOf(t) ==
  IF Parent[t] # NoTask /\ depth[Parent[t]] > 0 THEN depth[Parent[t]] + 1 ELSE 1

RecentOnly == {e \in events : e.time > now - Window}

Recent == {e \in events : e.time >= now - Window}

TooDeep(t) == DepthOf(t) > MaxDepth
TooOften   == Cardinality(Recent) >= MaxRate
Violates(t) == TooDeep(t) \/ t \in Costly \/ TooOften \/ t \in Forbidden

CountWithoutTrip ==
  /\ violations' = Counted + 1
  /\ trippedUntil' = -1
  /\ trips' = IF violations' >= Threshold THEN trips \cup {now} ELSE trips

(* record_violation.                                                       *)
CountViolation ==
  /\ violations' = Counted + 1
  /\ IF violations' >= Threshold
       THEN trippedUntil' = now + Cooldown /\ trips' = trips \cup {now}
       ELSE trippedUntil' = -1 /\ UNCHANGED trips

(* The depth is registered whatever is decided next; the event is counted  *)
(* once every test of the engine is passed.                                *)
Isolated == Tripped /\ UNCHANGED engineVars

Violation(t) ==
  /\ ~Tripped /\ Violates(t)
  /\ depth' = [depth EXCEPT ![t] = DepthOf(t)]
  /\ CountViolation
  /\ events' = IF TooDeep(t) \/ t \in Costly THEN events ELSE Recent

Validated(t) ==
  /\ ~Tripped /\ ~Violates(t)
  /\ depth' = [depth EXCEPT ![t] = DepthOf(t)]
  /\ events' = Recent \cup {At(t)}
  /\ violations' = Counted
  /\ trippedUntil' = -1
  /\ UNCHANGED trips

(***************************************************************************)
(* task_load and BackpressureGate.admit                                    *)
(***************************************************************************)
InFlight == Cardinality({t \in Tasks : registry[t] \in {"pending", "running"}})
Queued   == Cardinality({t \in Tasks : registry[t] = "pending"})

Full == \/ MaxInFlight > 0 /\ InFlight >= MaxInFlight
        \/ MaxQueue > 0 /\ Queued >= MaxQueue

RefilledWithoutEnd == tokens + (now - last)

Refilled == Min({Capacity, tokens + (now - last)})

(* The state limits come first, and do not refill the bucket.              *)
Saturated ==
  \/ Full /\ UNCHANGED gateVars
  \/ /\ ~Full /\ Refilled < 1
     /\ tokens' = Refilled /\ last' = now
     /\ UNCHANGED <<registry, accepted>>

TakeTokenOnCredit ==
  /\ ~Full
  /\ tokens' = Refilled - 1 /\ last' = now

TakeToken ==
  /\ ~Full /\ Refilled >= 1
  /\ tokens' = Refilled - 1 /\ last' = now

Accept(t) ==
  /\ registry' = [registry EXCEPT ![t] = "pending"]
  /\ accepted' = accepted \cup {At(t)}

GuardrailsTypeOK ==
  /\ now \in Nat /\ last \in 0..now /\ tokens \in 0..Capacity
  /\ depth \in [Tasks -> Nat]
  /\ events \subseteq [task : Tasks, time : 0..now]
  /\ accepted \subseteq [task : Tasks, time : 0..now]
  /\ violations \in Nat /\ trippedUntil \in Nat \cup {-1}
  /\ registry \in [Tasks -> {"none", "pending", "running", "completed", "failed"}]

(***************************************************************************)
(* Properties                                                              *)
(***************************************************************************)
AcceptedBetween(a, b) == {e \in accepted : a <= e.time /\ e.time <= b}

(* In no window of the configured length, wherever it begins, does the hub *)
(* take more tasks of an agent than the guardrail allows.  A task retained *)
(* for approval is taken when it is submitted.                             *)
RateHolds ==
  \A s \in 0..now : Cardinality(AcceptedBetween(s, s + Window)) <= MaxRate

(* A burst is what the bucket holds: over any interval the hub takes no    *)
(* more than a full bucket and what it gained meanwhile.                   *)
BurstHolds ==
  \A s \in 0..now, d \in 0..now :
    Cardinality(AcceptedBetween(s, s + d)) <= Capacity + d

(* An agent that trips the breaker gets no submission in until it has      *)
(* cooled; what was retained before it tripped may still be approved.      *)
IsolatedIsSilent ==
  \A s \in trips, e \in accepted : ~(s < e.time /\ e.time < s + Cooldown)
=============================================================================
