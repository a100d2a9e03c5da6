-------------------------- MODULE AdmissionProofs --------------------------
(***************************************************************************)
(* Theorems about the limits on submissions, for every quota, window,      *)
(* bucket, threshold and cooldown, and any tasks.                          *)
(***************************************************************************)
EXTENDS Admission, FiniteSetTheorems, SequenceTheorems, TLAPS

(***************************************************************************)
(* What a step does to the limits, whoever takes it                        *)
(***************************************************************************)
Taken(t) == accepted' = accepted \cup {At(t)}

EngineStep ==
  \/ UNCHANGED <<engineVars, accepted>>
  \/ \E t \in Tasks : \/ Violation(t) /\ UNCHANGED accepted
                      \/ Validated(t) /\ (UNCHANGED accepted \/ Taken(t))

GateStep ==
  \/ UNCHANGED <<tokens, last, accepted>>
  \/ tokens' = Refilled /\ last' = now /\ UNCHANGED accepted
  \/ /\ TakeToken
     /\ UNCHANGED accepted \/ \E t \in Tasks : Taken(t)

LimitStep ==
  \/ now' = now /\ EngineStep /\ GateStep
  \/ now' = now + 1 /\ UNCHANGED <<engineVars, gateVars>>

LEMMA NextIsLimitStep == [Next]_vars => LimitStep
<1> SUFFICES ASSUME [Next]_vars
             PROVE  LimitStep
  OBVIOUS
<1>a. ASSUME UNCHANGED <<now, engineVars, tokens, last, accepted>>
      PROVE  LimitStep
  BY <1>a DEF LimitStep, EngineStep, GateStep
<1>1. ASSUME NEW t \in Tasks, Timeout(t) \/ AdminStep(t) \/ ExecutorStep(t)
      PROVE  LimitStep
  BY <1>1, <1>a DEF Timeout, AdminStep, Approve, Deny, Cancel, ExecutorStep, Resume, Begin,
                    Finish, OnlyTask, ClientStill, gateVars
<1>2. ASSUME NEW t \in Tasks, RefuseByGuardrail(t)
      PROVE  LimitStep
  <2>1. now' = now /\ UNCHANGED gateVars
    BY <1>2 DEF RefuseByGuardrail, ClientStill
  <2>2. UNCHANGED engineVars \/ Violation(t)
    BY <1>2 DEF RefuseByGuardrail, Isolated
  <2> QED BY <2>1, <2>2 DEF LimitStep, EngineStep, GateStep, gateVars
<1>3. ASSUME NEW t \in Tasks, RefuseBySaturation(t)
      PROVE  LimitStep
  <2>1. now' = now /\ Validated(t) /\ Saturated
    BY <1>3 DEF RefuseBySaturation, ClientStill
  <2> QED BY <2>1 DEF LimitStep, EngineStep, GateStep, Saturated, gateVars
<1>4. ASSUME NEW t \in Tasks, RefuseByEscrow(t)
      PROVE  LimitStep
  <2>1. now' = now /\ Validated(t) /\ TakeToken /\ UNCHANGED accepted
    BY <1>4 DEF RefuseByEscrow, ClientStill
  <2> QED BY <2>1 DEF LimitStep, EngineStep, GateStep
<1>5. ASSUME NEW t \in Tasks, AcceptTask(t) \/ RetainTask(t)
      PROVE  LimitStep
  <2>1. now' = now /\ Validated(t) /\ TakeToken /\ Taken(t)
    BY <1>5 DEF AcceptTask, RetainTask, Accept, ClientStill, Taken
  <2> QED BY <2>1 DEF LimitStep, EngineStep, GateStep
<1>6. CASE ReadError \/ ReadUpdate \/ Drop
  BY <1>6, <1>a DEF ReadError, ReadUpdate, Drop, gateVars
<1>7. ASSUME NEW fan \in Fans, FanOut(fan)
      PROVE  LimitStep
  BY <1>7, <1>a DEF FanOut, gateVars
<1>8. CASE Tick
  BY <1>8 DEF Tick, LimitStep
<1>9. CASE UNCHANGED vars
  BY <1>9, <1>a DEF vars, gateVars
<1> QED
  BY <1>1, <1>2, <1>3, <1>4, <1>5, <1>6, <1>7, <1>8, <1>9 DEF Next, HandleSubmit

(***************************************************************************)
(* The past: what has been taken and counted is finite, and no later than  *)
(* now.                                                                    *)
(***************************************************************************)
PastInv ==
  /\ now \in Nat
  /\ IsFiniteSet(accepted) /\ IsFiniteSet(events)
  /\ \A e \in accepted : e.time \in 0..now

LEMMA PastInit == Init => PastInv
BY FS_EmptySet DEF Init, GuardrailsInit, PastInv

LEMMA RecentFinite ==
  ASSUME PastInv
  PROVE  IsFiniteSet(Recent) /\ Cardinality(Recent) \in Nat
BY FS_Subset, FS_CardinalityType DEF PastInv, Recent

LEMMA BetweenFinite ==
  ASSUME PastInv, NEW a, NEW b
  PROVE  /\ IsFiniteSet(AcceptedBetween(a, b))
         /\ Cardinality(AcceptedBetween(a, b)) \in Nat
BY FS_Subset, FS_CardinalityType DEF PastInv, AcceptedBetween

LEMMA PastNext ==
  ASSUME PastInv, LimitStep
  PROVE  PastInv'
<1>1. now' \in Nat /\ now <= now' BY DEF LimitStep, PastInv
<1>2. accepted' = accepted \/ \E t \in Tasks : Taken(t) /\ now' = now
  BY DEF LimitStep, EngineStep, gateVars
<1>3. IsFiniteSet(accepted')
  BY <1>2, FS_AddElement DEF PastInv, Taken
<1>4. \A e \in accepted' : e.time \in 0..now'
  BY <1>1, <1>2 DEF PastInv, Taken, At
<1>5. \/ events' = events \/ events' = Recent
      \/ \E t \in Tasks : events' = Recent \cup {At(t)}
  BY DEF LimitStep, EngineStep, engineVars, Violation, Validated
<1>6. IsFiniteSet(events')
  BY <1>5, RecentFinite, FS_AddElement DEF PastInv
<1> QED BY <1>1, <1>3, <1>4, <1>6 DEF PastInv

(* One more task is taken: a window that holds now has one more at most,   *)
(* and one that ends before keeps what it had.                             *)
LEMMA WindowAfter ==
  ASSUME PastInv, NEW t \in Tasks, Taken(t), NEW a \in Nat, NEW b \in Nat
  PROVE  /\ b < now => AcceptedBetween(a, b)' = AcceptedBetween(a, b)
         /\ Cardinality(AcceptedBetween(a, b)') <= Cardinality(AcceptedBetween(a, b)) + 1
         /\ Cardinality(AcceptedBetween(a, b)') \in Nat
<1> DEFINE B == AcceptedBetween(a, b)
<1>1. AcceptedBetween(a, b)' = B \/ AcceptedBetween(a, b)' = B \cup {At(t)}
  BY DEF AcceptedBetween, Taken
<1>2. b < now => AcceptedBetween(a, b)' = B
  BY DEF AcceptedBetween, Taken, At, PastInv
<1>3. IsFiniteSet(B) /\ Cardinality(B) \in Nat BY BetweenFinite
<1> HIDE DEF B
<1>4. Cardinality(B \cup {At(t)}) \in {Cardinality(B), Cardinality(B) + 1}
  BY <1>3, FS_AddElement
<1> QED BY <1>1, <1>2, <1>3, <1>4 DEF B

(***************************************************************************)
(* The sliding window                                                      *)
(***************************************************************************)
(* The window the engine looks at has every task taken in it.              *)
RateInv ==
  /\ \A e \in accepted : e.time >= now - Window => e \in events
  /\ RateHolds

LEMMA RateInit == Init => RateInv
<1> SUFFICES ASSUME Init
             PROVE  RateInv
  OBVIOUS
<1>1. accepted = {} BY DEF Init, GuardrailsInit
<1>2. \A a, b : AcceptedBetween(a, b) = {} BY <1>1 DEF AcceptedBetween
<1>3. MaxRate \in Nat BY GuardrailsAssumption
<1> QED BY <1>1, <1>2, <1>3, FS_EmptySet DEF RateInv, RateHolds

LEMMA RateNext ==
  ASSUME PastInv, RateInv, LimitStep
  PROVE  RateInv'
<1>a. Window \in Nat /\ MaxRate \in Nat /\ now \in Nat
  BY GuardrailsAssumption DEF PastInv
<1>1. CASE now' = now + 1 /\ UNCHANGED <<engineVars, gateVars>>
  <2>1. events' = events /\ accepted' = accepted
    BY <1>1 DEF engineVars, gateVars
  <2>2. \A e \in accepted' : e.time >= now' - Window => e \in events'
    BY <1>1, <1>a, <2>1 DEF RateInv, PastInv
  <2>3. ASSUME NEW s \in 0..now'
        PROVE  Cardinality(AcceptedBetween(s, s + Window)') <= MaxRate
    <3>1. AcceptedBetween(s, s + Window)' = AcceptedBetween(s, s + Window)
      BY <2>1 DEF AcceptedBetween
    <3>2. CASE s \in 0..now
      BY <3>1, <3>2 DEF RateInv, RateHolds
    <3>3. CASE s = now + 1
      <4>1. AcceptedBetween(s, s + Window) = {}
        BY <3>3, <1>a DEF AcceptedBetween, PastInv
      <4> QED BY <4>1, <3>1, <1>a, FS_EmptySet
    <3> QED BY <3>2, <3>3, <1>1, <1>a
  <2>4. RateHolds' BY <2>3 DEF RateHolds, AcceptedBetween
  <2> QED BY <2>2, <2>4 DEF RateInv
<1>2. CASE now' = now /\ UNCHANGED accepted /\ EngineStep
  <2>1. \/ events' = events \/ events' = Recent
        \/ \E t \in Tasks : events' = Recent \cup {At(t)}
    BY <1>2 DEF EngineStep, engineVars, Violation, Validated
  <2>2. \A e \in accepted : e.time >= now - Window => e \in events'
    BY <2>1 DEF RateInv, Recent
  <2>3. RateHolds' BY <1>2 DEF RateInv, RateHolds, AcceptedBetween
  <2> QED BY <1>2, <2>2, <2>3 DEF RateInv
<1>3. ASSUME NEW t \in Tasks, now' = now, Validated(t), Taken(t)
      PROVE  RateInv'
  <2>1. events' = Recent \cup {At(t)} /\ ~TooOften
    BY <1>3 DEF Validated, Violates
  <2>2. \A e \in accepted' : e.time >= now - Window => e \in events'
    BY <1>3, <2>1 DEF Taken, RateInv, Recent
  <2>3. ASSUME NEW s \in 0..now
        PROVE  Cardinality(AcceptedBetween(s, s + Window)') <= MaxRate
    <3>1. s \in Nat /\ s + Window \in Nat BY <1>a
    <3>2. CASE s + Window < now
      <4>1. AcceptedBetween(s, s + Window)' = AcceptedBetween(s, s + Window)
        BY <1>3, <3>1, <3>2, WindowAfter
      <4> QED BY <4>1 DEF RateInv, RateHolds
    <3>3. CASE ~(s + Window < now)
      <4>1. AcceptedBetween(s, s + Window) \subseteq Recent
        BY <3>3, <1>a DEF AcceptedBetween, RateInv, Recent, PastInv
      <4>2. Cardinality(AcceptedBetween(s, s + Window)) <= Cardinality(Recent)
        BY <4>1, RecentFinite, FS_Subset
      <4>3. Cardinality(Recent) < MaxRate
        BY <2>1, <1>a, RecentFinite DEF TooOften
      <4>4. /\ Cardinality(AcceptedBetween(s, s + Window)')
                 <= Cardinality(AcceptedBetween(s, s + Window)) + 1
            /\ Cardinality(AcceptedBetween(s, s + Window)') \in Nat
        BY <1>3, <3>1, WindowAfter
      <4> QED
        BY <4>2, <4>3, <4>4, <1>a, RecentFinite, BetweenFinite
    <3> QED BY <3>2, <3>3
  <2>4. RateHolds' BY <1>3, <2>3 DEF RateHolds, AcceptedBetween
  <2> QED BY <1>3, <2>2, <2>4 DEF RateInv
<1> QED BY <1>1, <1>2, <1>3 DEF LimitStep, EngineStep, Taken

(***************************************************************************)
(* The circuit breaker                                                     *)
(***************************************************************************)
(* Until a trip has cooled the breaker is there, and open.                 *)
BreakerInv ==
  /\ trips \subseteq 0..now
  /\ trippedUntil \in Int
  /\ \A s \in trips : now < s + Cooldown => s + Cooldown <= trippedUntil
  /\ IsolatedIsSilent

LEMMA BreakerInit == Init => BreakerInv
BY DEF Init, GuardrailsInit, BreakerInv, IsolatedIsSilent

LEMMA BreakerNext ==
  ASSUME PastInv, BreakerInv, LimitStep
  PROVE  BreakerInv'
<1>a. Cooldown \in Nat \ {0} /\ now \in Nat
  BY GuardrailsAssumption DEF PastInv
<1>b. ASSUME ~Tripped
      PROVE  \A s \in trips : s + Cooldown <= now
  BY <1>b, <1>a DEF BreakerInv, Tripped
<1>1. CASE now' = now + 1 /\ UNCHANGED <<engineVars, gateVars>>
  BY <1>1, <1>a DEF BreakerInv, IsolatedIsSilent, engineVars, gateVars
<1>2. CASE now' = now /\ UNCHANGED <<engineVars, accepted>>
  BY <1>2 DEF BreakerInv, IsolatedIsSilent, engineVars
<1>3. ASSUME NEW t \in Tasks, now' = now, Violation(t), UNCHANGED accepted
      PROVE  BreakerInv'
  <2>1. \A s \in trips : s + Cooldown <= now BY <1>3, <1>b DEF Violation
  <2>2. \/ trippedUntil' = now + Cooldown /\ trips' = trips \cup {now}
        \/ trippedUntil' = -1 /\ trips' = trips
    BY <1>3 DEF Violation, CountViolation
  <2>3. \A e \in accepted : e.time \in 0..now BY DEF PastInv
  <2>4. accepted' = accepted /\ now' = now BY <1>3
  <2>5. \A s \in trips : s \in 0..now BY DEF BreakerInv
  <2>6. \A s \in trips' : s \in trips \/ (s = now /\ trippedUntil' = now + Cooldown)
    BY <2>2
  <2>7. ASSUME NEW s \in trips', NEW e \in accepted
        PROVE  ~(s < e.time /\ e.time < s + Cooldown)
    <3>1. CASE s \in trips BY <3>1 DEF BreakerInv, IsolatedIsSilent
    <3>2. CASE s = now BY <3>2, <2>3, <1>a
    <3> QED BY <2>6, <3>1, <3>2
  <2>8. IsolatedIsSilent' BY <2>4, <2>7 DEF IsolatedIsSilent
  <2>9. trips' \subseteq 0..now' BY <2>4, <2>5, <2>6, <1>a
  <2>10. trippedUntil' \in Int BY <2>2, <1>a
  <2>11. \A s \in trips' : now' < s + Cooldown => s + Cooldown <= trippedUntil'
    BY <2>1, <2>4, <2>5, <2>6, <1>a
  <2> QED BY <2>8, <2>9, <2>10, <2>11 DEF BreakerInv
<1>4. ASSUME NEW t \in Tasks, now' = now, Validated(t), UNCHANGED accepted \/ Taken(t)
      PROVE  BreakerInv'
  <2>1. \A s \in trips : s + Cooldown <= now BY <1>4, <1>b DEF Validated
  <2>2. trippedUntil' = -1 /\ trips' = trips BY <1>4 DEF Validated
  <2>3. \A e \in accepted' : e \in accepted \/ e.time = now
    BY <1>4 DEF Taken, At
  <2>4. IsolatedIsSilent'
    BY <1>a, <2>1, <2>2, <2>3 DEF BreakerInv, IsolatedIsSilent
  <2> QED BY <1>4, <1>a, <2>1, <2>2, <2>4 DEF BreakerInv
<1> QED BY <1>1, <1>2, <1>3, <1>4 DEF LimitStep, EngineStep

(***************************************************************************)
(* The token bucket                                                        *)
(***************************************************************************)
BucketInv ==
  /\ last \in 0..now /\ tokens \in 0..Capacity
  /\ \A s \in 0..now :
       Cardinality(AcceptedBetween(s, now)) + Refilled <= Capacity + (now - s)
  /\ BurstHolds

LEMMA MinOfTwo ==
  ASSUME NEW a \in Int, NEW b \in Int
  PROVE  Min({a, b}) = IF a <= b THEN a ELSE b
<1> DEFINE m == IF a <= b THEN a ELSE b
<1>1. m \in {a, b} /\ \A x \in {a, b} : m <= x OBVIOUS
<1>2. ASSUME NEW x \in {a, b}, \A y \in {a, b} : x <= y
      PROVE  x = m
  BY <1>2
<1> QED BY <1>1, <1>2 DEF Min

LEMMA RefilledIs ==
  ASSUME PastInv, BucketInv
  PROVE  /\ Refilled \in 0..Capacity
         /\ Refilled = IF Capacity <= tokens + (now - last)
                         THEN Capacity ELSE tokens + (now - last)
<1>1. Capacity \in Int /\ tokens + (now - last) \in Int
  BY GuardrailsAssumption DEF PastInv, BucketInv
<1>2. Refilled = IF Capacity <= tokens + (now - last)
                   THEN Capacity ELSE tokens + (now - last)
  BY <1>1, MinOfTwo DEF Refilled
<1> QED BY <1>2, GuardrailsAssumption DEF PastInv, BucketInv

LEMMA BucketInit == Init => BucketInv
<1> SUFFICES ASSUME Init
             PROVE  BucketInv
  OBVIOUS
<1>1. /\ accepted = {} /\ now = 0 /\ last = 0 /\ tokens = Capacity
      /\ Capacity \in Nat
  BY GuardrailsAssumption DEF Init, GuardrailsInit
<1>2. \A a, b : AcceptedBetween(a, b) = {} BY <1>1 DEF AcceptedBetween
<1>3. Refilled = Capacity BY <1>1, MinOfTwo DEF Refilled
<1> QED BY <1>1, <1>2, <1>3, FS_EmptySet DEF BucketInv, BurstHolds

(* What becomes of the bucket, and how many tokens it would have, once the *)
(* gate has taken n tokens.                                                *)
LEMMA RefilledAfter ==
  ASSUME PastInv, BucketInv, now' = now, last' = now,
         NEW n \in {0, 1}, n <= Refilled, tokens' = Refilled - n
  PROVE  /\ last' \in 0..now' /\ tokens' \in 0..Capacity
         /\ Refilled' = Refilled - n
<1>1. Refilled \in 0..Capacity /\ Capacity \in Nat /\ now \in Nat
  BY RefilledIs, GuardrailsAssumption DEF PastInv
<1>2. tokens' + (now' - last') = Refilled - n BY <1>1
<1>3. Refilled' = Min({Capacity, tokens' + (now' - last')}) BY DEF Refilled
<1>4. Min({Capacity, Refilled - n}) = Refilled - n
  <2>1. Refilled - n \in Int /\ Capacity \in Int BY <1>1
  <2>2. Refilled - n <= Capacity BY <1>1
  <2> QED BY <1>1, <2>1, <2>2, MinOfTwo
<1> QED BY <1>1, <1>2, <1>3, <1>4

(* An interval that goes beyond now holds what it holds until now.         *)
LEMMA UntilNow ==
  ASSUME PastInv, NEW a \in Nat, NEW b \in Nat, now <= b
  PROVE  AcceptedBetween(a, b) = AcceptedBetween(a, now)
BY DEF AcceptedBetween, PastInv

LEMMA BucketNext ==
  ASSUME PastInv, BucketInv, LimitStep
  PROVE  BucketInv'
<1>a. Capacity \in Nat /\ now \in Nat /\ Refilled \in 0..Capacity
  BY RefilledIs, GuardrailsAssumption DEF PastInv
<1>1. CASE now' = now + 1 /\ UNCHANGED <<engineVars, gateVars>>
  <2>1. accepted' = accepted /\ tokens' = tokens /\ last' = last
    BY <1>1 DEF gateVars
  <2>2. \A a, b : AcceptedBetween(a, b)' = AcceptedBetween(a, b)
    BY <2>1 DEF AcceptedBetween
  <2>3. last' \in 0..now' /\ tokens' \in 0..Capacity
    BY <1>1, <1>a, <2>1 DEF BucketInv
  <2>4. Refilled' \in 0..Capacity /\ Refilled' <= Refilled + 1
    <3>1. tokens' + (now' - last') \in Int
      BY <1>1, <1>a, <2>1 DEF BucketInv
    <3>2. Refilled' = IF Capacity <= tokens' + (now' - last')
                        THEN Capacity ELSE tokens' + (now' - last')
      BY <1>a, <3>1, MinOfTwo DEF Refilled
    <3> QED BY <1>1, <1>a, <2>1, <2>3, <3>2, RefilledIs DEF BucketInv
  <2>5. ASSUME NEW s \in 0..now'
        PROVE  Cardinality(AcceptedBetween(s, now'))
                 + Refilled' <= Capacity + (now' - s)
    <3>1. CASE s \in 0..now
      <4>1. AcceptedBetween(s, now') = AcceptedBetween(s, now)
        BY <1>1, <1>a, <3>1, UntilNow
      <4>2. Cardinality(AcceptedBetween(s, now)) + Refilled <= Capacity + (now - s)
        BY <3>1 DEF BucketInv
      <4> QED BY <1>1, <1>a, <2>4, <3>1, <4>1, <4>2, BetweenFinite
    <3>2. CASE s = now'
      <4>1. AcceptedBetween(s, now') = {}
        BY <1>1, <1>a, <3>2 DEF AcceptedBetween, PastInv
      <4> QED BY <1>1, <1>a, <2>4, <3>2, <4>1, FS_EmptySet
    <3> QED BY <1>1, <1>a, <3>1, <3>2
  <2>6. ASSUME NEW s \in 0..now', NEW d \in 0..now'
        PROVE  Cardinality(AcceptedBetween(s, s + d)) <= Capacity + d
    <3>1. CASE s + d <= now
      <4>1. s \in 0..now /\ d \in 0..now BY <1>1, <1>a, <3>1
      <4> QED BY <4>1 DEF BucketInv, BurstHolds
    <3>2. CASE now < s + d
      <4>1. AcceptedBetween(s, s + d) = AcceptedBetween(s, now')
        BY <1>1, <1>a, <3>2 DEF AcceptedBetween, PastInv
      <4>2. now' - s <= d BY <1>1, <1>a, <3>2
      <4> QED BY <1>1, <1>a, <2>4, <2>5, <4>1, <4>2, BetweenFinite
    <3> QED BY <1>1, <1>a, <3>1, <3>2
  <2>7. BurstHolds' BY <2>2, <2>6 DEF BurstHolds
  <2>8. \A s \in 0..now' : Cardinality(AcceptedBetween(s, now)')
                            + Refilled' <= Capacity + (now' - s)
    BY <2>2, <2>5, <2>1 DEF AcceptedBetween
  <2> QED BY <2>3, <2>7, <2>8 DEF BucketInv
<1>2. CASE now' = now /\ UNCHANGED accepted /\ GateStep
  <2>1. \A a, b : AcceptedBetween(a, b)' = AcceptedBetween(a, b)
    BY <1>2 DEF AcceptedBetween
  <2>2. /\ last' \in 0..now' /\ tokens' \in 0..Capacity
        /\ Refilled' \in Int /\ Refilled' <= Refilled
    <3>1. CASE UNCHANGED <<tokens, last>>
      BY <1>2, <3>1, <1>a DEF BucketInv, Refilled
    <3>2. CASE tokens' = Refilled /\ last' = now
      <4>1. 0 <= Refilled /\ tokens' = Refilled - 0 BY <3>2, <1>a
      <4> QED BY <1>2, <3>2, <4>1, <1>a, RefilledAfter
    <3>3. CASE TakeToken
      BY <1>2, <3>3, <1>a, RefilledAfter DEF TakeToken
    <3> QED BY <1>2, <3>1, <3>2, <3>3 DEF GateStep
  <2>3. \A s \in 0..now' : Cardinality(AcceptedBetween(s, now)')
                            + Refilled' <= Capacity + (now' - s)
    BY <1>2, <1>a, <2>1, <2>2, BetweenFinite DEF BucketInv
  <2>4. BurstHolds' BY <1>2, <2>1 DEF BucketInv, BurstHolds
  <2> QED BY <2>2, <2>3, <2>4 DEF BucketInv
<1>3. ASSUME NEW t \in Tasks, now' = now, TakeToken, Taken(t)
      PROVE  BucketInv'
  <2>1. /\ last' \in 0..now' /\ tokens' \in 0..Capacity
        /\ Refilled' = Refilled - 1
    BY <1>3, <1>a, RefilledAfter DEF TakeToken
  <2>2. ASSUME NEW s \in 0..now
        PROVE  Cardinality(AcceptedBetween(s, now)')
                 + Refilled' <= Capacity + (now - s)
    <3>1. Cardinality(AcceptedBetween(s, now)) + Refilled <= Capacity + (now - s)
      BY DEF BucketInv
    <3>2. /\ Cardinality(AcceptedBetween(s, now)')
               <= Cardinality(AcceptedBetween(s, now)) + 1
          /\ Cardinality(AcceptedBetween(s, now)') \in Nat
      BY <1>3, <1>a, WindowAfter
    <3> QED BY <1>a, <2>1, <3>1, <3>2, BetweenFinite
  <2>3. ASSUME NEW s \in 0..now, NEW d \in 0..now
        PROVE  Cardinality(AcceptedBetween(s, s + d)') <= Capacity + d
    <3>1. CASE s + d < now
      <4>1. AcceptedBetween(s, s + d)' = AcceptedBetween(s, s + d)
        BY <1>3, <1>a, <3>1, WindowAfter
      <4> QED BY <4>1 DEF BucketInv, BurstHolds
    <3>2. CASE now <= s + d
      <4>1. AcceptedBetween(s, s + d)' = AcceptedBetween(s, now)'
        <5>1. PastInv' BY PastNext
        <5>2. \A e \in accepted' : e.time \in 0..now BY <1>3, <5>1 DEF PastInv
        <5> QED BY <1>3, <1>a, <3>2, <5>2 DEF AcceptedBetween
      <4>2. Cardinality(AcceptedBetween(s, now)') \in Nat
        BY <1>3, <1>a, WindowAfter
      <4>3. Refilled' \in Nat BY <1>a, <1>3, <2>1 DEF TakeToken
      <4> QED BY <1>a, <2>2, <3>2, <4>1, <4>2, <4>3
    <3> QED BY <1>a, <3>1, <3>2
  <2>4. BurstHolds' BY <1>3, <2>3 DEF BurstHolds, AcceptedBetween
  <2>5. \A s \in 0..now' : Cardinality(AcceptedBetween(s, now)')
                            + Refilled' <= Capacity + (now' - s)
    BY <1>3, <2>2 DEF AcceptedBetween
  <2> QED BY <2>1, <2>4, <2>5 DEF BucketInv
<1> QED BY <1>1, <1>2, <1>3 DEF LimitStep, GateStep, EngineStep

(***************************************************************************)
(* Theorems                                                                *)
(***************************************************************************)
LimitInv == PastInv /\ RateInv /\ BreakerInv /\ BucketInv

LEMMA AlwaysLimited == Spec => []LimitInv
<1>1. Init => LimitInv
  BY PastInit, RateInit, BreakerInit, BucketInit DEF LimitInv
<1>2. LimitInv /\ [Next]_vars => LimitInv'
  BY NextIsLimitStep, PastNext, RateNext, BreakerNext, BucketNext DEF LimitInv
<1> QED BY <1>1, <1>2, PTL DEF Spec

(* No window of the configured length holds more tasks of an agent than    *)
(* its quota: the engine counts before it decides, and forgets only what   *)
(* has left the window (count_recent and record, guardrails.py:67, 77).    *)
THEOREM RateAlwaysHolds == Spec => []RateHolds
<1>1. LimitInv => RateHolds BY DEF LimitInv, RateInv
<1> QED BY <1>1, AlwaysLimited, PTL

(* Over any interval the hub takes no more than a full bucket and what it  *)
(* gained meanwhile (_refill, backpressure.py:136).                        *)
THEOREM BurstAlwaysHolds == Spec => []BurstHolds
<1>1. LimitInv => BurstHolds BY DEF LimitInv, BucketInv
<1> QED BY <1>1, AlwaysLimited, PTL

(* An agent that trips the breaker gets no submission in during its        *)
(* cooldown, whatever it sends (record_violation and is_tripped,           *)
(* guardrails.py:89).                                                      *)
THEOREM IsolatedStaysSilent == Spec => []IsolatedIsSilent
<1>1. LimitInv => IsolatedIsSilent BY DEF LimitInv, BreakerInv
<1> QED BY <1>1, AlwaysLimited, PTL

(***************************************************************************)
(* Types.  Those of the limits follow from what a step does to them; the   *)
(* client's and the registry's are a matter of each action.                *)
(***************************************************************************)
Futures == {"none", "waiting", "timeout", "refused", "lost", "completed", "failed"}
Statuses == {"none", "pending", "running", "completed", "failed"}
Replies == [type : {"error", "completed", "failed"}, task : Tasks \cup {NoTask}]

EngineTypes ==
  /\ now \in Nat
  /\ depth \in [Tasks -> Nat]
  /\ events \subseteq [task : Tasks, time : 0..now]
  /\ accepted \subseteq [task : Tasks, time : 0..now]
  /\ violations \in Nat /\ trippedUntil \in Nat \cup {-1}

ClientTypes ==
  /\ registry \in [Tasks -> Statuses]
  /\ future \in [Tasks -> Futures]
  /\ stage \in [Tasks -> Stages]
  /\ toHub \in Seq(Tasks) /\ toAgent \in Seq(Replies)

LEMMA TypesAre == TypeOK <=> EngineTypes /\ ClientTypes /\ last \in 0..now /\ tokens \in 0..Capacity
BY DEF TypeOK, GuardrailsTypeOK, EngineTypes, ClientTypes, Futures, Statuses, Replies

LEMMA EngineTypesNext ==
  ASSUME EngineTypes, LimitStep
  PROVE  EngineTypes'
<1>a. Cooldown \in Nat /\ now \in Nat BY GuardrailsAssumption DEF EngineTypes
<1>b. \A t \in Tasks : DepthOf(t) \in Nat
  BY GuardrailsAssumption DEF EngineTypes, DepthOf
<1>c. Counted \in Nat /\ Recent \subseteq [task : Tasks, time : 0..now]
  BY DEF EngineTypes, Counted, Recent
<1>d. \A t \in Tasks : At(t) \in [task : Tasks, time : 0..now] BY <1>a DEF At
<1>1. CASE now' = now + 1 /\ UNCHANGED <<engineVars, gateVars>>
  <2>1. [task : Tasks, time : 0..now] \subseteq [task : Tasks, time : 0..now']
    BY <1>1, <1>a
  <2> QED BY <1>1, <1>a, <2>1 DEF EngineTypes, engineVars, gateVars
<1>2. CASE now' = now /\ UNCHANGED <<engineVars, accepted>>
  BY <1>2 DEF EngineTypes, engineVars
<1>3. ASSUME NEW t \in Tasks, now' = now, Violation(t), UNCHANGED accepted
      PROVE  EngineTypes'
  BY <1>3, <1>a, <1>b, <1>c DEF Violation, CountViolation, EngineTypes
<1>4. ASSUME NEW t \in Tasks, now' = now, Validated(t), UNCHANGED accepted \/ Taken(t)
      PROVE  EngineTypes'
  BY <1>4, <1>b, <1>c, <1>d DEF Validated, Taken, EngineTypes
<1> QED BY <1>1, <1>2, <1>3, <1>4 DEF LimitStep, EngineStep

LEMMA AnswerTypes ==
  ASSUME toAgent \in Seq(Replies), NEW m \in Replies, Answer(m)
  PROVE  toAgent' \in Seq(Replies)
BY AppendProperties DEF Answer

LEMMA ReadTypes ==
  ASSUME toHub \in Seq(Tasks), NEW t \in Tasks, Read(t)
  PROVE  toHub' \in Seq(Tasks)
BY HeadTailProperties DEF Read

LEMMA ClientTypesNext ==
  ASSUME ClientTypes, [Next]_vars
  PROVE  ClientTypes'
<1>a. /\ registry \in [Tasks -> Statuses] /\ future \in [Tasks -> Futures]
      /\ stage \in [Tasks -> Stages]
      /\ toHub \in Seq(Tasks) /\ toAgent \in Seq(Replies)
  BY DEF ClientTypes
<1>1. ASSUME NEW t \in Tasks, HandleSubmit(t)
      PROVE  ClientTypes'
  <2> USE DEF HandleSubmit, RefuseByGuardrail, RefuseBySaturation, RetainTask, RefuseByEscrow,
              AcceptTask
  <2>1. future' = future /\ Read(t) BY <1>1 DEF ClientStill
  <2>2. toAgent' \in Seq(Replies)
    <3>1. Unnamed \in Replies /\ Error(t) \in Replies BY DEF Unnamed, Error, Replies
    <3>2. Answer(Unnamed) \/ Answer(Error(t)) \/ toAgent' = toAgent BY <1>1
    <3> QED BY <1>a, <3>1, <3>2, AnswerTypes
  <2>3. registry' = registry \/ registry' = [registry EXCEPT ![t] = "pending"]
    BY <1>1 DEF Saturated, Accept, gateVars
  <2>4. registry' \in [Tasks -> Statuses] BY <1>a, <2>3 DEF Statuses
  <2>5. stage' = stage \/ \E st \in Stages : Enters(t, st)
    BY <1>1 DEF Deliver, Stages
  <2>6. stage' \in [Tasks -> Stages] BY <1>a, <2>5 DEF Enters
  <2> QED BY <1>a, <2>1, <2>2, <2>4, <2>6, ReadTypes DEF ClientTypes
<1>2. ASSUME NEW t \in Tasks, Timeout(t) \/ AdminStep(t) \/ Resume(t) \/ Begin(t)
      PROVE  ClientTypes'
  <2>1. CASE Timeout(t)
    BY <2>1, <1>a DEF Timeout, ClientTypes, gateVars, Futures
  <2>2. CASE AdminStep(t) \/ Resume(t) \/ Begin(t)
    <3>1. UNCHANGED <<future, toHub, toAgent>>
      BY <2>2 DEF AdminStep, Approve, Deny, Cancel, Resume, Begin, OnlyTask, clientVars
    <3>2. registry' = registry \/ \E st \in Statuses : registry' = [registry EXCEPT ![t] = st]
      BY <2>2 DEF AdminStep, Approve, Deny, Cancel, Resume, Begin, Statuses
    <3>3. stage' = stage \/ \E st \in Stages : Enters(t, st)
      BY <2>2 DEF AdminStep, Approve, Deny, Cancel, Resume, Begin, Deliver, Stages
    <3>4. registry' \in [Tasks -> Statuses] BY <1>a, <3>2
    <3>5. stage' \in [Tasks -> Stages] BY <1>a, <3>3 DEF Enters
    <3> QED BY <1>a, <3>1, <3>4, <3>5 DEF ClientTypes
  <2> QED BY <1>2, <2>1, <2>2
<1>3. ASSUME NEW t \in Tasks, Finish(t)
      PROVE  ClientTypes'
  <2>1. PICK s \in {"completed", "failed"} :
          registry' = [registry EXCEPT ![t] = s] /\ Answer(Update(t, s))
    BY <1>3 DEF Finish
  <2>2. Update(t, s) \in Replies BY DEF Update, Replies
  <2>3. toAgent' \in Seq(Replies) BY <1>a, <2>1, <2>2, AnswerTypes
  <2>4. registry' \in [Tasks -> Statuses] BY <1>a, <2>1 DEF Statuses
  <2>5. stage' \in [Tasks -> Stages] BY <1>3, <1>a DEF Finish, Enters, Stages
  <2> QED BY <1>3, <1>a, <2>3, <2>4, <2>5 DEF Finish, ClientStill, ClientTypes
<1>4. CASE ReadError
  <2>1. /\ toAgent' \in Seq(Replies)
        /\ UNCHANGED <<registry, toHub, stage>>
    BY <1>4, <1>a, HeadTailProperties DEF ReadError, gateVars
  <2>2. future' \in [Tasks -> Futures] BY <1>4, <1>a DEF ReadError, Futures
  <2> QED BY <1>a, <2>1, <2>2 DEF ClientTypes
<1>5. CASE ReadUpdate
  <2>1. /\ toAgent' \in Seq(Replies)
        /\ UNCHANGED <<registry, toHub, stage>>
    BY <1>5, <1>a, HeadTailProperties DEF ReadUpdate, gateVars
  <2>2. future' \in [Tasks -> Futures] BY <1>5, <1>a DEF ReadUpdate, Futures
  <2> QED BY <1>a, <2>1, <2>2 DEF ClientTypes
<1>6. CASE Drop
  <2>1. future' \in [Tasks -> Futures] BY <1>6, <1>a DEF Drop, Futures
  <2> QED BY <1>6, <1>a, <2>1 DEF Drop, ClientTypes, gateVars
<1>7. ASSUME NEW fan \in Fans, FanOut(fan)
      PROVE  ClientTypes'
  <2>1. fan \in Seq(Tasks) BY AdmissionAssumption DEF AdmissionAssumption
  <2>2. future' \in [Tasks -> Futures] BY <1>7 DEF FanOut, Futures
  <2> QED BY <1>7, <1>a, <2>1, <2>2 DEF FanOut, ClientTypes, gateVars
<1>8. CASE Tick \/ UNCHANGED vars
  BY <1>8 DEF Tick, ClientTypes, vars, gateVars, clientVars
<1> QED BY <1>1, <1>2, <1>3, <1>4, <1>5, <1>6, <1>7, <1>8 DEF Next, ExecutorStep

(* The variables have their types: an error that names no task and the     *)
(* answer to one that is gone are read like any other, and what the bucket *)
(* holds never leaves 0..max_tasks_per_sec.                                *)
THEOREM TypeCorrect == Spec => []TypeOK
<1>1. Init => EngineTypes /\ ClientTypes
  <2> SUFFICES ASSUME Init PROVE EngineTypes /\ ClientTypes OBVIOUS
  <2>1. << >> \in Seq(Tasks) /\ << >> \in Seq(Replies) OBVIOUS
  <2> QED BY <2>1 DEF Init, GuardrailsInit, EngineTypes, ClientTypes, Futures, Statuses, Stages
<1>2. EngineTypes /\ ClientTypes /\ [Next]_vars => EngineTypes' /\ ClientTypes'
  BY NextIsLimitStep, EngineTypesNext, ClientTypesNext
<1>3. LimitInv /\ EngineTypes /\ ClientTypes => TypeOK
  BY TypesAre DEF LimitInv, BucketInv
<1> QED BY <1>1, <1>2, <1>3, AlwaysLimited, PTL DEF Spec
=============================================================================
