-------------------------------- MODULE Sums --------------------------------
(***************************************************************************)
(* Lemmas about the sum of a function over a finite set, as the balances   *)
(* of accounts and the prices of requests are added up (Total of Escrow,   *)
(* PriceOf of Registry).                                                   *)
(***************************************************************************)
EXTENDS FiniteSetsExt, FiniteSetTheorems, WellFoundedInduction, TLAPS

SumOf(f, S) == MapThenSumSet(LAMBDA x : f[x], S)

(***************************************************************************)
(* Induction, with the property given as the set of what has it: what is   *)
(* outside has no least element.                                           *)
(***************************************************************************)
LEMMA SubsetInduction ==
  ASSUME NEW S, IsFiniteSet(S), NEW T,
         \A s \in SUBSET S : (\A u \in SUBSET s : u # s => u \in T) => s \in T
  PROVE  SUBSET S \subseteq T
<1> DEFINE Bad == (SUBSET S) \ T
           R == StrictSubsetOrdering(S)
<1>1. IsWellFoundedOn(R, SUBSET S)
  BY FS_StrictSubsetOrderingWellFounded, FS_FiniteSubsetsOfFinite
<1>2. SUFFICES ASSUME Bad # {} PROVE FALSE OBVIOUS
<1>3. PICK s \in Bad : \A u \in Bad : ~ (<<u, s>> \in R)
  <2> HIDE DEF R
  <2>1. Bad \subseteq SUBSET S OBVIOUS
  <2> HIDE DEF Bad
  <2> QED BY <1>1, <1>2, <2>1, WFMin
<1>4. ASSUME NEW u \in SUBSET s, u # s PROVE u \in T
  <2>1. <<u, s>> \in R BY <1>4 DEF StrictSubsetOrdering
  <2> QED BY <1>3, <2>1
<1> QED BY <1>3, <1>4

LEMMA UpwardInduction ==
  ASSUME NEW T, 0 \in T, \A n \in Nat : n \in T => n + 1 \in T
  PROVE  Nat \subseteq T
<1> DEFINE Bad == Nat \ T
           R == OpToRel(<, Nat)
<1>1. SUFFICES ASSUME Bad # {} PROVE FALSE OBVIOUS
<1>2. PICK n \in Bad : \A m \in Bad : ~ (<<m, n>> \in R)
  <2> HIDE DEF R
  <2>1. Bad \subseteq Nat OBVIOUS
  <2>2. IsWellFoundedOn(R, Nat) BY NatLessThanWellFounded DEF R
  <2> HIDE DEF Bad
  <2> QED BY <1>1, <2>1, <2>2, WFMin
<1>3. n # 0 /\ n - 1 \in Nat /\ n = (n - 1) + 1 OBVIOUS
<1>4. n - 1 \in Bad BY <1>3
<1>5. <<n - 1, n>> \in R BY <1>3 DEF OpToRel
<1> QED BY <1>2, <1>4, <1>5

(***************************************************************************)
(* The recursive definition of the sum has a solution.                     *)
(***************************************************************************)
Pick(s) == CHOOSE x \in s : TRUE

Adds(f, D, g) ==
  g = [s \in D |-> IF s = {} THEN 0 ELSE f[Pick(s)] + g[s \ {Pick(s)}]]
AddsUp(f, S, g) == Adds(f, SUBSET S, g)

LEMMA SumIsIter ==
  ASSUME NEW f, NEW S
  PROVE  SumOf(f, S) = (CHOOSE g : AddsUp(f, S, g))[S]
BY DEF SumOf, MapThenSumSet, MapThenFoldSet, AddsUp, Adds, Pick

LEMMA PickIn == \A s : s # {} => Pick(s) \in s
BY DEF Pick

LEMMA SumExists ==
  ASSUME NEW f, NEW S, IsFiniteSet(S)
  PROVE  \E g : AddsUp(f, S, g)
<1> DEFINE Upto(n) == {s \in SUBSET S : Cardinality(s) <= n}
           T == {n \in Nat : \E g : Adds(f, Upto(n), g)}
<1>a. \A s \in SUBSET S : IsFiniteSet(s) /\ Cardinality(s) \in Nat
  BY FS_Subset, FS_CardinalityType
<1>1. 0 \in T
  <2> DEFINE g == [s \in Upto(0) |-> 0]
  <2>1. \A s \in Upto(0) : s = {} BY <1>a, FS_EmptySet
  <2>2. g = [s \in Upto(0) |-> IF s = {} THEN 0 ELSE f[Pick(s)] + g[s \ {Pick(s)}]]
    BY <2>1
  <2> QED BY <2>2 DEF Adds
<1>2. ASSUME NEW n \in Nat, n \in T PROVE n + 1 \in T
  <2>1. PICK g : Adds(f, Upto(n), g) BY <1>2
  <2> DEFINE V(h, s) == IF s = {} THEN 0 ELSE f[Pick(s)] + h[s \ {Pick(s)}]
             h == [s \in Upto(n + 1) |-> V(g, s)]
  <2>2. g = [s \in Upto(n) |-> V(g, s)] BY <2>1 DEF Adds
  <2>3. \A s \in Upto(n) : h[s] = g[s]
    <3>1. Upto(n) \subseteq Upto(n + 1) BY <1>a
    <3> HIDE DEF V, Upto
    <3> QED BY <2>2, <3>1
  <2>4. ASSUME NEW s \in Upto(n + 1), s # {}
        PROVE  s \ {Pick(s)} \in Upto(n)
    <3>1. Pick(s) \in s /\ IsFiniteSet(s) /\ Cardinality(s) <= n + 1 BY <1>a, <2>4, PickIn
    <3>2. Cardinality(s \ {Pick(s)}) = Cardinality(s) - 1 BY <3>1, FS_RemoveElement
    <3>3. Cardinality(s) \in Nat BY <1>a
    <3> QED BY <3>1, <3>2, <3>3
  <2>5. \A s \in Upto(n + 1) : V(g, s) = V(h, s) BY <2>3, <2>4
  <2>6. h = [s \in Upto(n + 1) |-> V(h, s)]
    <3>1. \A s \in Upto(n + 1) : h[s] = V(h, s) BY <2>5
    <3>2. h = [s \in Upto(n + 1) |-> h[s]] OBVIOUS
    <3> HIDE DEF V, Upto, h
    <3> QED BY <3>1, <3>2
  <2>7. Adds(f, Upto(n + 1), h) BY <2>6 DEF Adds
  <2>8. \E k : Adds(f, Upto(n + 1), k)
    <3> HIDE DEF h, Upto
    <3> QED BY <2>7
  <2>9. n + 1 \in Nat OBVIOUS
  <2> QED BY <2>8, <2>9
<1>3. Cardinality(S) \in T
  <2>1. \A n \in Nat : n \in T => n + 1 \in T BY <1>2
  <2> HIDE DEF T
  <2> QED BY <1>1, <2>1, UpwardInduction, FS_CardinalityType
<1>4. Upto(Cardinality(S)) = SUBSET S BY FS_Subset
<1> QED BY <1>3, <1>4 DEF AddsUp

(***************************************************************************)
(* Whatever element is taken out first, the sum is the same.               *)
(***************************************************************************)
LEMMA AddsAnyFirst ==
  ASSUME NEW S, IsFiniteSet(S), NEW f, \A x \in S : f[x] \in Int,
         NEW g, AddsUp(f, S, g)
  PROVE  /\ g[{}] = 0
         /\ \A s \in SUBSET S : g[s] \in Int
         /\ \A s \in SUBSET S : \A x \in s : g[s] = f[x] + g[s \ {x}]
<1>1. /\ g[{}] = 0
      /\ \A s \in SUBSET S : s # {} => g[s] = f[Pick(s)] + g[s \ {Pick(s)}]
  BY DEF AddsUp, Adds
<1> DEFINE T == {s \in SUBSET S : /\ g[s] \in Int
                                 /\ \A x \in s : g[s] = f[x] + g[s \ {x}]}
<1>2. ASSUME NEW s \in SUBSET S, \A u \in SUBSET s : u # s => u \in T
      PROVE  s \in T
  <2>1. CASE s = {} BY <1>1, <2>1
  <2>2. CASE s # {}
    <3> DEFINE p == Pick(s)
    <3>1. p \in s /\ g[s] = f[p] + g[s \ {p}] BY <1>1, <2>2, PickIn
    <3> HIDE DEF p
    <3>2. s \ {p} \in T BY <1>2, <3>1
    <3>3. g[s] \in Int BY <3>1, <3>2
    <3>4. ASSUME NEW x \in s PROVE g[s] = f[x] + g[s \ {x}]
      <4>1. CASE x = p BY <3>1, <4>1
      <4>2. CASE x # p
        <5>1. x \in s \ {p} /\ p \in s \ {x} BY <3>1, <4>2
        <5>2. g[s \ {p}] = f[x] + g[(s \ {p}) \ {x}] BY <3>2, <5>1
        <5>3. s \ {x} \in T BY <1>2
        <5>4. g[s \ {x}] = f[p] + g[(s \ {x}) \ {p}] BY <5>1, <5>3
        <5>5. (s \ {p}) \ {x} = (s \ {x}) \ {p} OBVIOUS
        <5>6. (s \ {p}) \ {x} \in T BY <1>2, <3>1
        <5> DEFINE rest == g[(s \ {p}) \ {x}]
        <5>7. f[x] \in Int /\ f[p] \in Int /\ rest \in Int BY <3>1, <5>6
        <5>8. g[s] = f[p] + (f[x] + rest) /\ g[s \ {x}] = f[p] + rest
          BY <3>1, <5>2, <5>4, <5>5
        <5> HIDE DEF rest, T
        <5> QED BY <5>7, <5>8
      <4> QED BY <4>1, <4>2
    <3> QED BY <3>3, <3>4
  <2> QED BY <2>1, <2>2
<1>3. SUBSET S \subseteq T
  <2> HIDE DEF T
  <2> QED BY <1>2, SubsetInduction
<1> QED BY <1>1, <1>3

(* The sum over a part of S is the one any solution over S gives it.       *)
LEMMA SumIs ==
  ASSUME NEW S, IsFiniteSet(S), NEW f, NEW g, AddsUp(f, S, g), NEW s \in SUBSET S
  PROVE  SumOf(f, s) = g[s]
<1>1. IsFiniteSet(s) BY FS_Subset
<1> DEFINE h == CHOOSE k : AddsUp(f, s, k)
<1>2. AddsUp(f, s, h) BY <1>1, SumExists
<1>3. SumOf(f, s) = h[s] BY SumIsIter
<1> HIDE DEF h
<1> DEFINE T == {u \in SUBSET s : g[u] = h[u]}
<1>4. ASSUME NEW u \in SUBSET s, \A v \in SUBSET u : v # u => v \in T
      PROVE  u \in T
  <2>1. u \in SUBSET S OBVIOUS
  <2>2. g[u] = IF u = {} THEN 0 ELSE f[Pick(u)] + g[u \ {Pick(u)}] BY <2>1 DEF AddsUp, Adds
  <2>3. h[u] = IF u = {} THEN 0 ELSE f[Pick(u)] + h[u \ {Pick(u)}] BY <1>2 DEF AddsUp, Adds
  <2>4. u # {} => u \ {Pick(u)} \in T BY <1>4, PickIn
  <2> QED BY <2>2, <2>3, <2>4
<1>5. SUBSET s \subseteq T
  <2> HIDE DEF T
  <2> QED BY <1>1, <1>4, SubsetInduction
<1>6. s \in T BY <1>5
<1> QED BY <1>3, <1>6

(***************************************************************************)
(* What the proofs about sums use.                                         *)
(***************************************************************************)
Whole(f, S) == \A x \in S : f[x] \in Int
Natural(f, S) == \A x \in S : f[x] \in Nat
Alike(f, g, S) == \A x \in S : g[x] = f[x]

LEMMA SumParts ==
  ASSUME NEW S, IsFiniteSet(S), NEW f, Whole(f, S)
  PROVE  \A s \in SUBSET S : /\ SumOf(f, s) \in Int
                             /\ s = {} => SumOf(f, s) = 0
                             /\ \A x \in s : SumOf(f, s) = f[x] + SumOf(f, s \ {x})
<1>1. PICK g : AddsUp(f, S, g) BY SumExists
<1>2. /\ g[{}] = 0
      /\ \A s \in SUBSET S : g[s] \in Int
      /\ \A s \in SUBSET S : \A x \in s : g[s] = f[x] + g[s \ {x}]
  BY <1>1, AddsAnyFirst DEF Whole
<1>3. \A s \in SUBSET S : SumOf(f, s) = g[s] BY <1>1, SumIs
<1> QED BY <1>2, <1>3

LEMMA SumType ==
  ASSUME NEW S, IsFiniteSet(S), NEW f, Whole(f, S)
  PROVE  SumOf(f, S) \in Int
BY SumParts

LEMMA SumEmpty == ASSUME NEW f PROVE SumOf(f, {}) = 0
<1> DEFINE none == {}
<1>1. IsFiniteSet(none) BY FS_EmptySet
<1>2. none \in SUBSET none /\ none = {} /\ Whole(f, none) BY DEF Whole
<1> HIDE DEF none
<1>3. SumOf(f, none) = 0 BY <1>1, <1>2, SumParts
<1> QED BY <1>2, <1>3

LEMMA SumRemove ==
  ASSUME NEW S, IsFiniteSet(S), NEW f, Whole(f, S), NEW x \in S
  PROVE  /\ SumOf(f, S) = f[x] + SumOf(f, S \ {x})
         /\ SumOf(f, S \ {x}) \in Int
<1>1. S \ {x} \in SUBSET S OBVIOUS
<1> QED BY <1>1, SumParts

LEMMA SumAdd ==
  ASSUME NEW S, IsFiniteSet(S), NEW f, NEW x, x \notin S, Whole(f, S \cup {x})
  PROVE  SumOf(f, S \cup {x}) = f[x] + SumOf(f, S)
<1> DEFINE R == S \cup {x}
<1>1. IsFiniteSet(R) BY FS_AddElement
<1>2. R \ {x} = S /\ x \in R /\ Whole(f, R) OBVIOUS
<1> HIDE DEF R
<1>3. SumOf(f, R) = f[x] + SumOf(f, R \ {x}) BY <1>1, <1>2, SumRemove
<1> QED BY <1>2, <1>3 DEF R

(* The sum depends only on what is added.                                  *)
LEMMA SumAlike ==
  ASSUME NEW S, IsFiniteSet(S), NEW f, NEW g, Whole(f, S), Alike(f, g, S)
  PROVE  SumOf(g, S) = SumOf(f, S)
<1> DEFINE T == {s \in SUBSET S : SumOf(g, s) = SumOf(f, s)}
<1>0. Whole(g, S) BY DEF Whole, Alike
<1>1. ASSUME NEW s \in SUBSET S, \A u \in SUBSET s : u # s => u \in T
      PROVE  s \in T
  <2>1. CASE s = {} BY <1>0, <2>1, SumParts
  <2>2. CASE s # {}
    <3>1. PICK x \in s : TRUE BY <2>2
    <3>2. s \ {x} \in T BY <1>1, <3>1
    <3>3. SumOf(f, s) = f[x] + SumOf(f, s \ {x}) BY SumParts
    <3>4. SumOf(g, s) = g[x] + SumOf(g, s \ {x}) BY <1>0, SumParts
    <3>5. g[x] = f[x] BY DEF Alike
    <3> QED BY <3>2, <3>3, <3>4, <3>5
  <2> QED BY <2>1, <2>2
<1>2. SUBSET S \subseteq T
  <2> HIDE DEF T
  <2> QED BY <1>1, SubsetInduction
<1> QED BY <1>2

(* One entry changed changes the sum by the difference.                    *)
LEMMA SumChange ==
  ASSUME NEW S, IsFiniteSet(S), NEW f, NEW g, NEW x \in S,
         Whole(f, S), Whole(g, S), Alike(f, g, S \ {x})
  PROVE  /\ SumOf(g, S) = SumOf(f, S) + (g[x] - f[x])
         /\ SumOf(f, S) \in Int
<1> DEFINE R == S \ {x}
<1>1. IsFiniteSet(R) /\ Whole(f, R) BY FS_Subset DEF Whole
<1>2. SumOf(g, R) = SumOf(f, R)
  <2>1. Alike(f, g, R) OBVIOUS
  <2> HIDE DEF R
  <2> QED BY <1>1, <2>1, SumAlike
<1>3. SumOf(f, S) = f[x] + SumOf(f, R) /\ SumOf(f, R) \in Int BY SumRemove
<1>4. SumOf(g, S) = g[x] + SumOf(g, R) BY SumRemove
<1>5. f[x] \in Int /\ g[x] \in Int BY DEF Whole
<1> HIDE DEF R
<1> QED BY <1>2, <1>3, <1>4, <1>5

(* The sum over two parts with nothing in common.                          *)
LEMMA SumUnion ==
  ASSUME NEW S, IsFiniteSet(S), NEW R, IsFiniteSet(R), R \cap S = {},
         NEW f, Whole(f, R \cup S)
  PROVE  SumOf(f, R \cup S) = SumOf(f, R) + SumOf(f, S)
<1> DEFINE T == {s \in SUBSET S : SumOf(f, R \cup s) = SumOf(f, R) + SumOf(f, s)}
<1>0. IsFiniteSet(R \cup S) /\ Whole(f, R) /\ Whole(f, S) BY FS_Union DEF Whole
<1>a. SumOf(f, R) \in Int BY <1>0, SumType
<1>1. ASSUME NEW s \in SUBSET S, \A u \in SUBSET s : u # s => u \in T
      PROVE  s \in T
  <2> SUFFICES SumOf(f, R \cup s) = SumOf(f, R) + SumOf(f, s) OBVIOUS
  <2>1. CASE s = {}
    <3>1. R \cup s = R BY <2>1
    <3>2. SumOf(f, s) = 0 BY <2>1, SumEmpty
    <3>3. SumOf(f, R \cup s) = SumOf(f, R) BY <3>1
    <3> QED BY <1>a, <3>2, <3>3
  <2>2. CASE s # {}
    <3>1. PICK x \in s : TRUE BY <2>2
    <3>2. s \ {x} \in T BY <1>1, <3>1
    <3>3. SumOf(f, s) = f[x] + SumOf(f, s \ {x}) /\ SumOf(f, s \ {x}) \in Int
      <4>1. s \ {x} \in SUBSET S OBVIOUS
      <4> QED BY <1>0, <4>1, SumParts
    <3>4. SumOf(f, R \cup s) = f[x] + SumOf(f, (R \cup s) \ {x})
      <4>1. R \cup s \in SUBSET (R \cup S) /\ x \in R \cup s OBVIOUS
      <4> QED BY <1>0, <4>1, SumParts
    <3>5. (R \cup s) \ {x} = R \cup (s \ {x}) OBVIOUS
    <3>6. f[x] \in Int BY DEF Whole
    <3>7. SumOf(f, R \cup (s \ {x})) = SumOf(f, R) + SumOf(f, s \ {x}) BY <3>2
    <3>8. SumOf(f, R \cup s) = f[x] + (SumOf(f, R) + SumOf(f, s \ {x})) BY <3>4, <3>5, <3>7
    <3> QED BY <1>a, <3>3, <3>6, <3>8
  <2> QED BY <2>1, <2>2
<1>2. SUBSET S \subseteq T
  <2> HIDE DEF T
  <2> QED BY <1>1, SubsetInduction
<1> QED BY <1>2

(* Adding what is not negative never makes the sum smaller.                *)
LEMMA SumNat ==
  ASSUME NEW S, IsFiniteSet(S), NEW f, Natural(f, S)
  PROVE  SumOf(f, S) \in Nat
<1> DEFINE T == {s \in SUBSET S : SumOf(f, s) \in Nat}
<1>0. Whole(f, S) BY DEF Whole, Natural
<1>1. ASSUME NEW s \in SUBSET S, \A u \in SUBSET s : u # s => u \in T
      PROVE  s \in T
  <2>1. CASE s = {} BY <1>0, <2>1, SumParts
  <2>2. CASE s # {}
    <3>1. PICK x \in s : TRUE BY <2>2
    <3>2. SumOf(f, s \ {x}) \in Nat BY <1>1, <3>1
    <3>3. SumOf(f, s) = f[x] + SumOf(f, s \ {x}) BY <1>0, SumParts
    <3>4. f[x] \in Nat BY DEF Natural
    <3> QED BY <3>2, <3>3, <3>4
  <2> QED BY <2>1, <2>2
<1>2. SUBSET S \subseteq T
  <2> HIDE DEF T
  <2> QED BY <1>1, SubsetInduction
<1> QED BY <1>2

LEMMA SumMonotone ==
  ASSUME NEW S, IsFiniteSet(S), NEW R \in SUBSET S, NEW f, Natural(f, S)
  PROVE  SumOf(f, R) <= SumOf(f, S)
<1> DEFINE Q == S \ R
<1>1. IsFiniteSet(R) /\ IsFiniteSet(Q) /\ Natural(f, R) /\ Natural(f, Q)
  BY FS_Subset DEF Natural
<1>2. Q \cap R = {} /\ Q \cup R = S OBVIOUS
<1> HIDE DEF Q
<1>3. SumOf(f, R) \in Nat /\ SumOf(f, Q) \in Nat BY <1>1, SumNat
<1>4. SumOf(f, Q \cup R) = SumOf(f, Q) + SumOf(f, R)
  <2>1. Whole(f, Q \cup R) BY <1>2 DEF Natural, Whole
  <2> QED BY <1>1, <1>2, <2>1, SumUnion
<1>5. SumOf(f, S) = SumOf(f, Q) + SumOf(f, R) BY <1>2, <1>4
<1> QED BY <1>3, <1>5

(* Naughts add up to naught.                                               *)
LEMMA SumZero ==
  ASSUME NEW S, IsFiniteSet(S), NEW f, \A x \in S : f[x] = 0
  PROVE  SumOf(f, S) = 0
<1> DEFINE T == {s \in SUBSET S : SumOf(f, s) = 0}
<1>0. Whole(f, S) BY DEF Whole
<1>1. ASSUME NEW s \in SUBSET S, \A u \in SUBSET s : u # s => u \in T
      PROVE  s \in T
  <2>1. CASE s = {} BY <1>0, <2>1, SumParts
  <2>2. CASE s # {}
    <3>1. PICK x \in s : TRUE BY <2>2
    <3>2. SumOf(f, s \ {x}) = 0 BY <1>1, <3>1
    <3>3. SumOf(f, s) = f[x] + SumOf(f, s \ {x}) BY <1>0, SumParts
    <3>4. f[x] = 0 OBVIOUS
    <3> QED BY <3>2, <3>3, <3>4
  <2> QED BY <2>1, <2>2
<1>2. SUBSET S \subseteq T
  <2> HIDE DEF T
  <2> QED BY <1>1, SubsetInduction
<1> QED BY <1>2

(***************************************************************************)
(* Accounts A, and holds H on some of the amounts: an amount that goes     *)
(* from an account to a hold, or from a hold to an account, changes no     *)
(* total (Escrow).                                                         *)
(***************************************************************************)
LEMMA HoldTaken ==
  ASSUME NEW A, IsFiniteSet(A), NEW b, Whole(b, A), NEW c, Whole(c, A),
         NEW H, IsFiniteSet(H), NEW t, t \notin H, NEW amount, Whole(amount, H \cup {t}),
         NEW p \in A, c[p] = b[p] - amount[t], Alike(b, c, A \ {p})
  PROVE  SumOf(c, A) + SumOf(amount, H \cup {t}) = SumOf(b, A) + SumOf(amount, H)
<1>1. amount[t] \in Int /\ b[p] \in Int /\ Whole(amount, H) BY DEF Whole
<1>2. SumOf(amount, H) \in Int BY <1>1, SumType
<1>3. SumOf(amount, H \cup {t}) = amount[t] + SumOf(amount, H) BY SumAdd
<1>4. SumOf(c, A) = SumOf(b, A) + (c[p] - b[p]) /\ SumOf(b, A) \in Int BY SumChange
<1> QED BY <1>1, <1>2, <1>3, <1>4

LEMMA HoldEnded ==
  ASSUME NEW A, IsFiniteSet(A), NEW b, Whole(b, A), NEW c, Whole(c, A),
         NEW H, IsFiniteSet(H), NEW t \in H, NEW amount, Whole(amount, H),
         NEW p \in A, c[p] = b[p] + amount[t], Alike(b, c, A \ {p})
  PROVE  SumOf(c, A) + SumOf(amount, H \ {t}) = SumOf(b, A) + SumOf(amount, H)
<1>1. amount[t] \in Int /\ b[p] \in Int BY DEF Whole
<1>2. /\ SumOf(amount, H) = amount[t] + SumOf(amount, H \ {t})
      /\ SumOf(amount, H \ {t}) \in Int
  BY SumRemove
<1>3. SumOf(c, A) = SumOf(b, A) + (c[p] - b[p]) /\ SumOf(b, A) \in Int BY SumChange
<1> QED BY <1>1, <1>2, <1>3
=============================================================================
