------------------------- MODULE PeggyQuorumProofs --------------------------
(***************************************************************************)
(* What a quorum is, for validator sets of any length and any powers: the  *)
(* running sum of checkValidatorSignatures, which stops early and skips    *)
(* absent signatures, is at most the power of the validators that signed.  *)
(*                                                                         *)
(* Both sums are recursive.  The proofs by induction on them argue by the  *)
(* least number that is a counterexample (LeastNat).                       *)
(***************************************************************************)
EXTENDS PeggyProofs, FiniteSetTheorems

Less == OpToRel(<, Nat)

\* The order of the natural numbers is well founded.
LEMMA LessIsWellFounded == IsWellFoundedOn(Less, Nat)
BY NatLessThanWellFounded, Zenon DEF Less

\* Less is that order.
LEMMA LessContains == \A m, n \in Nat : m < n => <<m, n>> \in Less
BY DEF Less, OpToRel

\* Every set of natural numbers that is not empty has a least element.
LEMMA LeastNat ==
  ASSUME NEW T \in SUBSET Nat, T # {}
  PROVE  \E n \in T : \A m \in T : n <= m
<1>1. PICK n \in T : \A m \in T : ~(<<m, n>> \in Less)
  BY LessIsWellFounded, WFMin, Zenon
<1>2. \A m \in T : ~(m < n)
  BY <1>1, LessContains
<1> QED
  BY <1>2

-----------------------------------------------------------------------------
(* The running sum of the contract.                                        *)

\* f holds what the power loops hold after the positions 0..n.
RunningSum(powers, counted, f, n) ==
  f = [i \in 0..n |-> IF i = 0 THEN 0
                      ELSE IF f[i - 1] > PowerThreshold \/ ~counted[i]
                           THEN f[i - 1]
                           ELSE f[i - 1] + powers[i]]

\* There is such an f: one for n - 1 positions is extended by one more.
LEMMA RunningSumExists ==
  ASSUME NEW powers, NEW counted, NEW n \in Nat
  PROVE  \E f : RunningSum(powers, counted, f, n)
<1> DEFINE Missing == {k \in Nat : ~\E f : RunningSum(powers, counted, f, k)}
<1> SUFFICES ASSUME Missing # {} PROVE FALSE
  OBVIOUS
<1>1. PICK k \in Missing : \A m \in Missing : k <= m
  BY LeastNat
<1>2. RunningSum(powers, counted, [i \in 0..0 |-> 0], 0)
  BY DEF RunningSum
<1>3. k \in Nat \ {0} /\ k - 1 \in Nat /\ k - 1 \notin Missing
  BY <1>1, <1>2
<1>4. PICK f : RunningSum(powers, counted, f, k - 1)
  BY <1>3
<1> DEFINE last == IF f[k - 1] > PowerThreshold \/ ~counted[k]
                   THEN f[k - 1] ELSE f[k - 1] + powers[k]
           g == [i \in 0..k |-> IF i = k THEN last ELSE f[i]]
<1>5. RunningSum(powers, counted, g, k)
  <2>1. ASSUME NEW i \in 0..k
        PROVE  g[i] = IF i = 0 THEN 0
                      ELSE IF g[i - 1] > PowerThreshold \/ ~counted[i]
                           THEN g[i - 1]
                           ELSE g[i - 1] + powers[i]
    <3>1. CASE i = k
      BY <3>1, <1>3
    <3>2. CASE i # k
      BY <3>2, <1>3, <1>4 DEF RunningSum
    <3> QED
      BY <3>1, <3>2
  <2> HIDE DEF last
  <2> QED
    BY <2>1 DEF RunningSum
<1> QED
  BY <1>1, <1>5

\* cumulativePower satisfies its recursive definition.
LEMMA CumulativePower ==
  ASSUME NEW powers, Len(powers) \in Nat, NEW counted
  PROVE  RunningSum(powers, counted, cumulativePower(powers, counted), Len(powers))
<1>1. \E f : RunningSum(powers, counted, f, Len(powers))
  BY RunningSumExists
<1> QED
  BY <1>1 DEF cumulativePower, RunningSum

-----------------------------------------------------------------------------
(* The sum of a function over a finite set, which takes the elements in an *)
(* order that is not specified.                                            *)

Chosen(s) == CHOOSE x \in s : TRUE

\* g holds the sum of f over each subset of S.
Sums(f, S, g) ==
  g = [s \in SUBSET S |-> IF s = {} THEN 0 ELSE f[Chosen(s)] + g[s \ {Chosen(s)}]]

\* SumFunctionOnSet is such a sum, if there is one.
LEMMA SumIsSums ==
  ASSUME NEW f, NEW S, NEW g, Sums(f, S, g)
  PROVE  \E h : Sums(f, S, h) /\ SumFunctionOnSet(f, S) = h[S]
BY DEF Sums, Chosen, SumFunctionOnSet, FoldFunctionOnSet, MapThenFoldSet

\* What is chosen from a finite set that is not empty is one of its elements, and
\* without it the set is smaller.
LEMMA ChosenFromFinite ==
  ASSUME NEW S, IsFiniteSet(S), NEW s \in SUBSET S, s # {}
  PROVE  /\ Chosen(s) \in s
         /\ s \ {Chosen(s)} \in SUBSET S
         /\ Cardinality(s) \in Nat \ {0}
         /\ Cardinality(s \ {Chosen(s)}) = Cardinality(s) - 1
<1>1. Chosen(s) \in s
  BY DEF Chosen
<1>2. IsFiniteSet(s) /\ Cardinality(s) \in Nat
  BY FS_Subset, FS_CardinalityType
<1>3. Cardinality(s) # 0
  BY <1>2, FS_EmptySet
<1> QED
  BY <1>1, <1>2, <1>3, FS_RemoveElement

\* Every function has its sums over the subsets of a finite set: those of the
\* sets with at most k elements are extended to those with k + 1.
LEMMA SumsExist ==
  ASSUME NEW f, NEW S, IsFiniteSet(S)
  PROVE  \E g : Sums(f, S, g)
<1> DEFINE Body(g, s) == IF s = {} THEN 0 ELSE f[Chosen(s)] + g[s \ {Chosen(s)}]
           Upto(g, k) == /\ g = [s \in SUBSET S |-> g[s]]
                         /\ \A s \in SUBSET S : Cardinality(s) <= k => g[s] = Body(g, s)
           Missing == {k \in Nat : ~\E g : Upto(g, k)}
<1>1. \A s \in SUBSET S : Cardinality(s) \in Nat /\ Cardinality(s) <= Cardinality(S)
  BY FS_Subset, FS_CardinalityType
<1>2. \A s \in SUBSET S : s # {} =>
        /\ s \ {Chosen(s)} \in SUBSET S
        /\ Cardinality(s) \in Nat \ {0}
        /\ Cardinality(s \ {Chosen(s)}) = Cardinality(s) - 1
  BY ChosenFromFinite
<1>3. Missing = {}
  <2> SUFFICES ASSUME Missing # {} PROVE FALSE
    OBVIOUS
  <2>1. PICK k \in Missing : \A m \in Missing : k <= m
    BY LeastNat
  <2> DEFINE z == [s \in SUBSET S |-> 0]
  <2>2. Upto(z, 0)
    <3>1. ASSUME NEW s \in SUBSET S, Cardinality(s) <= 0 PROVE z[s] = Body(z, s)
      <4>1. s # {} => Cardinality(s) \in Nat \ {0}
        BY <1>2
      <4>2. s = {}
        BY <3>1, <4>1
      <4> QED
        BY <4>2
    <3>2. z = [s \in SUBSET S |-> z[s]]
      OBVIOUS
    <3> HIDE DEF z
    <3> QED
      BY <3>1, <3>2
  <2> HIDE DEF z
  <2>3. k - 1 \in Nat /\ k - 1 \notin Missing
    <3>1. 0 \notin Missing
      BY <2>2
    <3> HIDE DEF Missing
    <3>2. k \in Nat
      BY DEF Missing
    <3> QED
      BY <2>1, <3>1, <3>2
  <2>4. PICK g : Upto(g, k - 1)
    BY <2>3
  <2> DEFINE h == [s \in SUBSET S |-> IF Cardinality(s) <= k - 1 THEN g[s] ELSE Body(g, s)]
  <2>5. ASSUME NEW s \in SUBSET S, Cardinality(s) <= k PROVE h[s] = Body(h, s)
    <3>1. h[s] = Body(g, s)
      BY <2>4
    <3>2. s # {} => h[s \ {Chosen(s)}] = g[s \ {Chosen(s)}]
      BY <1>2, <2>3, <2>5
    <3> HIDE DEF h
    <3> QED
      BY <3>1, <3>2
  <2>6. h = [s \in SUBSET S |-> h[s]]
    OBVIOUS
  <2> HIDE DEF h
  <2>7. Upto(h, k)
    BY <2>5, <2>6
  <2> QED
    BY <2>1, <2>7
<1>4. PICK g : Upto(g, Cardinality(S))
  BY <1>1, <1>3
<1>5. \A s \in SUBSET S : g[s] = Body(g, s)
  BY <1>1, <1>4
<1> QED
  BY <1>4, <1>5 DEF Sums

\* A sum is a natural number and does not depend on what else the set is part of.
LEMMA SumsAgree ==
  ASSUME NEW S, IsFiniteSet(S), NEW T \in SUBSET S, NEW f, \A x \in S : f[x] \in Nat,
         NEW g, Sums(f, S, g), NEW h, Sums(f, T, h)
  PROVE  \A s \in SUBSET T : g[s] = h[s] /\ g[s] \in Nat
<1> DEFINE Wrong(k) == \E s \in SUBSET T : Cardinality(s) = k /\ ~(g[s] = h[s] /\ g[s] \in Nat)
           W == {k \in Nat : Wrong(k)}
<1>1. \A s \in SUBSET T : Cardinality(s) \in Nat
  BY FS_Subset, FS_CardinalityType
<1> SUFFICES ASSUME W # {} PROVE FALSE
  BY <1>1
<1>2. PICK k \in W : \A m \in W : k <= m
  BY LeastNat
<1>3. PICK s \in SUBSET T : Cardinality(s) = k /\ ~(g[s] = h[s] /\ g[s] \in Nat)
  BY <1>2
<1>4. s # {}
  BY <1>3 DEF Sums
<1> DEFINE x == Chosen(s)
<1>5. /\ x \in s /\ s \in SUBSET S
      /\ Cardinality(s) \in Nat \ {0}
      /\ Cardinality(s \ {x}) = Cardinality(s) - 1
  BY <1>4, ChosenFromFinite
<1> HIDE DEF x
<1>6. k - 1 \notin W /\ k - 1 \in Nat /\ s \ {x} \in SUBSET T
  BY <1>2, <1>3, <1>5
<1>7. g[s \ {x}] = h[s \ {x}] /\ g[s \ {x}] \in Nat
  BY <1>3, <1>5, <1>6
<1>8. g[s] = f[x] + g[s \ {x}] /\ h[s] = f[x] + h[s \ {x}]
  BY <1>4, <1>5 DEF Sums, x
<1> QED
  BY <1>3, <1>5, <1>7, <1>8

\* The sum over no position is 0.
LEMMA SumOverNothing ==
  ASSUME NEW f
  PROVE  SumFunctionOnSet(f, {}) = 0
<1>1. PICK g : Sums(f, {}, g)
  BY SumsExist, FS_EmptySet
<1>2. PICK h : Sums(f, {}, h) /\ SumFunctionOnSet(f, {}) = h[{}]
  BY <1>1, SumIsSums
<1> QED
  BY <1>2 DEF Sums

\* The sum over a finite set is a natural number: the value at the element that
\* is chosen first and the sum over the others.
LEMMA SumTakesChosen ==
  ASSUME NEW S, IsFiniteSet(S), NEW f, \A x \in S : f[x] \in Nat
  PROVE  /\ SumFunctionOnSet(f, S) \in Nat
         /\ S # {} => SumFunctionOnSet(f, S)
                        = f[Chosen(S)] + SumFunctionOnSet(f, S \ {Chosen(S)})
<1> DEFINE T == S \ {Chosen(S)}
<1>1. IsFiniteSet(T) /\ T \in SUBSET S
  BY FS_Subset
<1>2. PICK g : Sums(f, S, g) /\ SumFunctionOnSet(f, S) = g[S]
  BY SumsExist, SumIsSums
<1>3. PICK h : Sums(f, T, h) /\ SumFunctionOnSet(f, T) = h[T]
  BY <1>1, SumsExist, SumIsSums
<1>4. g[S] \in Nat
  BY <1>2, SumsAgree
<1> HIDE DEF T
<1>5. g[T] = h[T]
  <2>1. \A s \in SUBSET T : g[s] = h[s] /\ g[s] \in Nat
    BY <1>1, <1>2, <1>3, SumsAgree
  <2> QED
    BY <2>1
<1>6. S # {} => g[S] = f[Chosen(S)] + g[T]
  BY <1>2 DEF Sums, T
<1> QED
  BY <1>2, <1>3, <1>4, <1>5, <1>6 DEF T

\* Any element may be taken out of the sum first.
LEMMA SumTakesAny ==
  ASSUME NEW S, IsFiniteSet(S), NEW f, \A x \in S : f[x] \in Nat, NEW x \in S
  PROVE  SumFunctionOnSet(f, S) = f[x] + SumFunctionOnSet(f, S \ {x})
<1> DEFINE Sum(s) == SumFunctionOnSet(f, s)
           Holds(s) == \A y \in s : Sum(s) = f[y] + Sum(s \ {y})
           Wrong(k) == \E s \in SUBSET S : Cardinality(s) = k /\ ~Holds(s)
           W == {k \in Nat : Wrong(k)}
<1>1. \A s \in SUBSET S : IsFiniteSet(s) /\ Cardinality(s) \in Nat
  BY FS_Subset, FS_CardinalityType
<1>2. \A s \in SUBSET S : /\ Sum(s) \in Nat
                          /\ s # {} => Sum(s) = f[Chosen(s)] + Sum(s \ {Chosen(s)})
  BY <1>1, SumTakesChosen
<1>3. W = {}
  <2> SUFFICES ASSUME W # {} PROVE FALSE
    OBVIOUS
  <2>1. PICK k \in W : \A m \in W : k <= m
    BY LeastNat
  <2>2. PICK s \in SUBSET S : Cardinality(s) = k /\ ~Holds(s)
    BY <2>1
  <2>3. PICK y \in s : Sum(s) # f[y] + Sum(s \ {y})
    BY <2>2
  <2> DEFINE c == Chosen(s)
  <2>4. c \in s /\ Sum(s) = f[c] + Sum(s \ {c})
    BY <1>2, <2>3, ChosenFromFinite
  <2> HIDE DEF c, Sum
  <2>5. c # y
    BY <2>3, <2>4
  <2>6. ASSUME NEW z \in s PROVE Holds(s \ {z})
    <3>1. s \ {z} \in SUBSET S /\ Cardinality(s \ {z}) = k - 1 /\ k \in Nat
      BY <1>1, <2>2, FS_RemoveElement
    <3>2. Cardinality(s \ {z}) \in Nat
      BY <1>1, <3>1
    <3>3. Cardinality(s \ {z}) \notin W
      <4> HIDE DEF W
      <4> QED
        BY <2>1, <3>1, <3>2
    <3> HIDE DEF Holds
    <3> QED
      BY <3>1, <3>2, <3>3
  <2>7. (s \ {c}) \ {y} = (s \ {y}) \ {c} /\ y \in s \ {c} /\ c \in s \ {y}
    BY <2>4, <2>5
  <2>8. Sum(s \ {c}) = f[y] + Sum((s \ {c}) \ {y})
    BY <2>4, <2>6, <2>7
  <2>9. Sum(s \ {y}) = f[c] + Sum((s \ {y}) \ {c})
    BY <2>6, <2>7
  <2>10. /\ Sum((s \ {y}) \ {c}) \in Nat /\ Sum(s \ {y}) \in Nat
         /\ f[c] \in Nat /\ f[y] \in Nat
    <3>1. (s \ {y}) \ {c} \in SUBSET S /\ s \ {y} \in SUBSET S
      OBVIOUS
    <3> QED
      BY <1>2, <2>4, <3>1
  <2> DEFINE rest == Sum((s \ {y}) \ {c})
             fy == f[y]
             fc == f[c]
  <2>11. Sum(s) = fc + (fy + rest) /\ Sum(s \ {y}) = fc + rest
    BY <2>4, <2>7, <2>8, <2>9
  <2>12. rest \in Nat /\ fc \in Nat /\ fy \in Nat /\ Sum(s) # fy + Sum(s \ {y})
    BY <2>3, <2>10
  <2> HIDE DEF rest, fy, fc
  <2> QED
    BY <2>11, <2>12
<1>4. Cardinality(S) \notin W /\ Cardinality(S) \in Nat
  BY <1>1, <1>3
<1>5. Holds(S)
  <2> HIDE DEF Holds
  <2> QED
    BY <1>4
<1> QED
  BY <1>5

-----------------------------------------------------------------------------
(* The running sum and the sum.                                            *)

\* A validator set has finitely many positions.
LEMMA PositionsFinite ==
  ASSUME NEW n \in Nat, NEW S \in SUBSET (1..n)
  PROVE  IsFiniteSet(S)
<1>1. IsFiniteSet(1..n)
  BY FS_Interval
<1> QED
  BY <1>1, FS_Subset

\* What the loops hold after one more position.
LEMMA RunningSumAt ==
  ASSUME NEW powers, NEW counted, NEW f, NEW n \in Nat, RunningSum(powers, counted, f, n)
  PROVE  /\ f[0] = 0
         /\ \A i \in 1..n : f[i] = IF f[i - 1] > PowerThreshold \/ ~counted[i]
                                   THEN f[i - 1] ELSE f[i - 1] + powers[i]
<1> DEFINE Body(i) == IF i = 0 THEN 0
                      ELSE IF f[i - 1] > PowerThreshold \/ ~counted[i]
                           THEN f[i - 1]
                           ELSE f[i - 1] + powers[i]
<1>1. f = [i \in 0..n |-> Body(i)]
  BY DEF RunningSum
<1> HIDE DEF Body
<1>2. \A i \in 0..n : f[i] = Body(i)
  BY <1>1
<1>3. f[0] = Body(0) /\ \A i \in 1..n : f[i] = Body(i)
  BY <1>2
<1>4. \A i \in 1..n : i # 0
  OBVIOUS
<1> QED
  BY <1>3, <1>4 DEF Body

\* The power loops count no position twice and none that is not to be counted:
\* what they hold at the end is at most the power of the positions they added.
LEMMA RunningSumBelowSum ==
  ASSUME NEW powers \in Seq(Nat), NEW counted, NEW f,
         RunningSum(powers, counted, f, Len(powers)),
         NEW S \in SUBSET (1..Len(powers)),
         \A i \in 1..Len(powers) : counted[i] /\ f[i - 1] <= PowerThreshold => i \in S
  PROVE  f[Len(powers)] \in Nat /\ f[Len(powers)] <= SumFunctionOnSet(powers, S)
<1> DEFINE n == Len(powers)
           Low(i) == S \cap (1..i)
           Sum(s) == SumFunctionOnSet(powers, s)
           Holds(i) == f[i] \in Nat /\ f[i] <= Sum(Low(i))
           W == {i \in 0..n : ~Holds(i)}
<1>1. n \in Nat
  OBVIOUS
<1>2. \A s \in SUBSET S : /\ IsFiniteSet(s)
                          /\ \A x \in s : powers[x] \in Nat
                          /\ Sum(s) \in Nat
  <2> TAKE s \in SUBSET S
  <2>1. s \in SUBSET (1..n)
    OBVIOUS
  <2>2. IsFiniteSet(s)
    BY <1>1, <2>1, PositionsFinite
  <2>3. \A x \in s : powers[x] \in Nat
    BY <2>1
  <2> QED
    BY <2>2, <2>3, SumTakesChosen
<1>3. W = {}
  <2> SUFFICES ASSUME W # {} PROVE FALSE
    OBVIOUS
  <2>1. PICK k \in W : \A m \in W : k <= m
    <3>1. W \in SUBSET Nat
      BY <1>1
    <3> HIDE DEF W
    <3> QED
      BY <3>1, LeastNat
  <2>2. k # 0
    <3>1. Low(0) = {} /\ f[0] = 0
      BY <1>1, RunningSumAt
    <3>2. Holds(0)
      BY <3>1, SumOverNothing
    <3> HIDE DEF Holds
    <3> QED
      BY <2>1, <3>2
  <2>3. k \in 1..n /\ k - 1 \in 0..n /\ Holds(k - 1) /\ ~Holds(k)
    <3> HIDE DEF Holds
    <3> QED
      BY <1>1, <2>1, <2>2
  <2>4. f[k] = IF f[k - 1] > PowerThreshold \/ ~counted[k]
               THEN f[k - 1] ELSE f[k - 1] + powers[k]
    BY <1>1, <2>3, RunningSumAt
  <2>5. Low(k) \in SUBSET S /\ Low(k - 1) \in SUBSET S
    OBVIOUS
  <2>6. powers[k] \in Nat /\ Sum(Low(k)) \in Nat /\ Sum(Low(k - 1)) \in Nat
    BY <1>2, <2>3, <2>5
  <2>7. CASE k \in S
    <3>1. k \in Low(k) /\ Low(k) \ {k} = Low(k - 1)
      BY <1>1, <2>3, <2>7
    <3>2. Sum(Low(k)) = powers[k] + Sum(Low(k) \ {k})
      <4> HIDE DEF Low
      <4> QED
        BY <1>2, <2>5, <3>1, SumTakesAny
    <3>3. f[k] = f[k - 1] \/ f[k] = f[k - 1] + powers[k]
      BY <2>4
    <3> DEFINE rest == Sum(Low(k - 1))
    <3>4. Sum(Low(k)) = powers[k] + rest /\ rest \in Nat /\ f[k - 1] \in Nat /\ f[k - 1] <= rest
      BY <2>3, <2>6, <3>1, <3>2
    <3> HIDE DEF Low, Sum, rest
    <3>5. f[k] \in Nat /\ f[k] <= powers[k] + rest
      BY <2>6, <3>3, <3>4
    <3> QED
      BY <2>3, <3>4, <3>5
  <2>8. CASE k \notin S
    <3>1. Low(k) = Low(k - 1)
      BY <1>1, <2>3, <2>8
    <3>2. f[k] = f[k - 1]
      BY <2>3, <2>4, <2>8, BoundAssumption
    <3> HIDE DEF Low, Sum
    <3> QED
      BY <2>3, <3>1, <3>2
  <2> QED
    BY <2>7, <2>8
<1>4. Low(n) = S
  BY <1>1
<1>5. Holds(n)
  <2> HIDE DEF Holds
  <2> QED
    BY <1>1, <1>3
<1> QED
  BY <1>4, <1>5

\* A validator set that _validateValidatorSet accepts has, all its members
\* together, more power than the threshold.
LEMMA ValidSetCanVote ==
  ASSUME NEW valset \in Valset, validateValidatorSet(valset)
  PROVE  PowerOf(valset, Validator) > PowerThreshold
<1> DEFINE powers == valset.powers
           counted == [i \in DOMAIN powers |-> TRUE]
           f == cumulativePower(powers, counted)
           S == {i \in DOMAIN valset.members : valset.members[i] \in Validator}
<1>1. /\ valset.members \in Seq(Validator) /\ powers \in Seq(Nat)
      /\ Len(valset.members) = Len(powers) /\ Len(powers) \in Nat
      /\ f[Len(powers)] > PowerThreshold
  BY ValsetAssumption DEF validateValidatorSet
<1>2. RunningSum(powers, counted, f, Len(powers))
  BY <1>1, CumulativePower
<1>3. S \in SUBSET (1..Len(powers)) /\ \A i \in 1..Len(powers) : i \in S
  BY <1>1
<1> HIDE DEF powers, counted, f, S
<1>4. f[Len(powers)] \in Nat /\ f[Len(powers)] <= SumFunctionOnSet(powers, S)
  BY <1>1, <1>2, <1>3, RunningSumBelowSum
<1>5. SumFunctionOnSet(powers, S) \in Nat
  <2>1. IsFiniteSet(S)
    BY <1>1, <1>3, PositionsFinite
  <2>2. \A x \in S : powers[x] \in Nat
    BY <1>1, <1>3
  <2> QED
    BY <2>1, <2>2, SumTakesChosen
<1>6. SumFunctionOnSet(powers, S) > PowerThreshold
  BY <1>1, <1>4, <1>5, BoundAssumption
<1> QED
  BY <1>6 DEF PowerOf, powers, S

\* When checkValidatorSignatures accepts, the members of the validator set that
\* signed have, each position counted once, more power than the threshold, and
\* so has every set they belong to.
LEMMA AcceptedIsSignedByQuorum ==
  ASSUME NEW valset \in Valset, NEW hash, NEW sigs \in SigArrays(valset, hash),
         wellFormed(valset, sigs), checkValidatorSignatures(valset, sigs, hash),
         NEW signers, Signers(sigs) \subseteq signers
  PROVE  PowerOf(valset, signers) > PowerThreshold
<1> DEFINE powers == valset.powers
           present == [i \in DOMAIN sigs |-> sigs[i] # NoSig]
           f == cumulativePower(powers, present)
           S == {i \in DOMAIN valset.members : valset.members[i] \in signers}
<1>1. /\ valset.members \in Seq(Validator) /\ powers \in Seq(Nat)
      /\ Len(valset.members) = Len(powers) /\ Len(powers) \in Nat
      /\ DOMAIN sigs = 1..Len(powers) /\ Len(sigs) = Len(powers)
  BY ValsetAssumption DEF wellFormed, SigArrays
<1>2. RunningSum(powers, present, f, Len(powers))
  BY <1>1, CumulativePower
<1>3. /\ \A i \in DOMAIN sigs : present[i] /\ f[i - 1] <= PowerThreshold
                                  => verifySig(valset.members[i], hash, sigs[i])
      /\ f[Len(powers)] > PowerThreshold
  BY <1>1 DEF checkValidatorSignatures
<1>4. \A i \in DOMAIN sigs : present[i] <=> sigs[i] # NoSig
  OBVIOUS
<1> HIDE DEF f, present
<1>5. ASSUME NEW i \in 1..Len(powers), present[i], f[i - 1] <= PowerThreshold
      PROVE  i \in S
  <2>1. i \in DOMAIN sigs /\ sigs[i] = <<valset.members[i], hash>> /\ sigs[i] # NoSig
    BY <1>1, <1>3, <1>4, <1>5 DEF verifySig
  <2>2. sigs[i][1] \in Signers(sigs)
    BY <2>1 DEF Signers
  <2>3. sigs[i][1] = valset.members[i]
    BY <2>1
  <2> QED
    BY <1>1, <2>2, <2>3
<1>6. S \in SUBSET (1..Len(powers))
  BY <1>1
<1> HIDE DEF powers, S
<1>7. f[Len(powers)] \in Nat /\ f[Len(powers)] <= SumFunctionOnSet(powers, S)
  BY <1>1, <1>2, <1>5, <1>6, RunningSumBelowSum
<1>8. SumFunctionOnSet(powers, S) \in Nat
  <2>1. IsFiniteSet(S)
    BY <1>1, <1>6, PositionsFinite
  <2>2. \A x \in S : powers[x] \in Nat
    BY <1>1, <1>6
  <2> QED
    BY <2>1, <2>2, SumTakesChosen
<1>9. SumFunctionOnSet(powers, S) > PowerThreshold
  BY <1>3, <1>7, <1>8, BoundAssumption
<1> QED
  BY <1>9 DEF PowerOf, powers, S

-----------------------------------------------------------------------------
(* The theorems.                                                           *)

\* The set whose checkpoint is stored has passed _validateValidatorSet, in
\* initialize or in updateValset.
InstalledValsetIsValid ==
  \A valset \in Valset :
    makeCheckpoint(valset) = state_lastValsetCheckpoint => validateValidatorSet(valset)

\* That is an invariant: only updateValset stores a checkpoint, that of a set it
\* validated, and a checkpoint is that of one set only.
LEMMA InstalledValid == Spec => []InstalledValsetIsValid
<1>1. ASSUME NEW a, NEW b, makeCheckpoint(a) = makeCheckpoint(b) PROVE a = b
  BY <1>1 DEF makeCheckpoint
<1>2. Init => InstalledValsetIsValid
  BY <1>1 DEF Init, InstalledValsetIsValid
<1>3. InstalledValsetIsValid /\ [Next]_vars => InstalledValsetIsValid'
  <2> SUFFICES ASSUME InstalledValsetIsValid, [Next]_vars PROVE InstalledValsetIsValid'
    OBVIOUS
  <2>1. ASSUME state_lastValsetCheckpoint' = state_lastValsetCheckpoint
        PROVE  InstalledValsetIsValid'
    BY <2>1 DEF InstalledValsetIsValid
  <2>2. ASSUME NEW newValset, NEW currentValset, NEW sigs,
               updateValset(newValset, currentValset, sigs)
        PROVE  InstalledValsetIsValid'
    <3>1. /\ validateValidatorSet(newValset)
          /\ state_lastValsetCheckpoint' = makeCheckpoint(newValset)
      BY <2>2 DEF updateValset, updateValsetRequires
    <3> QED
      BY <1>1, <3>1 DEF InstalledValsetIsValid
  <2>3. \/ \E a, b, c : updateValset(a, b, c)
        \/ state_lastValsetCheckpoint' = state_lastValsetCheckpoint
    <3>1. Administer \/ NextBlock \/ UNCHANGED vars
            => state_lastValsetCheckpoint' = state_lastValsetCheckpoint
      BY AdministerFrame, NextBlockFrame, StutterFrame
    <3>2. ASSUME NEW a, NEW b, NEW c,
                 \/ submitBatch(a, b, c) \/ sendToInjective(a, b, c)
                 \/ deployERC20(a) \/ ReceiveTokens(a, b)
          PROVE  state_lastValsetCheckpoint' = state_lastValsetCheckpoint
      BY <3>2 DEF submitBatch, sendToInjective, deployERC20, ReceiveTokens, valsetVars
    <3> QED
      BY <3>1, <3>2, Zenon DEF Next, Administer
  <2> QED
    BY <2>1, <2>2, <2>3
<1> QED
  BY <1>2, <1>3, PTL DEF Spec

\* The installed validator set can approve something: its members together
\* exceed the threshold, however many they are (InstalledValsetCanVote).
THEOREM InstalledSetCanVote == Spec => []InstalledValsetCanVote
<1>1. InstalledValsetIsValid => InstalledValsetCanVote
  BY ValidSetCanVote DEF InstalledValsetIsValid, InstalledValsetCanVote
<1> QED
  BY <1>1, InstalledValid, PTL

\* Every change of the validator set or of a batch nonce, every payment and
\* every mint was signed by a quorum of the installed set (ApprovedByQuorum).
THEOREM QuorumApproves == Spec => ApprovedByQuorum
<1> DEFINE Spent == \/ state_lastValsetCheckpoint' # state_lastValsetCheckpoint
                    \/ state_lastBatchNonces' # state_lastBatchNonces
                    \/ \E t \in Token : balance'[t] < balance[t]
                    \/ \E t \in CosmosERC20 : supply'[t] > supply[t]
           Approved == /\ makeCheckpoint(lastApproval'.valset) = state_lastValsetCheckpoint
                       /\ PowerOf(lastApproval'.valset, lastApproval'.signers) > PowerThreshold
<1>1. TypeOK /\ [Next]_vars => [Spent => Approved]_vars
  <2> SUFFICES ASSUME TypeOK, [Next]_vars PROVE ~Spent \/ Approved
    OBVIOUS
  <2>1. ASSUME UNCHANGED <<state_lastValsetCheckpoint, state_lastBatchNonces, balance, supply>>
        PROVE  ~Spent
    <3>1. \A t \in Token : balance[t] \in Nat
      BY FundsType
    <3>2. \A t \in CosmosERC20 : supply[t] \in Nat
      BY FundsType
    <3> QED
      BY <2>1, <3>1, <3>2
  <2>2. ASSUME NEW newValset \in Valset, NEW currentValset \in Valset,
               NEW sigs \in SigArrays(currentValset, makeCheckpoint(newValset)),
               updateValset(newValset, currentValset, sigs)
        PROVE  Approved
    BY <2>2, AcceptedIsSignedByQuorum DEF updateValset, updateValsetRequires
  <2>3. ASSUME NEW currentValset \in Valset, NEW batch \in Batch,
               NEW sigs \in SigArrays(currentValset, batchHash(batch)),
               submitBatch(currentValset, sigs, batch)
        PROVE  Approved
    BY <2>3, AcceptedIsSignedByQuorum DEF submitBatch, submitBatchRequires
  <2>4. ASSUME NEW t \in Token, NEW amount \in Amount, NEW received \in Amount,
               sendToInjective(t, amount, received)
        PROVE  ~Spent
    <3>1. /\ balance' = balance \/ balance' = Add(balance, t, received)
          /\ \/ supply' = supply
             \/ /\ t \in isInjectiveNativeToken /\ amount <= supply[t] - balance[t]
                /\ supply' = Sub(supply, t, amount)
          /\ UNCHANGED <<state_lastValsetCheckpoint, state_lastBatchNonces>>
      BY <2>4 DEF sendToInjective, valsetVars
    <3>2. amount \in Nat /\ received \in Nat
      BY TokenAssumption
    <3>3. \A u \in Token : balance[u] \in Nat /\ balance'[u] >= balance[u]
      BY <3>1, <3>2, FundsType DEF Add
    <3>4. \A u \in CosmosERC20 : supply[u] \in Nat /\ supply'[u] <= supply[u]
      <4>1. CASE supply' = supply
        BY <4>1, FundsType
      <4>2. CASE /\ t \in isInjectiveNativeToken /\ amount <= supply[t] - balance[t]
                 /\ supply' = Sub(supply, t, amount)
        <5>1. t \in CosmosERC20 /\ supply[t] \in Nat /\ balance[t] \in Nat
          BY <4>2, TokenType
        <5>2. \A u \in CosmosERC20 : supply'[u] = IF u = t THEN supply[t] - amount ELSE supply[u]
          BY <4>2, FundsType DEF Sub
        <5> QED
          BY <3>2, <5>1, <5>2, FundsType
      <4> QED
        BY <3>1, <4>1, <4>2
    <3>5. \A u \in Token : balance'[u] \in Nat
      <4>1. TypeOK'
        BY <2>4, SendToInjectiveType
      <4> QED
        BY <4>1 DEF TypeOK
    <3>6. \A u \in CosmosERC20 : supply'[u] \in Nat
      <4>1. TypeOK'
        BY <2>4, SendToInjectiveType
      <4> QED
        BY <4>1 DEF TypeOK
    <3> QED
      BY <3>1, <3>3, <3>4, <3>5, <3>6
  <2>5. ASSUME NEW t \in Token, NEW amount \in Amount, ReceiveTokens(t, amount)
        PROVE  ~Spent
    <3>1. \A u \in Token : balance'[u] = IF u = t THEN balance[u] + amount ELSE balance[u]
      BY <2>5, FundsType DEF ReceiveTokens, Add
    <3>2. \A u \in Token : balance[u] \in Nat /\ balance'[u] \in Nat /\ balance'[u] >= balance[u]
      BY <3>1, TokenAssumption, FundsType
    <3>3. UNCHANGED <<state_lastValsetCheckpoint, state_lastBatchNonces, supply>>
      BY <2>5 DEF ReceiveTokens, valsetVars
    <3>4. \A u \in CosmosERC20 : supply[u] \in Nat
      BY FundsType
    <3> QED
      BY <3>2, <3>3, <3>4
  <2>6. ASSUME NEW t \in CosmosERC20, deployERC20(t) PROVE ~Spent
    BY <2>1, <2>6 DEF deployERC20, fundVars, valsetVars
  <2>7. Administer \/ NextBlock \/ UNCHANGED vars => ~Spent
    BY <2>1, AdministerFrame, NextBlockFrame, StutterFrame
  <2> HIDE DEF Spent, Approved
  <2> QED
    BY <2>2, <2>3, <2>4, <2>5, <2>6, <2>7, Zenon DEF Next, Administer
<1> QED
  BY <1>1, TypeCorrect, PTL DEF Spec, ApprovedByQuorum

=============================================================================
