------------------------------ MODULE SumLemmas ------------------------------
(***************************************************************************)
(* Lemmas about the sum of a function over a finite set, as Functions and  *)
(* FiniteSetsExt define it: a recursion that takes the elements out in an  *)
(* arbitrary order.  Balances and request counts are summed this way.      *)
(* Each induction is written as a smallest counterexample among subsets.   *)
(***************************************************************************)
EXTENDS Integers, FiniteSets, Functions, FiniteSetTheorems, WellFoundedInduction,
        TLAPS

SumOver(f, S) == FoldFunctionOnSet(+, 0, f, S)

(* Among the subsets of a finite set in a family, one has no other below it. *)
LEMMA SmallestSubset ==
  ASSUME NEW S, IsFiniteSet(S), NEW F, F \subseteq SUBSET S, F # {}
  PROVE  \E T \in F : \A U \in F : U \subseteq T => U = T
<1>1. IsWellFoundedOn(StrictSubsetOrdering(S), SUBSET S)
  BY FS_StrictSubsetOrderingWellFounded, FS_FiniteSubsetsOfFinite
<1>2. PICK T \in F : \A U \in F : <<U, T>> \notin StrictSubsetOrdering(S)
  BY <1>1, WFMin
<1>3. ASSUME NEW U \in F, U \subseteq T, U # T PROVE FALSE
  <2>1. <<U, T>> \in (SUBSET S) \X (SUBSET S)
    OBVIOUS
  <2>2. QED
    BY <1>2, <1>3, <2>1 DEF StrictSubsetOrdering
<1>4. QED
  BY <1>2, <1>3

-----------------------------------------------------------------------------
(* The recursion has a solution, and one only. *)
Pick(s) == CHOOSE x \in s : TRUE

Sums(f, g, T) ==
  g = [s \in SUBSET T |-> IF s = {} THEN 0 ELSE f[Pick(s)] + g[s \ {Pick(s)}]]

Solution(f, T) == CHOOSE g : Sums(f, g, T)

LEMMA PickIn == ASSUME NEW s, s # {} PROVE Pick(s) \in s
BY DEF Pick

LEMMA SumsAgree ==
  ASSUME NEW f, NEW S, IsFiniteSet(S), NEW T \in SUBSET S, NEW U \in SUBSET S,
         NEW g, NEW h, Sums(f, g, T), Sums(f, h, U)
  PROVE  \A s \in SUBSET S : s \subseteq T /\ s \subseteq U => g[s] = h[s]
<1> DEFINE F == {s \in SUBSET S : s \subseteq T /\ s \subseteq U /\ g[s] # h[s]}
<1>1. SUFFICES ASSUME F # {} PROVE FALSE
  OBVIOUS
<1>2. PICK s \in F : \A u \in F : u \subseteq s => u = s
  <2>1. F \subseteq SUBSET S
    OBVIOUS
  <2> HIDE DEF F
  <2>2. QED
    BY <1>1, <2>1, SmallestSubset
<1>3. /\ g[s] = IF s = {} THEN 0 ELSE f[Pick(s)] + g[s \ {Pick(s)}]
      /\ h[s] = IF s = {} THEN 0 ELSE f[Pick(s)] + h[s \ {Pick(s)}]
  BY <1>2 DEF Sums
<1>4. s # {}
  BY <1>2, <1>3
<1>5. Pick(s) \in s
  BY <1>4, PickIn
<1>6. s \ {Pick(s)} \notin F
  BY <1>2, <1>5
<1>7. QED
  BY <1>2, <1>3, <1>4, <1>6

LEMMA SumsExist ==
  ASSUME NEW f, NEW S, IsFiniteSet(S)
  PROVE  \A T \in SUBSET S : Sums(f, Solution(f, T), T)
<1> DEFINE F == {T \in SUBSET S : ~ \E g : Sums(f, g, T)}
<1>1. SUFFICES ASSUME F # {} PROVE FALSE
  BY DEF Solution
<1>2. PICK T \in F : \A U \in F : U \subseteq T => U = T
  <2>1. F \subseteq SUBSET S
    OBVIOUS
  <2> HIDE DEF F
  <2>2. QED
    BY <1>1, <2>1, SmallestSubset
<1>3. \A U \in SUBSET T : U # T => Sums(f, Solution(f, U), U)
  <2>1. \A U \in SUBSET T : U # T => \E g : Sums(f, g, U)
    BY <1>2
  <2>2. QED
    BY <2>1 DEF Solution
<1> DEFINE at(s) == Solution(f, s)[s]
           g == [s \in SUBSET T |->
                   IF s = {} THEN 0 ELSE f[Pick(s)] + at(s \ {Pick(s)})]
<1>4. ASSUME NEW s \in SUBSET T, s # T
      PROVE  at(s) = IF s = {} THEN 0 ELSE f[Pick(s)] + at(s \ {Pick(s)})
  <2>1. Sums(f, Solution(f, s), s)
    BY <1>3, <1>4
  <2>2. at(s) = IF s = {} THEN 0 ELSE f[Pick(s)] + Solution(f, s)[s \ {Pick(s)}]
    <3>1. s \in SUBSET s
      OBVIOUS
    <3>2. QED
      BY <2>1, <3>1 DEF Sums
  <2>3. CASE s = {}
    BY <2>2, <2>3
  <2>4. CASE s # {}
    <3>1. Pick(s) \in s
      BY <2>4, PickIn
    <3> DEFINE r == s \ {Pick(s)}
    <3>2. r \in SUBSET T /\ r # T /\ r \subseteq s
      BY <3>1, <1>4
    <3>3. Sums(f, Solution(f, r), r)
      BY <1>3, <3>2
    <3>4. s \in SUBSET S /\ r \in SUBSET S
      BY <1>2, <3>2
    <3> HIDE DEF r
    <3>5. Solution(f, s)[r] = Solution(f, r)[r]
      BY <2>1, <3>2, <3>3, <3>4, SumsAgree
    <3>6. QED
      BY <2>2, <2>4, <3>5 DEF r
  <2>5. QED
    BY <2>3, <2>4
<1>5. Sums(f, g, T)
  <2>1. ASSUME NEW s \in SUBSET T
        PROVE  g[s] = IF s = {} THEN 0 ELSE f[Pick(s)] + g[s \ {Pick(s)}]
    <3>1. CASE s = {}
      BY <3>1
    <3>2. CASE s # {}
      <4>1. Pick(s) \in s
        BY <3>2, PickIn
      <4> DEFINE r == s \ {Pick(s)}
      <4>2. r \in SUBSET T /\ r # T
        BY <4>1
      <4>3. g[r] = at(r)
        <5> HIDE DEF r
        <5>1. g[r] = IF r = {} THEN 0 ELSE f[Pick(r)] + at(r \ {Pick(r)})
          BY <4>2
        <5>2. QED
          BY <1>4, <4>2, <5>1
      <4>4. g[s] = f[Pick(s)] + at(r)
        BY <3>2
      <4>5. QED
        BY <3>2, <4>3, <4>4
    <3>3. QED
      BY <3>1, <3>2
  <2>2. g = [s \in SUBSET T |-> g[s]]
    OBVIOUS
  <2> HIDE DEF g
  <2>3. QED
    BY <2>1, <2>2 DEF Sums
<1>6. QED
  BY <1>2, <1>5

(* The defining equation of the sum. *)
LEMMA SumEquation ==
  ASSUME NEW f, NEW S, IsFiniteSet(S)
  PROVE  SumOver(f, S) =
           IF S = {} THEN 0 ELSE f[Pick(S)] + SumOver(f, S \ {Pick(S)})
<1>1. \A T : SumOver(f, T) = Solution(f, T)[T]
  BY DEF SumOver, FoldFunctionOnSet, MapThenFoldSet, Solution, Sums, Pick
<1>2. Sums(f, Solution(f, S), S)
  BY SumsExist
<1>3. S \in SUBSET S
  OBVIOUS
<1>4. Solution(f, S)[S] =
        IF S = {} THEN 0 ELSE f[Pick(S)] + Solution(f, S)[S \ {Pick(S)}]
  BY <1>2, <1>3 DEF Sums
<1>5. CASE S # {}
  <2> DEFINE r == S \ {Pick(S)}
  <2>1. r \in SUBSET S
    OBVIOUS
  <2>2. Sums(f, Solution(f, r), r)
    BY <2>1, SumsExist
  <2>3. Solution(f, S)[r] = Solution(f, r)[r]
    <3> HIDE DEF r
    <3>1. QED
      BY <1>2, <2>1, <2>2, SumsAgree
  <2>4. QED
    BY <1>1, <1>4, <1>5, <2>3
<1>6. QED
  BY <1>1, <1>4, <1>5

-----------------------------------------------------------------------------
(* Sums of integers. *)
LEMMA SumEmpty == ASSUME NEW f PROVE SumOver(f, {}) = 0
BY SumEquation, FS_EmptySet

LEMMA SumType ==
  ASSUME NEW f, NEW S, IsFiniteSet(S), \A x \in S : f[x] \in Int
  PROVE  SumOver(f, S) \in Int
<1> DEFINE F == {s \in SUBSET S : SumOver(f, s) \notin Int}
<1>1. SUFFICES ASSUME F # {} PROVE FALSE
  OBVIOUS
<1>2. PICK s \in F : \A u \in F : u \subseteq s => u = s
  <2>1. F \subseteq SUBSET S
    OBVIOUS
  <2> HIDE DEF F
  <2>2. QED
    BY <1>1, <2>1, SmallestSubset
<1>3. IsFiniteSet(s)
  BY <1>2, FS_Subset
<1>4. SumOver(f, s) = IF s = {} THEN 0 ELSE f[Pick(s)] + SumOver(f, s \ {Pick(s)})
  BY <1>3, SumEquation
<1>5. s # {} => Pick(s) \in s
  BY PickIn
<1>6. s # {} => s \ {Pick(s)} \notin F
  BY <1>2, <1>5
<1>7. QED
  BY <1>2, <1>4, <1>5, <1>6

(* Any element may be taken out first. *)
LEMMA SumTakeOut ==
  ASSUME NEW f, NEW S, IsFiniteSet(S), \A x \in S : f[x] \in Int
  PROVE  \A s \in SUBSET S : \A x \in s :
           SumOver(f, s) = f[x] + SumOver(f, s \ {x})
<1> DEFINE F == {s \in SUBSET S :
                   \E x \in s : SumOver(f, s) # f[x] + SumOver(f, s \ {x})}
<1>1. SUFFICES ASSUME F # {} PROVE FALSE
  OBVIOUS
<1>2. PICK s \in F : \A u \in F : u \subseteq s => u = s
  <2>1. F \subseteq SUBSET S
    OBVIOUS
  <2> HIDE DEF F
  <2>2. QED
    BY <1>1, <2>1, SmallestSubset
<1>3. PICK x \in s : SumOver(f, s) # f[x] + SumOver(f, s \ {x})
  BY <1>2
<1>4. \A u \in SUBSET S : IsFiniteSet(u) /\ SumOver(f, u) \in Int
  BY FS_Subset, SumType
<1> DEFINE y == Pick(s)
<1>5. SumOver(f, s) = f[y] + SumOver(f, s \ {y})
  BY <1>2, <1>3, <1>4, SumEquation
<1>6. y \in s /\ x # y
  BY <1>3, <1>5, PickIn
<1> HIDE DEF y
<1>7. s \ {y} \notin F /\ s \ {x} \notin F /\ s \in SUBSET S
  BY <1>2, <1>6
<1>8. SumOver(f, s \ {y}) = f[x] + SumOver(f, (s \ {y}) \ {x})
  BY <1>6, <1>7
<1>9. SumOver(f, s \ {x}) = f[y] + SumOver(f, (s \ {x}) \ {y})
  BY <1>6, <1>7
<1>10. (s \ {y}) \ {x} = (s \ {x}) \ {y}
  OBVIOUS
<1>11. f[x] \in Int /\ f[y] \in Int /\ SumOver(f, (s \ {y}) \ {x}) \in Int
  BY <1>4, <1>6, <1>7
<1> DEFINE a == SumOver(f, (s \ {y}) \ {x})
<1>12. SumOver(f, s) = f[y] + (f[x] + a)
  BY <1>5, <1>8
<1>13. f[x] + SumOver(f, s \ {x}) = f[x] + (f[y] + a)
  BY <1>9, <1>10
<1> HIDE DEF a, F
<1>14. a \in Int => f[y] + (f[x] + a) = f[x] + (f[y] + a)
  BY <1>11
<1>15. QED
  BY <1>3, <1>11, <1>12, <1>13, <1>14 DEF a

LEMMA SumRemove ==
  ASSUME NEW f, NEW S, IsFiniteSet(S), \A z \in S : f[z] \in Int, NEW x \in S
  PROVE  /\ SumOver(f, S) = f[x] + SumOver(f, S \ {x})
         /\ SumOver(f, S \ {x}) \in Int
<1>1. S \in SUBSET S /\ IsFiniteSet(S \ {x})
  BY FS_Subset
<1>2. QED
  BY <1>1, SumTakeOut, SumType

(* Only the values on the set count. *)
LEMMA SumSame ==
  ASSUME NEW f, NEW g, NEW S, IsFiniteSet(S), \A x \in S : f[x] = g[x]
  PROVE  SumOver(f, S) = SumOver(g, S)
<1> DEFINE F == {s \in SUBSET S : SumOver(f, s) # SumOver(g, s)}
<1>1. SUFFICES ASSUME F # {} PROVE FALSE
  OBVIOUS
<1>2. PICK s \in F : \A u \in F : u \subseteq s => u = s
  <2>1. F \subseteq SUBSET S
    OBVIOUS
  <2> HIDE DEF F
  <2>2. QED
    BY <1>1, <2>1, SmallestSubset
<1>3. IsFiniteSet(s)
  BY <1>2, FS_Subset
<1>4. /\ SumOver(f, s) = IF s = {} THEN 0 ELSE f[Pick(s)] + SumOver(f, s \ {Pick(s)})
      /\ SumOver(g, s) = IF s = {} THEN 0 ELSE g[Pick(s)] + SumOver(g, s \ {Pick(s)})
  BY <1>3, SumEquation
<1>5. s # {} => Pick(s) \in s
  BY PickIn
<1>6. s # {} => s \ {Pick(s)} \notin F
  BY <1>2, <1>5
<1>7. QED
  BY <1>2, <1>4, <1>5, <1>6

(* Zeros sum to zero. *)
LEMMA SumZero ==
  ASSUME NEW f, NEW S, IsFiniteSet(S), \A x \in S : f[x] = 0
  PROVE  SumOver(f, S) = 0
<1> DEFINE F == {s \in SUBSET S : SumOver(f, s) # 0}
<1>1. SUFFICES ASSUME F # {} PROVE FALSE
  OBVIOUS
<1>2. PICK s \in F : \A u \in F : u \subseteq s => u = s
  <2>1. F \subseteq SUBSET S
    OBVIOUS
  <2> HIDE DEF F
  <2>2. QED
    BY <1>1, <2>1, SmallestSubset
<1>3. IsFiniteSet(s)
  BY <1>2, FS_Subset
<1>4. SumOver(f, s) = IF s = {} THEN 0 ELSE f[Pick(s)] + SumOver(f, s \ {Pick(s)})
  BY <1>3, SumEquation
<1>5. s # {} => Pick(s) \in s
  BY PickIn
<1>6. s # {} => s \ {Pick(s)} \notin F
  BY <1>2, <1>5
<1>7. QED
  BY <1>2, <1>4, <1>5, <1>6

(* Changing one value changes the sum by as much. *)
LEMMA SumChange ==
  ASSUME NEW f, NEW g, NEW S, IsFiniteSet(S), NEW x \in S,
         \A z \in S : f[z] \in Int /\ g[z] \in Int,
         \A z \in S \ {x} : g[z] = f[z]
  PROVE  SumOver(g, S) = SumOver(f, S) + g[x] - f[x]
<1>1. /\ SumOver(f, S) = f[x] + SumOver(f, S \ {x}) /\ SumOver(f, S \ {x}) \in Int
      /\ SumOver(g, S) = g[x] + SumOver(g, S \ {x}) /\ SumOver(g, S \ {x}) \in Int
  BY SumRemove
<1>2. SumOver(f, S \ {x}) = SumOver(g, S \ {x})
  <2>1. IsFiniteSet(S \ {x})
    BY FS_Subset
  <2>2. QED
    BY <2>1, SumSame
<1>3. QED
  BY <1>1, <1>2

(* A sum of natural numbers is no less than the sum over a part of the set. *)
LEMMA SumPart ==
  ASSUME NEW f, NEW S, IsFiniteSet(S), \A x \in S : f[x] \in Nat
  PROVE  \A s \in SUBSET S :
           SumOver(f, s) \in Nat /\ SumOver(f, s) <= SumOver(f, S)
<1> DEFINE F == {s \in SUBSET S : ~(/\ SumOver(f, S \ s) \in Nat
                                    /\ SumOver(f, S \ s) <= SumOver(f, S))}
           N == {s \in SUBSET S : SumOver(f, s) \notin Nat}
<1>0. \A x \in S : f[x] \in Int
  OBVIOUS
<1>1. \A s \in SUBSET S : IsFiniteSet(s) /\ SumOver(f, s) \in Int
  BY <1>0, FS_Subset, SumType
<1>2. \A s \in SUBSET S : \A x \in s : SumOver(f, s) = f[x] + SumOver(f, s \ {x})
  BY <1>0, SumTakeOut
<1>3. N = {}
  <2>1. SUFFICES ASSUME N # {} PROVE FALSE
    OBVIOUS
  <2>2. PICK s \in N : \A u \in N : u \subseteq s => u = s
    <3>1. N \subseteq SUBSET S
      OBVIOUS
    <3> HIDE DEF N
    <3>2. QED
      BY <2>1, <3>1, SmallestSubset
  <2>3. s # {}
    <3>1. SumOver(f, s) # 0
      BY <2>2
    <3>2. QED
      BY <3>1, SumEmpty
  <2>4. PICK x \in s : TRUE
    BY <2>3
  <2>5. s \ {x} \notin N
    BY <2>2, <2>4
  <2>6. QED
    BY <1>1, <1>2, <2>2, <2>4, <2>5
<1>4. F = {}
  <2>1. SUFFICES ASSUME F # {} PROVE FALSE
    OBVIOUS
  <2>2. PICK s \in F : \A u \in F : u \subseteq s => u = s
    <3>1. F \subseteq SUBSET S
      OBVIOUS
    <3> HIDE DEF F
    <3>2. QED
      BY <2>1, <3>1, SmallestSubset
  <2>3. s # {}
    <3>1. SUFFICES ASSUME s = {} PROVE FALSE
      OBVIOUS
    <3>2. S \ s = S /\ S \in SUBSET S
      BY <3>1
    <3>3. SumOver(f, S) \in Nat
      BY <1>3, <3>2
    <3>4. SumOver(f, S) <= SumOver(f, S)
      BY <3>3
    <3>5. s \notin F
      BY <3>2, <3>3, <3>4
    <3>6. QED
      BY <2>2, <3>5
  <2>4. PICK x \in s : TRUE
    BY <2>3
  <2>5. s \ {x} \notin F /\ S \ s \notin N
    BY <1>3, <2>2, <2>4
  <2>6. (S \ (s \ {x})) \ {x} = S \ s /\ x \in S \ (s \ {x})
    BY <2>2, <2>4
  <2>7. SumOver(f, S \ (s \ {x})) = f[x] + SumOver(f, S \ s)
    <3>1. S \ (s \ {x}) \in SUBSET S
      OBVIOUS
    <3>2. QED
      BY <1>2, <2>6, <3>1
  <2>8. SumOver(f, S \ s) \in Nat /\ f[x] \in Nat /\ SumOver(f, S) \in Int
    BY <1>1, <2>2, <2>4, <2>5
  <2>9. SumOver(f, S \ (s \ {x})) <= SumOver(f, S)
    BY <2>2, <2>4, <2>5
  <2>10. QED
    BY <2>2, <2>7, <2>8, <2>9
<1>5. ASSUME NEW s \in SUBSET S
      PROVE  SumOver(f, s) \in Nat /\ SumOver(f, s) <= SumOver(f, S)
  <2>1. S \ (S \ s) = s /\ S \ s \in SUBSET S
    OBVIOUS
  <2>2. S \ s \notin F
    BY <1>4
  <2>3. QED
    BY <2>1, <2>2
<1>6. QED
  BY <1>5

(* The sum over two disjoint sets. *)
LEMMA SumUnion ==
  ASSUME NEW f, NEW S, IsFiniteSet(S), \A x \in S : f[x] \in Int, NEW T \in SUBSET S
  PROVE  \A s \in SUBSET T : SumOver(f, T) = SumOver(f, s) + SumOver(f, T \ s)
<1> DEFINE F == {s \in SUBSET T : SumOver(f, T) # SumOver(f, s) + SumOver(f, T \ s)}
<1>1. SUFFICES ASSUME F # {} PROVE FALSE
  OBVIOUS
<1>2. PICK s \in F : \A u \in F : u \subseteq s => u = s
  <2>1. F \subseteq SUBSET S
    OBVIOUS
  <2> HIDE DEF F
  <2>2. QED
    BY <1>1, <2>1, SmallestSubset
<1>3. \A u \in SUBSET S : IsFiniteSet(u) /\ SumOver(f, u) \in Int
  BY FS_Subset, SumType
<1>4. \A u \in SUBSET S : \A x \in u : SumOver(f, u) = f[x] + SumOver(f, u \ {x})
  BY SumTakeOut
<1>5. s # {}
  <2>1. SUFFICES ASSUME s = {} PROVE FALSE
    OBVIOUS
  <2>2. T \ s = T /\ SumOver(f, s) = 0 /\ SumOver(f, T) \in Int
    BY <1>3, <2>1, SumEmpty
  <2>3. SumOver(f, T \ s) = SumOver(f, T)
    BY <2>2
  <2>4. SumOver(f, T) = SumOver(f, s) + SumOver(f, T \ s)
    <3> HIDE DEF F
    <3>1. QED
      BY <2>2, <2>3
  <2>5. QED
    BY <1>2, <2>4
<1>6. PICK x \in s : TRUE
  BY <1>5
<1> DEFINE r == s \ {x}
<1>7. r \in SUBSET T /\ r \notin F
  BY <1>2, <1>6
<1>8. SumOver(f, s) = f[x] + SumOver(f, r)
  BY <1>2, <1>4, <1>6
<1>9. SumOver(f, T \ r) = f[x] + SumOver(f, T \ s)
  <2>1. (T \ r) \ {x} = T \ s /\ x \in T \ r /\ T \ r \in SUBSET S
    BY <1>2, <1>6
  <2>2. QED
    BY <1>4, <2>1
<1>10. SumOver(f, T) = SumOver(f, r) + SumOver(f, T \ r)
  BY <1>7
<1>11. f[x] \in Int /\ SumOver(f, r) \in Int /\ SumOver(f, T \ s) \in Int
  BY <1>2, <1>3, <1>6, <1>7
<1>12. QED
  BY <1>2, <1>8, <1>9, <1>10, <1>11
=============================================================================
