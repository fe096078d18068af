-------------------------------- MODULE Sums --------------------------------
(***************************************************************************)
(* Facts about finite sums, as MapThenSumSet writes them: what a ledger, a *)
(* budget or a count comes to.  Induction is by the smallest               *)
(* counterexample: a nonempty set of naturals, or of subsets of a finite   *)
(* set, has a smallest member.                                             *)
(***************************************************************************)
EXTENDS Integers, FiniteSets, FiniteSetsExt, FiniteSetTheorems, WellFoundedInduction, TLAPS

LEMMA SmallestSubset ==
  ASSUME NEW S, IsFiniteSet(S), NEW C, C \subseteq SUBSET S, C # {}
  PROVE  \E T \in C : \A U \in C : U \subseteq T => U = T
<1> DEFINE R == StrictSubsetOrdering(S)
<1>1. IsWellFoundedOn(R, SUBSET S)
  BY FS_StrictSubsetOrderingWellFounded, FS_FiniteSubsetsOfFinite
<1> HIDE DEF R
<1>2. PICK T \in C : \A U \in C : ~(<<U, T>> \in R)
  BY <1>1, WFMin
<1>3. ASSUME NEW U \in C, U \subseteq T, U # T PROVE FALSE
  <2>1. U \in SUBSET S /\ T \in SUBSET S
    OBVIOUS
  <2>2. <<U, T>> \in R
    BY <1>3, <2>1 DEF R, StrictSubsetOrdering
  <2> QED
    BY <1>2, <2>2
<1> QED
  BY <1>3

LEMMA LeastNatural ==
  ASSUME NEW T, T \subseteq Nat, T # {}
  PROVE  \E m \in T : \A n \in T : m <= n
<1>1. PICK k \in T : TRUE
  OBVIOUS
<1> DEFINE C == {1 .. n : n \in {i \in T : i <= k}}
<1>2. IsFiniteSet(1 .. k)
  <2>1. 1 \in Int /\ k \in Int
    BY <1>1
  <2> QED
    BY <2>1, FS_Interval
<1>a. C \subseteq SUBSET (1 .. k)
  <2>1. \A n \in {i \in T : i <= k} : 1 .. n \subseteq 1 .. k
    BY <1>1
  <2> QED
    BY <2>1
<1>b. C # {}
  <2>1. 1 .. k \in C
    BY <1>1
  <2> QED
    BY <2>1
<1> DEFINE K == 1 .. k
<1> HIDE DEF C
<1>c. IsFiniteSet(K) /\ C \subseteq SUBSET K
  BY <1>2, <1>a
<1> HIDE DEF K
<1>3. PICK I \in C : \A J \in C : J \subseteq I => J = I
  BY <1>b, <1>c, SmallestSubset
<1>4. PICK m \in T : m <= k /\ I = 1 .. m
  BY <1>3 DEF C
<1>5. ASSUME NEW n \in T, n < m PROVE FALSE
  <2>1. n \in Nat /\ m \in Nat /\ 1 .. n \in C
    BY <1>4, <1>5 DEF C
  <2>2. 1 .. n \subseteq 1 .. m /\ m \in 1 .. m /\ m \notin 1 .. n
    BY <1>5, <2>1
  <2> QED
    BY <1>3, <1>4, <2>1, <2>2
<1> QED
  BY <1>4, <1>5

LEMMA MinIsLeast ==
  ASSUME NEW T, T \subseteq Nat, T # {}
  PROVE  Min(T) \in T /\ \A n \in T : Min(T) <= n
BY LeastNatural DEF Min

-----------------------------------------------------------------------------
TotalOf(f, S) == MapThenSumSet(LAMBDA x : f[x], S)

Pick(s) == CHOOSE x \in s : TRUE
Rest(s) == s \ {Pick(s)}
Adds(F, f, s) == IF s = {} THEN 0 ELSE f[Pick(s)] + F[Rest(s)]
AreTotals(F, f, S) == F = [s \in SUBSET S |-> Adds(F, f, s)]

LEMMA PickIn == \A s : s # {} => Pick(s) \in s
BY DEF Pick

LEMMA RestIsSmaller ==
  ASSUME NEW s, IsFiniteSet(s), s # {}
  PROVE  IsFiniteSet(Rest(s)) /\ Cardinality(Rest(s)) = Cardinality(s) - 1
BY PickIn, FS_RemoveElement DEF Rest

(* The recursion of MapThenFoldSet has a solution: level by level.         *)
LEMMA TotalsExist ==
  ASSUME NEW f, NEW S, IsFiniteSet(S)
  PROVE  \E F : AreTotals(F, f, S)
<1> DEFINE Level(n) == {s \in SUBSET S : Cardinality(s) <= n}
           Solves(F, n) == F = [s \in Level(n) |-> Adds(F, f, s)]
           Unsolved == {n \in Nat : ~ \E F : Solves(F, n)}
<1>f. \A s \in SUBSET S : IsFiniteSet(s) /\ Cardinality(s) \in Nat
  BY FS_Subset, FS_CardinalityType
<1>0. 0 \notin Unsolved
  <2>1. \A s \in Level(0) : s = {}
    BY <1>f, FS_EmptySet
  <2> DEFINE F == [s \in Level(0) |-> 0]
  <2>2. Solves(F, 0)
    BY <2>1 DEF Adds
  <2> QED
    BY <2>2
<1>1. ASSUME NEW m \in Nat, m # 0, m - 1 \notin Unsolved PROVE m \notin Unsolved
  <2>m. m - 1 \in Nat
    BY <1>1
  <2>1. PICK G : Solves(G, m - 1)
    BY <1>1, <2>m
  <2> DEFINE H == [s \in Level(m) |-> Adds(G, f, s)]
  <2>2. ASSUME NEW s \in Level(m) PROVE Adds(G, f, s) = Adds(H, f, s)
    <3>1. CASE s = {}
      BY <3>1 DEF Adds
    <3>2. CASE s # {}
      <4>1. Rest(s) \in Level(m - 1) /\ Rest(s) \in Level(m)
        BY <1>f, <3>2, RestIsSmaller DEF Rest
      <4>2. H[Rest(s)] = Adds(G, f, Rest(s))
        BY <4>1
      <4>3. G[Rest(s)] = Adds(G, f, Rest(s))
        BY <2>1, <4>1
      <4> QED
        BY <3>2, <4>2, <4>3 DEF Adds
    <3> QED
      BY <3>1, <3>2
  <2>3. H = [s \in Level(m) |-> Adds(H, f, s)]
    BY <2>2
  <2> QED
    BY <2>3
<1>2. Unsolved = {}
  <2> HIDE DEF Solves
  <2>1. SUFFICES ASSUME Unsolved # {} PROVE FALSE
    OBVIOUS
  <2>2. PICK m \in Unsolved : \A n \in Unsolved : m <= n
    BY <2>1, LeastNatural
  <2>3. m \in Nat /\ m # 0
    BY <1>0
  <2>4. m - 1 \notin Unsolved
    BY <2>2, <2>3
  <2> QED
    BY <1>1, <2>3, <2>4
<1>3. Level(Cardinality(S)) = SUBSET S
  BY FS_Subset
<1>4. PICK F : Solves(F, Cardinality(S))
  BY <1>2, FS_CardinalityType
<1> QED
  BY <1>3, <1>4 DEF AreTotals

-----------------------------------------------------------------------------
Totals(f, S) == CHOOSE F : AreTotals(F, f, S)

LEMMA TotalUnfolds ==
  ASSUME NEW f, NEW S, IsFiniteSet(S)
  PROVE  /\ AreTotals(Totals(f, S), f, S)
         /\ TotalOf(f, S) = Totals(f, S)[S]
<1>1. AreTotals(Totals(f, S), f, S)
  BY TotalsExist DEF Totals
<1>2. TotalOf(f, S) = Totals(f, S)[S]
  BY DEF TotalOf, Totals, AreTotals, Adds, Pick, Rest, MapThenSumSet, MapThenFoldSet
<1> QED
  BY <1>1, <1>2

(* What solves the recursion for a set and for a part of it agrees on that *)
(* part.                                                                   *)
LEMMA SolutionsAgree ==
  ASSUME NEW f, NEW S, IsFiniteSet(S), NEW T \in SUBSET S,
         NEW F, AreTotals(F, f, S), NEW G, AreTotals(G, f, T)
  PROVE  F[T] = G[T]
<1> DEFINE C == {s \in SUBSET T : F[s] # G[s]}
<1>1. IsFiniteSet(T)
  BY FS_Subset
<1>b. SUBSET T \subseteq SUBSET S
  OBVIOUS
<1>2. /\ \A s \in SUBSET T : F[s] = Adds(F, f, s)
      /\ \A s \in SUBSET T : G[s] = Adds(G, f, s)
  BY <1>b DEF AreTotals
<1>3. C = {}
  <2>1. SUFFICES ASSUME C # {} PROVE FALSE
    OBVIOUS
  <2>2. C \subseteq SUBSET T
    OBVIOUS
  <2> HIDE DEF C
  <2>3. PICK s \in C : \A u \in C : u \subseteq s => u = s
    BY <1>1, <2>1, <2>2, SmallestSubset
  <2>4. s \in SUBSET T /\ Adds(F, f, s) # Adds(G, f, s)
    BY <1>2 DEF C
  <2>5. s # {} /\ F[Rest(s)] # G[Rest(s)]
    BY <2>4 DEF Adds
  <2>6. Rest(s) \in C /\ Rest(s) \subseteq s /\ Rest(s) # s
    BY <2>4, <2>5, PickIn DEF Rest, C
  <2> QED
    BY <2>3, <2>6
<1> QED
  BY <1>3

LEMMA TotalsAgree ==
  ASSUME NEW f, NEW S, IsFiniteSet(S), NEW T \in SUBSET S
  PROVE  Totals(f, S)[T] = TotalOf(f, T)
<1>1. IsFiniteSet(T)
  BY FS_Subset
<1>2. /\ AreTotals(Totals(f, S), f, S) /\ AreTotals(Totals(f, T), f, T)
      /\ TotalOf(f, T) = Totals(f, T)[T]
  BY <1>1, TotalUnfolds
<1> QED
  BY <1>2, SolutionsAgree

LEMMA TotalAdds ==
  ASSUME NEW f, NEW S, IsFiniteSet(S)
  PROVE  TotalOf(f, S) = IF S = {} THEN 0 ELSE f[Pick(S)] + TotalOf(f, Rest(S))
<1>1. TotalOf(f, S) = Adds(Totals(f, S), f, S)
  <2> DEFINE F == Totals(f, S)
  <2>1. AreTotals(F, f, S) /\ TotalOf(f, S) = F[S]
    BY TotalUnfolds
  <2> HIDE DEF F
  <2>2. F[S] = Adds(F, f, S)
    BY <2>1 DEF AreTotals
  <2> QED
    BY <2>1, <2>2 DEF F
<1>2. Rest(S) \in SUBSET S
  BY DEF Rest
<1> QED
  BY <1>1, <1>2, TotalsAgree DEF Adds

LEMMA TotalOfNothing == \A f : TotalOf(f, {}) = 0
BY TotalAdds, FS_EmptySet

LEMMA TotalIsInt ==
  ASSUME NEW f, NEW S, IsFiniteSet(S), \A x \in S : f[x] \in Int
  PROVE  TotalOf(f, S) \in Int
<1> DEFINE C == {T \in SUBSET S : TotalOf(f, T) \notin Int}
<1>1. SUFFICES ASSUME C # {} PROVE FALSE
  OBVIOUS
<1>2. C \subseteq SUBSET S
  OBVIOUS
<1> HIDE DEF C
<1>3. PICK T \in C : \A U \in C : U \subseteq T => U = T
  BY <1>1, <1>2, SmallestSubset
<1>4. T \in SUBSET S /\ IsFiniteSet(T) /\ TotalOf(f, T) \notin Int
  BY <1>2, FS_Subset DEF C
<1>5. T # {}
  BY <1>4, TotalOfNothing
<1>6. TotalOf(f, T) = f[Pick(T)] + TotalOf(f, Rest(T)) /\ f[Pick(T)] \in Int
  BY <1>4, <1>5, TotalAdds, PickIn
<1>7. Rest(T) \in C
  BY <1>4, <1>6 DEF C, Rest
<1> QED
  BY <1>3, <1>5, <1>7, PickIn DEF Rest

(* Whichever element is taken first.                                       *)
LEMMA TotalTakes ==
  ASSUME NEW f, NEW S, IsFiniteSet(S), \A y \in S : f[y] \in Int, NEW x \in S
  PROVE  TotalOf(f, S) = f[x] + TotalOf(f, S \ {x})
<1> DEFINE C == {T \in SUBSET S : \E y \in T : TotalOf(f, T) # f[y] + TotalOf(f, T \ {y})}
<1>1. SUFFICES ASSUME C # {} PROVE FALSE
  OBVIOUS
<1>2. C \subseteq SUBSET S
  OBVIOUS
<1> HIDE DEF C
<1>3. PICK T \in C : \A U \in C : U \subseteq T => U = T
  BY <1>1, <1>2, SmallestSubset
<1>4. T \in SUBSET S /\ IsFiniteSet(T)
  BY <1>2, FS_Subset
<1>5. PICK y \in T : TotalOf(f, T) # f[y] + TotalOf(f, T \ {y})
  BY DEF C
<1> DEFINE c == Pick(T)
<1>6. c \in T /\ TotalOf(f, T) = f[c] + TotalOf(f, T \ {c})
  BY <1>4, <1>5, PickIn, TotalAdds DEF Rest
<1> HIDE DEF c
<1>7. y # c
  BY <1>5, <1>6
<1>8. T \ {c} \notin C /\ T \ {y} \notin C /\ T \ {c} \in SUBSET S /\ T \ {y} \in SUBSET S
  BY <1>3, <1>4, <1>6
<1>9. /\ TotalOf(f, T \ {c}) = f[y] + TotalOf(f, (T \ {c}) \ {y})
      /\ TotalOf(f, T \ {y}) = f[c] + TotalOf(f, (T \ {y}) \ {c})
  BY <1>5, <1>6, <1>7, <1>8 DEF C
<1>10. (T \ {c}) \ {y} = (T \ {y}) \ {c}
  OBVIOUS
<1>11. f[y] \in Int /\ f[c] \in Int /\ TotalOf(f, (T \ {c}) \ {y}) \in Int
  <2>1. IsFiniteSet((T \ {c}) \ {y})
    BY <1>4, FS_RemoveElement
  <2>2. \A z \in (T \ {c}) \ {y} : f[z] \in Int
    BY <1>4
  <2> QED
    BY <1>4, <1>5, <1>6, <2>1, <2>2, TotalIsInt
<1> DEFINE less == TotalOf(f, (T \ {c}) \ {y})
<1>12. TotalOf(f, T) = f[c] + (f[y] + less) /\ TotalOf(f, T \ {y}) = f[c] + less /\ less \in Int
  BY <1>6, <1>9, <1>10, <1>11
<1> HIDE DEF less
<1>13. f[c] + (f[y] + less) = f[y] + (f[c] + less)
  BY <1>11, <1>12
<1> QED
  BY <1>5, <1>12, <1>13

(* What is added up element by element may be compared so.                 *)
LEMMA TotalsCompare ==
  ASSUME NEW f, NEW g, NEW S, IsFiniteSet(S), NEW W, NEW M \in Int,
         \A x \in S : f[x] \in Int /\ g[x] \in Int,
         \A x \in S : f[x] <= g[x] + (IF x \in W THEN M ELSE 0)
  PROVE  TotalOf(f, S) <= TotalOf(g, S) + Cardinality(S \cap W) * M
<1> DEFINE Bounded(T) == TotalOf(f, T) <= TotalOf(g, T) + Cardinality(T \cap W) * M
           C == {T \in SUBSET S : ~Bounded(T)}
<1>1. SUFFICES ASSUME C # {} PROVE FALSE
  OBVIOUS
<1>2. C \subseteq SUBSET S
  OBVIOUS
<1> HIDE DEF C
<1>3. PICK T \in C : \A U \in C : U \subseteq T => U = T
  BY <1>1, <1>2, SmallestSubset
<1>4. T \in SUBSET S /\ IsFiniteSet(T) /\ ~Bounded(T)
  BY <1>2, FS_Subset DEF C
<1>5. T # {}
  <2>1. CASE T = {}
    <3>1. T \cap W = {}
      BY <2>1
    <3>2. TotalOf(f, T) = 0 /\ TotalOf(g, T) = 0 /\ Cardinality(T \cap W) = 0
      BY <2>1, <3>1, TotalOfNothing, FS_EmptySet
    <3> QED
      BY <1>4, <3>2
  <2> QED
    BY <2>1
<1>6. PICK x \in T : TRUE
  BY <1>5
<1> DEFINE U == T \ {x}
<1>7. U \in SUBSET S /\ IsFiniteSet(U) /\ U \subseteq T /\ U # T
  BY <1>4, <1>6, FS_RemoveElement
<1>8. Bounded(U)
  BY <1>3, <1>7 DEF C
<1>9. /\ TotalOf(f, T) = f[x] + TotalOf(f, U) /\ TotalOf(g, T) = g[x] + TotalOf(g, U)
      /\ TotalOf(f, U) \in Int /\ TotalOf(g, U) \in Int /\ f[x] \in Int /\ g[x] \in Int
  BY <1>4, <1>6, <1>7, TotalTakes, TotalIsInt
<1>10. /\ IsFiniteSet(U \cap W) /\ Cardinality(U \cap W) \in Nat
       /\ Cardinality(T \cap W) = Cardinality(U \cap W) + (IF x \in W THEN 1 ELSE 0)
  <2>1. IsFiniteSet(T \cap W) /\ U \cap W = (T \cap W) \ {x}
    BY <1>4, FS_Intersection
  <2>2. /\ IsFiniteSet(U \cap W)
        /\ Cardinality(U \cap W) = IF x \in T \cap W THEN Cardinality(T \cap W) - 1
                                                    ELSE Cardinality(T \cap W)
    BY <2>1, FS_RemoveElement
  <2>3. Cardinality(U \cap W) \in Nat /\ Cardinality(T \cap W) \in Nat
    BY <2>1, <2>2, FS_CardinalityType
  <2> QED
    BY <1>6, <2>2, <2>3
<1> HIDE DEF U
<1>11. f[x] <= g[x] + (IF x \in W THEN M ELSE 0)
  BY <1>4
<1>12. Cardinality(T \cap W) * M = Cardinality(U \cap W) * M + (IF x \in W THEN M ELSE 0)
  <2> DEFINE n == Cardinality(U \cap W)
  <2>1. n \in Int /\ (n + 1) * M = n * M + M /\ (n + 0) * M = n * M + 0
    BY <1>10
  <2> QED
    BY <1>10, <2>1
<1>13. Cardinality(U \cap W) * M \in Int /\ (IF x \in W THEN M ELSE 0) \in Int
  BY <1>10
<1> QED
  BY <1>4, <1>8, <1>9, <1>11, <1>12, <1>13

LEMMA TotalsAgreeing ==
  ASSUME NEW f, NEW g, NEW S, IsFiniteSet(S), \A x \in S : f[x] \in Int /\ g[x] = f[x]
  PROVE  TotalOf(f, S) = TotalOf(g, S)
<1>1. S \cap {} = {} /\ Cardinality(S \cap {}) = 0
  BY FS_EmptySet
<1>a. /\ \A x \in S : f[x] \in Int /\ g[x] \in Int
      /\ \A x \in S : f[x] <= g[x] + (IF x \in {} THEN 0 ELSE 0)
      /\ \A x \in S : g[x] <= f[x] + (IF x \in {} THEN 0 ELSE 0)
  OBVIOUS
<1>b. 0 \in Int
  OBVIOUS
<1>2. TotalOf(f, S) <= TotalOf(g, S) + Cardinality(S \cap {}) * 0
  BY ONLY <1>a, <1>b, IsFiniteSet(S), TotalsCompare
<1>3. TotalOf(g, S) <= TotalOf(f, S) + Cardinality(S \cap {}) * 0
  BY ONLY <1>a, <1>b, IsFiniteSet(S), TotalsCompare
<1>4. TotalOf(f, S) \in Int /\ TotalOf(g, S) \in Int
  BY TotalIsInt
<1> QED
  BY <1>1, <1>2, <1>3, <1>4

(* One element more or less.                                               *)
LEMMA TotalMoves ==
  ASSUME NEW f, NEW g, NEW S, IsFiniteSet(S), NEW x \in S,
         \A y \in S : f[y] \in Int /\ g[y] \in Int,
         \A y \in S \ {x} : g[y] = f[y]
  PROVE  TotalOf(g, S) = TotalOf(f, S) - f[x] + g[x]
<1>1. IsFiniteSet(S \ {x})
  BY FS_RemoveElement
<1>2. TotalOf(f, S \ {x}) = TotalOf(g, S \ {x}) /\ TotalOf(f, S \ {x}) \in Int
  BY <1>1, TotalsAgreeing, TotalIsInt
<1> QED
  BY <1>2, TotalTakes

(* Where nothing is added, a part comes to as much as the whole.           *)
LEMMA TotalOfPart ==
  ASSUME NEW f, NEW S, IsFiniteSet(S), NEW T \in SUBSET S, \A x \in S : f[x] \in Nat
  PROVE  /\ TotalOf(f, T) \in Nat /\ TotalOf(f, T) <= TotalOf(f, S)
         /\ (\A x \in S \ T : f[x] = 0) => TotalOf(f, T) = TotalOf(f, S)
<1> DEFINE Part(U) == /\ TotalOf(f, T) <= TotalOf(f, U)
                      /\ (\A x \in U \ T : f[x] = 0) => TotalOf(f, T) = TotalOf(f, U)
           C == {U \in SUBSET S : T \subseteq U /\ ~Part(U)}
<1>f. /\ IsFiniteSet(T) /\ TotalOf(f, T) \in Int
      /\ \A U \in SUBSET S : IsFiniteSet(U) /\ TotalOf(f, U) \in Int
  BY FS_Subset, TotalIsInt
<1>1. C = {}
  <2>1. SUFFICES ASSUME C # {} PROVE FALSE
    OBVIOUS
  <2>2. C \subseteq SUBSET S
    OBVIOUS
  <2> HIDE DEF C
  <2>3. PICK U \in C : \A V \in C : V \subseteq U => V = U
    BY <2>1, <2>2, SmallestSubset
  <2>4. U \in SUBSET S /\ T \subseteq U /\ ~Part(U) /\ IsFiniteSet(U)
    BY <1>f DEF C
  <2>5. U # T
    BY <1>f, <2>4
  <2>6. PICK x \in U : x \notin T
    BY <2>4, <2>5
  <2>7. U \ {x} \in SUBSET S /\ T \subseteq U \ {x} /\ U \ {x} # U
    BY <2>4, <2>6
  <2>8. Part(U \ {x})
    BY <2>3, <2>7 DEF C
  <2>9. TotalOf(f, U) = f[x] + TotalOf(f, U \ {x}) /\ f[x] \in Nat /\ TotalOf(f, U \ {x}) \in Int
    BY <1>f, <2>4, <2>7, TotalTakes
  <2> QED
    BY <1>f, <2>4, <2>6, <2>8, <2>9
<1>2. Part(S)
  BY <1>1
<1>3. TotalOf(f, T) \in Nat
  <2> DEFINE Negative == {U \in SUBSET T : TotalOf(f, U) < 0}
  <2>1. Negative = {}
    <3>1. SUFFICES ASSUME Negative # {} PROVE FALSE
      OBVIOUS
    <3>2. Negative \subseteq SUBSET T
      OBVIOUS
    <3> HIDE DEF Negative
    <3>3. PICK U \in Negative : \A V \in Negative : V \subseteq U => V = U
      BY <1>f, <3>1, <3>2, SmallestSubset
    <3>4. U \in SUBSET T /\ U \in SUBSET S /\ IsFiniteSet(U) /\ TotalOf(f, U) < 0
      BY <1>f, <3>2 DEF Negative
    <3>5. U # {}
      BY <3>4, TotalOfNothing
    <3>6. PICK x \in U : TRUE
      BY <3>5
    <3>7. TotalOf(f, U) = f[x] + TotalOf(f, U \ {x}) /\ f[x] \in Nat /\ TotalOf(f, U \ {x}) \in Int
      BY <1>f, <3>4, <3>6, TotalTakes
    <3>8. U \ {x} \in Negative
      BY <3>4, <3>7 DEF Negative
    <3> QED
      BY <3>3, <3>6, <3>8
  <2> QED
    BY <1>f, <2>1
<1> QED
  BY <1>2, <1>3
-----------------------------------------------------------------------------
LEMMA SolvedTotal ==
  ASSUME NEW f, NEW S, IsFiniteSet(S), NEW G, AreTotals(G, f, S)
  PROVE  G[S] = TotalOf(f, S)
BY TotalUnfolds, SolutionsAgree

(* The difference of two totals, and the total of two parts.               *)
LEMMA TotalsSubtract ==
  ASSUME NEW f, NEW g, NEW h, NEW S, IsFiniteSet(S),
         \A x \in S : f[x] \in Int /\ g[x] \in Int /\ h[x] = f[x] - g[x]
  PROVE  TotalOf(h, S) = TotalOf(f, S) - TotalOf(g, S)
<1> DEFINE C == {T \in SUBSET S : TotalOf(h, T) # TotalOf(f, T) - TotalOf(g, T)}
<1>1. SUFFICES ASSUME C # {} PROVE FALSE
  OBVIOUS
<1>2. C \subseteq SUBSET S
  OBVIOUS
<1> HIDE DEF C
<1>3. PICK T \in C : \A U \in C : U \subseteq T => U = T
  BY <1>1, <1>2, SmallestSubset
<1>4. /\ T \in SUBSET S /\ IsFiniteSet(T) /\ TotalOf(h, T) # TotalOf(f, T) - TotalOf(g, T)
      /\ \A x \in T : f[x] \in Int /\ g[x] \in Int /\ h[x] \in Int
  BY <1>2, FS_Subset DEF C
<1>5. T # {}
  BY <1>4, TotalOfNothing
<1>6. PICK x \in T : TRUE
  BY <1>5
<1> DEFINE U == T \ {x}
<1>7. /\ TotalOf(f, T) = f[x] + TotalOf(f, U) /\ TotalOf(g, T) = g[x] + TotalOf(g, U)
      /\ TotalOf(h, T) = h[x] + TotalOf(h, U)
  BY <1>4, <1>6, TotalTakes
<1>8. U \in SUBSET S /\ U \subseteq T /\ U # T /\ IsFiniteSet(U)
  BY <1>4, <1>6, FS_Subset
<1>9. TotalOf(f, U) \in Int /\ TotalOf(g, U) \in Int
  BY <1>4, <1>8, TotalIsInt
<1>10. TotalOf(h, U) = TotalOf(f, U) - TotalOf(g, U)
  BY <1>3, <1>8 DEF C
<1>11. h[x] = f[x] - g[x] /\ f[x] \in Int /\ g[x] \in Int
  BY <1>4, <1>6
<1> HIDE DEF U
<1> QED
  BY <1>4, <1>7, <1>9, <1>10, <1>11

LEMMA TotalOfBoth ==
  ASSUME NEW f, NEW S, NEW T, IsFiniteSet(S), IsFiniteSet(T), S \cap T = {},
         \A x \in S \cup T : f[x] \in Int
  PROVE  TotalOf(f, S \cup T) = TotalOf(f, S) + TotalOf(f, T)
<1> DEFINE C == {U \in SUBSET S : TotalOf(f, U \cup T) # TotalOf(f, U) + TotalOf(f, T)}
<1>1. SUFFICES ASSUME C # {} PROVE FALSE
  OBVIOUS
<1>2. C \subseteq SUBSET S
  OBVIOUS
<1> HIDE DEF C
<1>3. PICK U \in C : \A V \in C : V \subseteq U => V = U
  BY <1>1, <1>2, SmallestSubset
<1>4. /\ U \in SUBSET S /\ IsFiniteSet(U) /\ TotalOf(f, U \cup T) # TotalOf(f, U) + TotalOf(f, T)
      /\ IsFiniteSet(U \cup T) /\ \A x \in U \cup T : f[x] \in Int
  BY <1>2, FS_Subset, FS_Union DEF C
<1>5. TotalOf(f, T) \in Int
  BY TotalIsInt
<1>6. U # {}
  <2>1. ASSUME U = {} PROVE FALSE
    <3>1. U \cup T = T
      BY <2>1
    <3>2. TotalOf(f, U \cup T) = TotalOf(f, T)
      BY <3>1
    <3>3. TotalOf(f, U) = 0
      BY <2>1, TotalOfNothing
    <3> HIDE DEF C
    <3> QED
      BY <1>4, <1>5, <3>2, <3>3
  <2> QED
    BY <2>1
<1>7. PICK x \in U : TRUE
  BY <1>6
<1> DEFINE V == U \ {x}
<1>8. (U \cup T) \ {x} = V \cup T
  BY <1>4, <1>7
<1>9. TotalOf(f, U) = f[x] + TotalOf(f, V)
  BY <1>4, <1>7, TotalTakes
<1>10. TotalOf(f, U \cup T) = f[x] + TotalOf(f, V \cup T)
  <2>1. TotalOf(f, U \cup T) = f[x] + TotalOf(f, (U \cup T) \ {x})
    BY <1>4, <1>7, TotalTakes
  <2> QED
    BY <1>8, <2>1
<1>11. V \in SUBSET S /\ V \subseteq U /\ V # U /\ IsFiniteSet(V)
  BY <1>4, <1>7, FS_Subset
<1>12. TotalOf(f, V \cup T) = TotalOf(f, V) + TotalOf(f, T)
  BY <1>3, <1>11 DEF C
<1>13. TotalOf(f, V) \in Int /\ f[x] \in Int
  BY <1>4, <1>7, <1>11, TotalIsInt
<1> HIDE DEF V
<1> QED
  BY <1>4, <1>5, <1>9, <1>10, <1>12, <1>13
=============================================================================
