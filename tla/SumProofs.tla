------------------------------ MODULE SumProofs ------------------------------
(***************************************************************************)
(* Sums over finite sets, as the community modules define them             *)
(* (SumFunctionOnSet, a fold over the set): that they do not depend on the *)
(* order of the elements, and how they change with the set and the values. *)
(* Induction is on a minimal counterexample (WFMin), since the theorems    *)
(* of induction over a predicate are not available to the provers.         *)
(***************************************************************************)
EXTENDS Integers, FiniteSets, Functions, FiniteSetTheorems, WellFoundedInduction, TLAPS

(* Induction over the subsets of a finite set, with a set for the          *)
(* property.                                                               *)
LEMMA SetInduction ==
  ASSUME NEW S, IsFiniteSet(S), NEW G, {} \in G,
         \A T \in SUBSET S : \A x \in S \ T : T \in G => T \cup {x} \in G
  PROVE  SUBSET S \subseteq G
  <1> DEFINE Bad == (SUBSET S) \ G
  <1>1. IsWellFoundedOn(StrictSubsetOrdering(S), SUBSET S)
    BY FS_FiniteSubsetsOfFinite, FS_StrictSubsetOrderingWellFounded
  <1>2. SUFFICES ASSUME Bad # {} PROVE FALSE
    OBVIOUS
  <1>3. PICK T \in Bad : \A U \in Bad : <<U, T>> \notin StrictSubsetOrdering(S)
    <2>1. Bad \subseteq SUBSET S
      OBVIOUS
    <2> HIDE DEF Bad
    <2> QED BY <1>1, <1>2, <2>1, WFMin
  <1>4. PICK x \in T : TRUE
    BY <1>3
  <1>5. T \ {x} \in SUBSET S /\ <<T \ {x}, T>> \in StrictSubsetOrdering(S)
    BY <1>3, <1>4 DEF StrictSubsetOrdering
  <1>6. T \ {x} \in G
    BY <1>3, <1>5
  <1>7. (T \ {x}) \cup {x} = T /\ x \in S \ (T \ {x})
    BY <1>3, <1>4
  <1> QED BY <1>3, <1>5, <1>6, <1>7

(* The definition of SumFunctionOnSet in the community modules, as an      *)
(* equation: a function on the subsets that takes out one element at a     *)
(* time.                                                                   *)
Pick(s) == CHOOSE x \in s : TRUE
IsSum(g, f, S) ==
    g = [s \in SUBSET S |-> IF s = {} THEN 0 ELSE f[Pick(s)] + g[s \ {Pick(s)}]]

(* SumFunctionOnSet is what a function of that equation gives.             *)
LEMMA SumIs ==
  ASSUME NEW f, NEW S
  PROVE  SumFunctionOnSet(f, S) = (CHOOSE g : IsSum(g, f, S))[S]
  BY DEF SumFunctionOnSet, FoldFunctionOnSet, MapThenFoldSet, IsSum, Pick

(* Induction over the numbers, with a set for the property.                *)
LEMMA NatSetInduction ==
  ASSUME NEW G, 0 \in G, \A n \in Nat : n \in G => n + 1 \in G
  PROVE  Nat \subseteq G
  <1> DEFINE Bad == Nat \ G  R == OpToRel(<, Nat)
  <1>1. IsWellFoundedOn(R, Nat)
    BY NatLessThanWellFounded
  <1>2. \A m, n \in Nat : m < n => <<m, n>> \in R
    BY DEF OpToRel
  <1> HIDE DEF R
  <1>3. SUFFICES ASSUME Bad # {} PROVE FALSE
    OBVIOUS
  <1>4. PICK n \in Bad : \A m \in Bad : <<m, n>> \notin R
    <2>1. Bad \subseteq Nat
      OBVIOUS
    <2> HIDE DEF Bad
    <2> QED BY <1>1, <1>3, <2>1, WFMin
  <1>5. n # 0 /\ n - 1 \in Nat /\ n - 1 < n
    BY <1>4
  <1>6. n - 1 \in G
    BY <1>2, <1>4, <1>5
  <1> QED BY <1>4, <1>5, <1>6

(* One turn of the equation.                                               *)
StepOf(g, f, s) == IF s = {} THEN 0 ELSE f[Pick(s)] + g[s \ {Pick(s)}]

(* A finite set has such a function.                                       *)
LEMMA SumExists ==
  ASSUME NEW f, NEW S, IsFiniteSet(S)
  PROVE  \E g : IsSum(g, f, S)
  <1> DEFINE Upto(g, n) == \A s \in SUBSET S : Cardinality(s) <= n => g[s] = StepOf(g, f, s)
             G == {n \in Nat : \E g : Upto(g, n)}
  <1>1. \A s \in SUBSET S : /\ IsFiniteSet(s) /\ Cardinality(s) \in Nat
                            /\ Cardinality(s) <= Cardinality(S)
                            /\ Cardinality(s) = 0 <=> s = {}
    BY FS_Subset, FS_CardinalityType, FS_EmptySet
  <1>2. 0 \in G
    <2> DEFINE g == [s \in SUBSET S |-> 0]
    <2>1. Upto(g, 0)
      BY <1>1 DEF StepOf
    <2> HIDE DEF g
    <2> QED BY <2>1
  <1>3. ASSUME NEW n \in Nat, n \in G PROVE n + 1 \in G
    <2>1. PICK h : Upto(h, n)
      BY <1>3
    <2> DEFINE g == [s \in SUBSET S |-> IF Cardinality(s) <= n THEN h[s] ELSE StepOf(h, f, s)]
    <2>2. ASSUME NEW s \in SUBSET S, Cardinality(s) <= n + 1
          PROVE  g[s] = StepOf(g, f, s)
      <3>1. CASE s = {}
        BY <1>1, <2>1, <3>1 DEF StepOf
      <3>2. CASE s # {}
        <4> DEFINE t == s \ {Pick(s)}
        <4>1. Pick(s) \in s
          BY <3>2 DEF Pick
        <4>2. t \in SUBSET S /\ Cardinality(t) <= n
          BY <1>1, <2>2, <4>1, FS_RemoveElement
        <4>3. g[t] = h[t]
          BY <4>2
        <4>4. g[s] = StepOf(h, f, s)
          BY <2>1, <2>2
        <4> HIDE DEF g
        <4> QED BY <3>2, <4>3, <4>4 DEF StepOf
      <3> QED BY <3>1, <3>2
    <2> HIDE DEF g
    <2> QED BY <2>2
  <1>4. Cardinality(S) \in G
    <2> HIDE DEF G
    <2>1. Nat \subseteq G
      BY <1>2, <1>3, NatSetInduction
    <2> QED BY <1>1, <2>1
  <1>5. PICK h : Upto(h, Cardinality(S))
    BY <1>4
  <1> DEFINE g == [s \in SUBSET S |-> h[s]]
  <1>6. \A s \in SUBSET S : g[s] = StepOf(g, f, s)
    BY <1>1, <1>5 DEF StepOf, Pick
  <1>7. g = [s \in SUBSET S |-> StepOf(g, f, s)]
    BY <1>6
  <1> HIDE DEF g
  <1> QED BY <1>7 DEF IsSum, StepOf

(* A family of subsets that is not empty has a minimal member.             *)
LEMMA SetMinimal ==
  ASSUME NEW S, IsFiniteSet(S), NEW Bad, Bad \subseteq SUBSET S, Bad # {}
  PROVE  \E T \in Bad : \A x \in T : T \ {x} \notin Bad
  <1>1. IsWellFoundedOn(StrictSubsetOrdering(S), SUBSET S)
    BY FS_FiniteSubsetsOfFinite, FS_StrictSubsetOrderingWellFounded
  <1>2. PICK T \in Bad : \A U \in Bad : <<U, T>> \notin StrictSubsetOrdering(S)
    BY <1>1, WFMin
  <1>3. \A x \in T : T \ {x} \in SUBSET S /\ <<T \ {x}, T>> \in StrictSubsetOrdering(S)
    BY <1>2 DEF StrictSubsetOrdering
  <1> QED BY <1>2, <1>3

(* The functions of two sets agree where both are defined.                 *)
LEMMA SumAgrees ==
  ASSUME NEW f, NEW S, IsFiniteSet(S), NEW T \in SUBSET S, NEW g, NEW h,
         IsSum(g, f, S), IsSum(h, f, T)
  PROVE  g[T] = h[T]
  <1> DEFINE Bad == {s \in SUBSET T : g[s] # h[s]}
  <1>1. \A s \in SUBSET T : g[s] = StepOf(g, f, s) /\ h[s] = StepOf(h, f, s)
    BY DEF IsSum, StepOf
  <1>2. SUFFICES ASSUME Bad # {} PROVE FALSE
    OBVIOUS
  <1>3. IsFiniteSet(T) /\ Bad \subseteq SUBSET T
    BY FS_Subset
  <1>4. PICK s \in Bad : \A x \in s : s \ {x} \notin Bad
    <2> HIDE DEF Bad
    <2> QED BY <1>2, <1>3, SetMinimal
  <1>5. s # {}
    BY <1>1, <1>4 DEF StepOf
  <1>6. Pick(s) \in s
    BY <1>5 DEF Pick
  <1>7. s \ {Pick(s)} \in SUBSET T
    BY <1>4
  <1>8. g[s \ {Pick(s)}] = h[s \ {Pick(s)}]
    BY <1>4, <1>6, <1>7
  <1> QED BY <1>1, <1>4, <1>5, <1>8 DEF StepOf

(* A sum is the value of the element picked and the sum of the rest.       *)
LEMMA SumUnfolds ==
  ASSUME NEW f, NEW S, IsFiniteSet(S)
  PROVE  SumFunctionOnSet(f, S) =
           IF S = {} THEN 0 ELSE f[Pick(S)] + SumFunctionOnSet(f, S \ {Pick(S)})
  <1> DEFINE T == S \ {Pick(S)}
  <1>1. IsFiniteSet(T) /\ T \in SUBSET S
    BY FS_Subset
  <1>2. PICK g : IsSum(g, f, S) /\ SumFunctionOnSet(f, S) = g[S]
    BY SumExists, SumIs
  <1>3. PICK h : IsSum(h, f, T) /\ SumFunctionOnSet(f, T) = h[T]
    BY <1>1, SumExists, SumIs
  <1>4. g[T] = h[T]
    BY <1>1, <1>2, <1>3, SumAgrees
  <1>5. g[S] = IF S = {} THEN 0 ELSE f[Pick(S)] + g[T]
    BY <1>2 DEF IsSum
  <1> QED BY <1>2, <1>3, <1>4, <1>5

(* Nothing adds up to zero.                                                *)
LEMMA SumEmpty ==
  ASSUME NEW f
  PROVE  SumFunctionOnSet(f, {}) = 0
  BY SumUnfolds, FS_EmptySet

(* Integers add up to an integer.                                          *)
LEMMA SumInt ==
  ASSUME NEW f, NEW S, IsFiniteSet(S), \A x \in S : f[x] \in Int
  PROVE  SumFunctionOnSet(f, S) \in Int
  <1> DEFINE Bad == {T \in SUBSET S : SumFunctionOnSet(f, T) \notin Int}
  <1>1. SUFFICES ASSUME Bad # {} PROVE FALSE
    OBVIOUS
  <1>2. PICK T \in Bad : \A x \in T : T \ {x} \notin Bad
    <2>1. Bad \subseteq SUBSET S
      OBVIOUS
    <2> HIDE DEF Bad
    <2> QED BY <1>1, <2>1, SetMinimal
  <1>3. T # {} /\ IsFiniteSet(T)
    <2>1. SumFunctionOnSet(f, {}) = 0 /\ T \in SUBSET S
      BY <1>2, SumEmpty
    <2>2. SumFunctionOnSet(f, T) \notin Int
      BY <1>2
    <2>3. IsFiniteSet(T)
      BY <2>1, FS_Subset
    <2>4. T # {}
      BY <2>1, <2>2
    <2> QED BY <2>3, <2>4
  <1>4. Pick(T) \in T
    BY <1>3 DEF Pick
  <1>5. SumFunctionOnSet(f, T \ {Pick(T)}) \in Int
    BY <1>2, <1>4
  <1> QED BY <1>2, <1>3, <1>4, <1>5, SumUnfolds

(* Any element, not only the picked one, may be taken out first.           *)
LEMMA SumRemove ==
  ASSUME NEW f, NEW S, IsFiniteSet(S), \A x \in S : f[x] \in Int, NEW x \in S
  PROVE  SumFunctionOnSet(f, S) = SumFunctionOnSet(f, S \ {x}) + f[x]
  <1> DEFINE Sum(T) == SumFunctionOnSet(f, T)
             Bad == {T \in SUBSET S : \E y \in T : Sum(T) # Sum(T \ {y}) + f[y]}
  <1>1. \A T \in SUBSET S : IsFiniteSet(T) /\ Sum(T) \in Int
    BY FS_Subset, SumInt
  <1>2. \A T \in SUBSET S : T # {} => Sum(T) = f[Pick(T)] + Sum(T \ {Pick(T)})
    BY <1>1, SumUnfolds
  <1> HIDE DEF Sum
  <1>3. SUFFICES ASSUME Bad # {} PROVE FALSE
    BY DEF Sum
  <1>4. PICK T \in Bad : \A y \in T : T \ {y} \notin Bad
    <2>1. Bad \subseteq SUBSET S
      OBVIOUS
    <2> HIDE DEF Bad
    <2> QED BY <1>3, <2>1, SetMinimal
  <1>5. PICK y \in T : Sum(T) # Sum(T \ {y}) + f[y]
    BY <1>4
  <1> DEFINE p == Pick(T)
  <1>6. p \in T
    BY <1>5 DEF Pick
  <1>7. Sum(T) = f[p] + Sum(T \ {p})
    BY <1>2, <1>4, <1>6
  <1> HIDE DEF p
  <1>8. f[p] \in Int /\ f[y] \in Int /\ T \ {p} \in SUBSET S /\ T \ {y} \in SUBSET S
        /\ (T \ {p}) \ {y} \in SUBSET S
    BY <1>4, <1>5, <1>6
  <1>9. p # y
    BY <1>1, <1>5, <1>7, <1>8
  <1>10. Sum(T \ {p}) = Sum((T \ {p}) \ {y}) + f[y]
    BY <1>4, <1>5, <1>6, <1>8, <1>9
  <1>11. Sum(T \ {y}) = Sum((T \ {y}) \ {p}) + f[p]
    BY <1>4, <1>5, <1>6, <1>8, <1>9
  <1>12. (T \ {y}) \ {p} = (T \ {p}) \ {y}
    OBVIOUS
  <1>13. /\ Sum(T) \in Int /\ Sum(T \ {p}) \in Int /\ Sum(T \ {y}) \in Int
         /\ Sum((T \ {p}) \ {y}) \in Int
    BY <1>1, <1>4, <1>8
  <1>14. Sum((T \ {y}) \ {p}) = Sum((T \ {p}) \ {y})
    BY <1>12
  <1> QED BY <1>5, <1>7, <1>8, <1>10, <1>11, <1>13, <1>14

(* One element more.                                                       *)
LEMMA SumAdd ==
  ASSUME NEW f, NEW S, IsFiniteSet(S), NEW x, x \notin S, f[x] \in Int,
         \A y \in S : f[y] \in Int
  PROVE  SumFunctionOnSet(f, S \cup {x}) = SumFunctionOnSet(f, S) + f[x]
  <1>1. IsFiniteSet(S \cup {x}) /\ (S \cup {x}) \ {x} = S
    BY FS_AddElement
  <1> QED BY <1>1, SumRemove

(* Equal values have equal sums.                                           *)
LEMMA SumSame ==
  ASSUME NEW f, NEW g, NEW S, IsFiniteSet(S), \A x \in S : f[x] = g[x]
  PROVE  SumFunctionOnSet(f, S) = SumFunctionOnSet(g, S)
  <1> DEFINE Bad == {T \in SUBSET S : ~(SumFunctionOnSet(f, T) = SumFunctionOnSet(g, T))}
  <1>1. SUFFICES ASSUME Bad # {} PROVE FALSE
    OBVIOUS
  <1>2. PICK T \in Bad : \A x \in T : T \ {x} \notin Bad
    <2>1. Bad \subseteq SUBSET S
      OBVIOUS
    <2> HIDE DEF Bad
    <2> QED BY <1>1, <2>1, SetMinimal
  <1>3. T \in SUBSET S /\ ~(SumFunctionOnSet(f, T) = SumFunctionOnSet(g, T))
    BY <1>2
  <1>4. IsFiniteSet(T)
    BY <1>3, FS_Subset
  <1>5. T # {}
    BY <1>3, SumEmpty
  <1>6. Pick(T) \in T
    BY <1>5 DEF Pick
  <1>7. SumFunctionOnSet(f, T \ {Pick(T)}) = SumFunctionOnSet(g, T \ {Pick(T)})
    BY <1>2, <1>3, <1>6
  <1> QED BY <1>3, <1>4, <1>5, <1>6, <1>7, SumUnfolds

(* One value changes.                                                      *)
LEMMA SumChange ==
  ASSUME NEW f, NEW g, NEW S, IsFiniteSet(S), NEW x \in S,
         \A y \in S : f[y] \in Int /\ g[y] \in Int,
         \A y \in S \ {x} : f[y] = g[y]
  PROVE  SumFunctionOnSet(g, S) = SumFunctionOnSet(f, S) + g[x] - f[x]
  <1>1. IsFiniteSet(S \ {x})
    BY FS_RemoveElement
  <1>2. SumFunctionOnSet(f, S \ {x}) = SumFunctionOnSet(g, S \ {x})
    BY <1>1, SumSame
  <1>3. SumFunctionOnSet(f, S \ {x}) \in Int
    BY <1>1, SumInt
  <1>4. SumFunctionOnSet(f, S) = SumFunctionOnSet(f, S \ {x}) + f[x]
    BY SumRemove
  <1>5. SumFunctionOnSet(g, S) = SumFunctionOnSet(g, S \ {x}) + g[x]
    BY SumRemove
  <1> QED BY <1>2, <1>3, <1>4, <1>5

(* Natural numbers add up to one.                                          *)
LEMMA SumNat ==
  ASSUME NEW f, NEW S, IsFiniteSet(S), \A x \in S : f[x] \in Nat
  PROVE  SumFunctionOnSet(f, S) \in Nat
  <1> DEFINE Bad == {T \in SUBSET S : ~(SumFunctionOnSet(f, T) \in Nat)}
  <1>1. SUFFICES ASSUME Bad # {} PROVE FALSE
    OBVIOUS
  <1>2. PICK T \in Bad : \A x \in T : T \ {x} \notin Bad
    <2>1. Bad \subseteq SUBSET S
      OBVIOUS
    <2> HIDE DEF Bad
    <2> QED BY <1>1, <2>1, SetMinimal
  <1>3. T \in SUBSET S /\ ~(SumFunctionOnSet(f, T) \in Nat)
    BY <1>2
  <1>4. IsFiniteSet(T)
    BY <1>3, FS_Subset
  <1>5. T # {}
    BY <1>3, SumEmpty
  <1>6. Pick(T) \in T
    BY <1>5 DEF Pick
  <1>7. SumFunctionOnSet(f, T \ {Pick(T)}) \in Nat
    BY <1>2, <1>3, <1>6
  <1> QED BY <1>3, <1>4, <1>5, <1>6, <1>7, SumUnfolds

(* Zeros add up to zero.                                                   *)
LEMMA SumZero ==
  ASSUME NEW f, NEW S, IsFiniteSet(S), \A x \in S : f[x] = 0
  PROVE  SumFunctionOnSet(f, S) = 0
  <1> DEFINE Bad == {T \in SUBSET S : ~(SumFunctionOnSet(f, T) = 0)}
  <1>1. SUFFICES ASSUME Bad # {} PROVE FALSE
    OBVIOUS
  <1>2. PICK T \in Bad : \A x \in T : T \ {x} \notin Bad
    <2>1. Bad \subseteq SUBSET S
      OBVIOUS
    <2> HIDE DEF Bad
    <2> QED BY <1>1, <2>1, SetMinimal
  <1>3. T \in SUBSET S /\ ~(SumFunctionOnSet(f, T) = 0)
    BY <1>2
  <1>4. IsFiniteSet(T)
    BY <1>3, FS_Subset
  <1>5. T # {}
    BY <1>3, SumEmpty
  <1>6. Pick(T) \in T
    BY <1>5 DEF Pick
  <1>7. SumFunctionOnSet(f, T \ {Pick(T)}) = 0
    BY <1>2, <1>3, <1>6
  <1> QED BY <1>3, <1>4, <1>5, <1>6, <1>7, SumUnfolds

(* A sum of smaller values is smaller.                                     *)
LEMMA SumBelow ==
  ASSUME NEW f, NEW g, NEW S, IsFiniteSet(S),
         \A x \in S : f[x] \in Int /\ g[x] \in Int /\ f[x] <= g[x]
  PROVE  SumFunctionOnSet(f, S) <= SumFunctionOnSet(g, S)
  <1> DEFINE Bad == {T \in SUBSET S : ~(SumFunctionOnSet(f, T) <= SumFunctionOnSet(g, T))}
  <1>1. SUFFICES ASSUME Bad # {} PROVE FALSE
    OBVIOUS
  <1>2. PICK T \in Bad : \A x \in T : T \ {x} \notin Bad
    <2>1. Bad \subseteq SUBSET S
      OBVIOUS
    <2> HIDE DEF Bad
    <2> QED BY <1>1, <2>1, SetMinimal
  <1>3. T \in SUBSET S /\ ~(SumFunctionOnSet(f, T) <= SumFunctionOnSet(g, T))
    BY <1>2
  <1>4. IsFiniteSet(T)
    BY <1>3, FS_Subset
  <1>5. T # {}
    BY <1>3, SumEmpty
  <1>6. Pick(T) \in T /\ T \ {Pick(T)} \in SUBSET S
    BY <1>3, <1>5 DEF Pick
  <1>7. SumFunctionOnSet(f, T \ {Pick(T)}) <= SumFunctionOnSet(g, T \ {Pick(T)})
    BY <1>2, <1>6
  <1>8. IsFiniteSet(T \ {Pick(T)})
    BY <1>4, FS_Subset
  <1>9. /\ SumFunctionOnSet(f, T \ {Pick(T)}) \in Int
        /\ SumFunctionOnSet(g, T \ {Pick(T)}) \in Int
    BY <1>6, <1>8, SumInt
  <1>10. /\ SumFunctionOnSet(f, T) = f[Pick(T)] + SumFunctionOnSet(f, T \ {Pick(T)})
         /\ SumFunctionOnSet(g, T) = g[Pick(T)] + SumFunctionOnSet(g, T \ {Pick(T)})
    BY <1>4, <1>5, SumUnfolds
  <1>11. f[Pick(T)] \in Int /\ g[Pick(T)] \in Int /\ f[Pick(T)] <= g[Pick(T)]
    BY <1>3, <1>6
  <1> QED BY <1>3, <1>7, <1>9, <1>10, <1>11

(* The sum of two sets that are apart.                                     *)
LEMMA SumUnion ==
  ASSUME NEW f, NEW S, IsFiniteSet(S), NEW R, IsFiniteSet(R), R \cap S = {},
         \A x \in S \cup R : f[x] \in Int
  PROVE  SumFunctionOnSet(f, R \cup S) = SumFunctionOnSet(f, R) + SumFunctionOnSet(f, S)
  <1> DEFINE Bad == {T \in SUBSET S : ~(SumFunctionOnSet(f, R \cup T) = SumFunctionOnSet(f, R) + SumFunctionOnSet(f, T))}
  <1>1. SUFFICES ASSUME Bad # {} PROVE FALSE
    OBVIOUS
  <1>2. PICK T \in Bad : \A x \in T : T \ {x} \notin Bad
    <2>1. Bad \subseteq SUBSET S
      OBVIOUS
    <2> HIDE DEF Bad
    <2> QED BY <1>1, <2>1, SetMinimal
  <1>3. T \in SUBSET S /\ ~(SumFunctionOnSet(f, R \cup T) = SumFunctionOnSet(f, R) + SumFunctionOnSet(f, T))
    BY <1>2
  <1>4. IsFiniteSet(T)
    BY <1>3, FS_Subset
  <1>5. SumFunctionOnSet(f, R) \in Int
    BY SumInt
  <1>6. T # {}
    <2>1. SUFFICES ASSUME T = {} PROVE FALSE
      OBVIOUS
    <2>2. SumFunctionOnSet(f, T) = 0
      BY <2>1, SumEmpty
    <2>3. R \cup T = R
      BY <2>1
    <2>4. SumFunctionOnSet(f, R \cup T) = SumFunctionOnSet(f, R)
      BY <2>3
    <2> QED BY <1>3, <1>5, <2>2, <2>4
  <1>7. PICK x \in T : TRUE
    BY <1>6
  <1>8. T \ {x} \in SUBSET S /\ T \ {x} \notin Bad
    BY <1>2, <1>3, <1>7
  <1>9. SumFunctionOnSet(f, R \cup (T \ {x}))
          = SumFunctionOnSet(f, R) + SumFunctionOnSet(f, T \ {x})
    BY <1>8
  <1>10. IsFiniteSet(R \cup T) /\ (R \cup T) \ {x} = R \cup (T \ {x})
    BY <1>3, <1>4, <1>7, FS_Union
  <1>11. SumFunctionOnSet(f, R \cup T) = SumFunctionOnSet(f, R \cup (T \ {x})) + f[x]
    <2>1. SumFunctionOnSet(f, R \cup T) = SumFunctionOnSet(f, (R \cup T) \ {x}) + f[x]
      BY <1>3, <1>7, <1>10, SumRemove
    <2>2. SumFunctionOnSet(f, (R \cup T) \ {x}) = SumFunctionOnSet(f, R \cup (T \ {x}))
      BY <1>10
    <2> QED BY <2>1, <2>2
  <1>12. SumFunctionOnSet(f, T) = SumFunctionOnSet(f, T \ {x}) + f[x]
    BY <1>3, <1>4, <1>7, SumRemove
  <1>13. SumFunctionOnSet(f, T \ {x}) \in Int /\ f[x] \in Int
    BY <1>3, <1>4, <1>7, <1>8, FS_Subset, SumInt
  <1> QED BY <1>3, <1>5, <1>9, <1>11, <1>12, <1>13

(* Values of zero change no sum.                                           *)
LEMMA SumExtend ==
  ASSUME NEW f, NEW S, IsFiniteSet(S), NEW T \in SUBSET S,
         \A x \in S : f[x] \in Int, \A x \in S \ T : f[x] = 0
  PROVE  SumFunctionOnSet(f, T) = SumFunctionOnSet(f, S)
  <1>1. IsFiniteSet(T) /\ IsFiniteSet(S \ T) /\ T \cup (S \ T) = S /\ T \cap (S \ T) = {}
    BY FS_Subset
  <1>2. SumFunctionOnSet(f, S \ T) = 0 /\ SumFunctionOnSet(f, T) \in Int
    BY <1>1, SumZero, SumInt
  <1>3. SumFunctionOnSet(f, T \cup (S \ T)) = SumFunctionOnSet(f, T) + SumFunctionOnSet(f, S \ T)
    BY <1>1, SumUnion
  <1>4. SumFunctionOnSet(f, T \cup (S \ T)) = SumFunctionOnSet(f, S)
    BY <1>1
  <1> QED BY <1>2, <1>3, <1>4

(* A part of natural numbers adds up to no more.                           *)
LEMMA SumPart ==
  ASSUME NEW f, NEW S, IsFiniteSet(S), NEW T \in SUBSET S, \A x \in S : f[x] \in Nat
  PROVE  SumFunctionOnSet(f, T) <= SumFunctionOnSet(f, S)
  <1>1. IsFiniteSet(T) /\ IsFiniteSet(S \ T) /\ T \cup (S \ T) = S /\ T \cap (S \ T) = {}
    BY FS_Subset
  <1>2. SumFunctionOnSet(f, S \ T) \in Nat /\ SumFunctionOnSet(f, T) \in Nat
    BY <1>1, SumNat
  <1>3. SumFunctionOnSet(f, T \cup (S \ T)) = SumFunctionOnSet(f, T) + SumFunctionOnSet(f, S \ T)
    BY <1>1, SumUnion
  <1>4. SumFunctionOnSet(f, T \cup (S \ T)) = SumFunctionOnSet(f, S)
    BY <1>1
  <1> QED BY <1>2, <1>3, <1>4

(* A sum of equal terms is a product.                                       *)
LEMMA SumConstant ==
  ASSUME NEW f, NEW S, IsFiniteSet(S), NEW c \in Int, \A x \in S : f[x] = c
  PROVE  SumFunctionOnSet(f, S) = Cardinality(S) * c
  <1> DEFINE G == {T \in SUBSET S : SumFunctionOnSet(f, T) = Cardinality(T) * c}
  <1>1. {} \in G
    BY SumEmpty, FS_EmptySet
  <1>2. ASSUME NEW T \in SUBSET S, NEW x \in S \ T, T \in G PROVE T \cup {x} \in G
    <2>1. IsFiniteSet(T) /\ Cardinality(T) \in Nat
      BY FS_Subset, FS_CardinalityType
    <2>2. SumFunctionOnSet(f, T \cup {x}) = SumFunctionOnSet(f, T) + f[x]
      BY <2>1, SumAdd
    <2>3. Cardinality(T \cup {x}) = Cardinality(T) + 1
      BY <2>1, FS_AddElement
    <2>4. SumFunctionOnSet(f, T) = Cardinality(T) * c
      BY <1>2
    <2>5. (Cardinality(T) + 1) * c = Cardinality(T) * c + c
      BY <2>1
    <2>6. SumFunctionOnSet(f, T \cup {x}) = Cardinality(T \cup {x}) * c
      BY <2>2, <2>3, <2>4, <2>5
    <2> QED BY <2>6
  <1> HIDE DEF G
  <1>3. SUBSET S \subseteq G
    BY <1>1, <1>2, SetInduction
  <1> QED BY <1>3 DEF G

(* The sum of a sum of two functions.                                       *)
LEMMA SumPlus ==
  ASSUME NEW f, NEW g, NEW h, NEW S, IsFiniteSet(S),
         \A x \in S : f[x] \in Int /\ g[x] \in Int /\ h[x] = f[x] + g[x]
  PROVE  SumFunctionOnSet(h, S) = SumFunctionOnSet(f, S) + SumFunctionOnSet(g, S)
  <1> DEFINE G == {T \in SUBSET S : SumFunctionOnSet(h, T) =
                      SumFunctionOnSet(f, T) + SumFunctionOnSet(g, T)}
  <1>1. {} \in G
    BY SumEmpty
  <1>2. ASSUME NEW T \in SUBSET S, NEW x \in S \ T, T \in G PROVE T \cup {x} \in G
    <2>1. IsFiniteSet(T) /\ \A y \in T : f[y] \in Int /\ g[y] \in Int /\ h[y] \in Int
      BY FS_Subset
    <2>2. /\ SumFunctionOnSet(f, T \cup {x}) = SumFunctionOnSet(f, T) + f[x]
          /\ SumFunctionOnSet(g, T \cup {x}) = SumFunctionOnSet(g, T) + g[x]
          /\ SumFunctionOnSet(h, T \cup {x}) = SumFunctionOnSet(h, T) + h[x]
      BY <2>1, SumAdd
    <2>3. SumFunctionOnSet(f, T) \in Int /\ SumFunctionOnSet(g, T) \in Int
      BY <2>1, SumInt
    <2>4. SumFunctionOnSet(h, T) = SumFunctionOnSet(f, T) + SumFunctionOnSet(g, T)
      BY <1>2
    <2>5. SumFunctionOnSet(h, T \cup {x}) =
             SumFunctionOnSet(f, T \cup {x}) + SumFunctionOnSet(g, T \cup {x})
      BY <2>2, <2>3, <2>4
    <2> QED BY <2>5
  <1> HIDE DEF G
  <1>3. SUBSET S \subseteq G
    BY <1>1, <1>2, SetInduction
  <1> QED BY <1>3 DEF G

(* A sum over a renamed index set.                                          *)
LEMMA SumRenamed ==
  ASSUME NEW f, NEW g, NEW b, NEW S, IsFiniteSet(S),
         \A x \in S : f[x] \in Int /\ g[b[x]] = f[x],
         \A x, y \in S : b[x] = b[y] => x = y
  PROVE  /\ IsFiniteSet({b[x] : x \in S})
         /\ SumFunctionOnSet(g, {b[x] : x \in S}) = SumFunctionOnSet(f, S)
  <1> DEFINE Im(T) == {b[x] : x \in T}
             G == {T \in SUBSET S : /\ IsFiniteSet(Im(T))
                                    /\ SumFunctionOnSet(g, Im(T)) = SumFunctionOnSet(f, T)}
  <1>1. {} \in G
    <2>1. Im({}) = {}
      OBVIOUS
    <2> QED BY <2>1, SumEmpty, FS_EmptySet
  <1>2. ASSUME NEW T \in SUBSET S, NEW x \in S \ T, T \in G PROVE T \cup {x} \in G
    <2>1. /\ Im(T \cup {x}) = Im(T) \cup {b[x]}
          /\ b[x] \notin Im(T)
          /\ \A z \in Im(T) : g[z] \in Int
          /\ g[b[x]] \in Int /\ g[b[x]] = f[x]
      OBVIOUS
    <2>2. IsFiniteSet(T) /\ IsFiniteSet(Im(T))
          /\ SumFunctionOnSet(g, Im(T)) = SumFunctionOnSet(f, T)
      BY <1>2, FS_Subset
    <2> HIDE DEF Im
    <2>3. SumFunctionOnSet(f, T \cup {x}) = SumFunctionOnSet(f, T) + f[x]
      BY <2>2, SumAdd
    <2>4. SumFunctionOnSet(g, Im(T) \cup {b[x]}) = SumFunctionOnSet(g, Im(T)) + g[b[x]]
      BY <2>1, <2>2, SumAdd
    <2>5. IsFiniteSet(Im(T) \cup {b[x]})
      BY <2>2, FS_AddElement
    <2> QED BY <2>1, <2>2, <2>3, <2>4, <2>5
  <1> HIDE DEF G
  <1>3. SUBSET S \subseteq G
    BY <1>1, <1>2, SetInduction
  <1> QED BY <1>3 DEF G

(* A finite set of indices has a bound that all its numbers are below.      *)
LEMMA NumbersBounded ==
  ASSUME NEW f, NEW S, IsFiniteSet(S), \A x \in S : f[x] \in Nat
  PROVE  \E n \in Nat : \A x \in S : f[x] < n
  <1> DEFINE G == {T \in SUBSET S : \E n \in Nat : \A x \in T : f[x] < n}
  <1>1. {} \in G
    OBVIOUS
  <1>2. ASSUME NEW T \in SUBSET S, NEW x \in S \ T, T \in G PROVE T \cup {x} \in G
    <2>1. PICK n \in Nat : \A y \in T : f[y] < n
      BY <1>2
    <2> DEFINE k == IF f[x] < n THEN n ELSE f[x] + 1
    <2>2. k \in Nat /\ \A y \in T \cup {x} : f[y] < k
      BY <2>1
    <2> HIDE DEF k
    <2> QED BY <2>2
  <1> HIDE DEF G
  <1>3. SUBSET S \subseteq G
    BY <1>1, <1>2, SetInduction
  <1> QED BY <1>3 DEF G

(* A finite set that R orders totally has a last element.                   *)
LEMMA LastElement ==
  ASSUME NEW R, NEW S, IsFiniteSet(S), S # {},
         \A x, y, z \in S : <<x, y>> \in R /\ <<y, z>> \in R => <<x, z>> \in R,
         \A x, y \in S : x # y => <<x, y>> \in R \/ <<y, x>> \in R
  PROVE  \E x \in S : \A y \in S \ {x} : <<y, x>> \in R
  <1> DEFINE G == {T \in SUBSET S :
                     T # {} => \E x \in T : \A y \in T \ {x} : <<y, x>> \in R}
  <1>1. {} \in G
    OBVIOUS
  <1>2. ASSUME NEW T \in SUBSET S, NEW x \in S \ T, T \in G PROVE T \cup {x} \in G
    <2>1. CASE T = {}
      <3>1. x \in T \cup {x} /\ \A y \in (T \cup {x}) \ {x} : <<y, x>> \in R
        BY <2>1
      <3> QED BY <3>1
    <2>2. CASE T # {}
      <3>1. PICK z \in T : \A y \in T \ {z} : <<y, z>> \in R
        BY <1>2, <2>2
      <3>2. CASE <<x, z>> \in R
        <4>1. z \in T \cup {x} /\ \A y \in (T \cup {x}) \ {z} : <<y, z>> \in R
          BY <3>1, <3>2
        <4> QED BY <4>1
      <3>3. CASE <<z, x>> \in R
        <4>1. x \in T \cup {x} /\ \A y \in (T \cup {x}) \ {x} : <<y, x>> \in R
          BY <3>1, <3>3
        <4> QED BY <4>1
      <3> QED BY <3>2, <3>3
    <2> QED BY <2>1, <2>2
  <1> HIDE DEF G
  <1>3. SUBSET S \subseteq G
    BY <1>1, <1>2, SetInduction
  <1> QED BY <1>3 DEF G

(* A relation that orders a set totally and strictly, the place that each   *)
(* element has in it (how many come before), and places 0, 1, ... that are  *)
(* each taken by one element.                                               *)
StrictlyOrders(R, S) ==
    /\ \A x, y, z \in S : <<x, y>> \in R /\ <<y, z>> \in R => <<x, z>> \in R
    /\ \A x, y \in S : x # y => <<x, y>> \in R \/ <<y, x>> \in R
    /\ \A x \in S : <<x, x>> \notin R
PlacedBy(place, R, S) ==
    \A x \in S : place[x] = Cardinality({y \in S : <<y, x>> \in R})
PlacesTaken(place, S) ==
    /\ \A x \in S : place[x] \in 0..(Cardinality(S) - 1)
    /\ \A x, y \in S : place[x] = place[y] => x = y
    /\ \A i \in 0..(Cardinality(S) - 1) : \E x \in S : place[x] = i

(* Every place of a finite ordered set is taken, by one element.            *)
LEMMA PlacesOfOrder ==
  ASSUME NEW R, NEW S, IsFiniteSet(S), NEW place,
         StrictlyOrders(R, S), PlacedBy(place, R, S)
  PROVE  PlacesTaken(place, S)
  <1> DEFINE before(x) == {y \in S : <<y, x>> \in R}
             n == Cardinality(S)
  <1>0. \A x \in S : place[x] = Cardinality(before(x))
    BY DEF PlacedBy
  <1>8. /\ \A x, y, z \in S : <<x, y>> \in R /\ <<y, z>> \in R => <<x, z>> \in R
        /\ \A x, y \in S : x # y => <<x, y>> \in R \/ <<y, x>> \in R
        /\ \A x \in S : <<x, x>> \notin R
    BY DEF StrictlyOrders
  <1>1. n \in Nat
    BY FS_CardinalityType
  <1>2. \A x \in S : /\ IsFiniteSet(before(x)) /\ place[x] = Cardinality(before(x))
                     /\ place[x] \in Nat
    <2>1. \A x \in S : IsFiniteSet(before(x))
      BY FS_Subset
    <2> HIDE DEF before
    <2>2. \A x \in S : Cardinality(before(x)) \in Nat
      BY <2>1, FS_CardinalityType
    <2> QED BY <1>0, <2>1, <2>2 DEF before
  <1>3. ASSUME NEW x \in S PROVE place[x] <= n - 1
    <2>1. before(x) \subseteq S \ {x}
      BY <1>8
    <2>2. IsFiniteSet(S \ {x}) /\ Cardinality(S \ {x}) = n - 1
      BY FS_RemoveElement
    <2> HIDE DEF before, n
    <2>3. Cardinality(before(x)) <= Cardinality(S \ {x})
      BY <2>1, <2>2, FS_Subset
    <2> QED BY <1>2, <2>2, <2>3
  <1>4. ASSUME NEW x \in S, NEW y \in S, <<x, y>> \in R PROVE place[x] < place[y]
    <2>1. before(x) \subseteq before(y) \ {x} /\ x \in before(y)
      BY <1>4, <1>8
    <2> HIDE DEF before
    <2>2. IsFiniteSet(before(y)) /\ IsFiniteSet(before(x))
          /\ place[y] \in Nat /\ place[x] \in Nat
          /\ place[y] = Cardinality(before(y)) /\ place[x] = Cardinality(before(x))
      BY <1>2
    <2>3. /\ IsFiniteSet(before(y) \ {x})
          /\ Cardinality(before(y) \ {x}) = Cardinality(before(y)) - 1
      BY <2>1, <2>2, FS_RemoveElement
    <2>4. Cardinality(before(x)) <= Cardinality(before(y) \ {x})
      BY <2>1, <2>3, FS_Subset
    <2> QED BY <2>2, <2>3, <2>4
  <1>5. ASSUME NEW x \in S, NEW y \in S, place[x] = place[y] PROVE x = y
    <2>1. SUFFICES ASSUME x # y PROVE FALSE
      OBVIOUS
    <2>2. <<x, y>> \in R \/ <<y, x>> \in R
      BY <1>8, <2>1
    <2>3. place[x] < place[y] \/ place[y] < place[x]
      BY <1>4, <2>2
    <2>4. place[x] \in Nat /\ place[y] \in Nat
      BY <1>2
    <2> QED BY <1>5, <2>3, <2>4
  <1>6. ASSUME NEW x \in S PROVE place[x] \in 0..(n - 1)
    <2>1. place[x] \in Nat /\ place[x] <= n - 1
      BY <1>2, <1>3
    <2> HIDE DEF n, before
    <2> QED BY <1>1, <2>1
  <1>7. ASSUME NEW i \in 0..(n - 1) PROVE \E x \in S : place[x] = i
    <2> DEFINE f == [x \in S |-> place[x]]
    <2>1. f \in Injection(S, 0..(n - 1))
      BY <1>5, <1>6 DEF Injection, IsInjective
    <2>2. IsFiniteSet(0..(n - 1)) /\ Cardinality(0..(n - 1)) = n
      <3>1. 0 \in Int /\ n - 1 \in Int
        BY <1>1
      <3>2. Cardinality(0..(n - 1)) = IF 0 > n - 1 THEN 0 ELSE (n - 1) - 0 + 1
        BY <3>1, FS_Interval
      <3>3. IsFiniteSet(0..(n - 1))
        BY <3>1, FS_Interval
      <3> QED BY <1>1, <3>2, <3>3
    <2> HIDE DEF f
    <2>3. f \in Surjection(S, 0..(n - 1))
      BY <2>1, <2>2, FS_Injection
    <2> QED BY <2>3 DEF Surjection, f
  <1> QED BY <1>5, <1>6, <1>7 DEF PlacesTaken

=============================================================================
