---------------------------- MODULE DataInduction ----------------------------
(***************************************************************************)
(* Induction over data for the proof modules.  An induction theorem with   *)
(* the statement as its parameter cannot be instantiated by the provers;   *)
(* a minimal counterexample is a set of numbers, and can.  From it follow  *)
(* that a recursive function over 0..n exists, and what its values are.    *)
(***************************************************************************)
EXTENDS Integers, FiniteSets, Functions, FiniteSetTheorems, TLAPS

\* A set of naturals that is not empty has a least element: among the segments
\* 0..n of its elements one has no other as a proper subset.
LEMMA NatMin ==
  ASSUME NEW T \in SUBSET Nat, T # {}
  PROVE  \E m \in T : \A k \in T : m <= k
<1> DEFINE Segments == {0..n : n \in T}
<1>1. Segments \subseteq FiniteSubsetsOf(Nat)
  <2> SUFFICES ASSUME NEW n \in T PROVE 0..n \in FiniteSubsetsOf(Nat) OBVIOUS
  <2>1. IsFiniteSet(0..n) BY FS_Interval
  <2> QED BY <2>1 DEF FiniteSubsetsOf
<1>2. Segments # {} OBVIOUS
<1>3. PICK A \in Segments : \A B \in Segments : <<B, A>> \notin StrictSubsetOrdering(Nat)
  BY <1>1, <1>2, FS_StrictSubsetOrderingWellFounded, WFMin
<1>4. PICK m \in T : A = 0..m OBVIOUS
<1>5. ASSUME NEW k \in T, k < m PROVE FALSE
  <2>1. 0..k \in Segments OBVIOUS
  <2>2. 0..k \subseteq 0..m /\ m \in 0..m /\ m \notin 0..k BY <1>5
  <2>3. <<0..k, A>> \in StrictSubsetOrdering(Nat)
    BY <1>4, <2>2 DEF StrictSubsetOrdering
  <2> QED BY <1>3, <2>1, <2>3
<1> QED BY <1>5

-----------------------------------------------------------------------------
(* Functions defined from the value before *)

\* Step functions: the value at i from i and the value at i - 1.
StepFunctions(n, V) == [(1..n) \X V -> V]

Iterates(f, n, V, base, step) ==
  f \in [0..n -> V] /\ f[0] = base /\ \A i \in 1..n : f[i] = step[<<i, f[i - 1]>>]

\* A function over 0..n may be defined from its value at 0 and a step: the least
\* m up to which there is none would be one more than an m up to which there is.
LEMMA Recursion ==
  ASSUME NEW n \in Nat, NEW V, NEW base \in V, NEW step \in StepFunctions(n, V)
  PROVE  \E f : Iterates(f, n, V, base, step)
<1> USE DEF StepFunctions, Iterates
<1> DEFINE Upto(m) == {f \in [0..m -> V] : f[0] = base /\ \A i \in 1..m : f[i] = step[<<i, f[i - 1]>>]}
           Undefined == {m \in 0..n : Upto(m) = {}}
<1>1. SUFFICES ASSUME Upto(n) = {} PROVE FALSE OBVIOUS
<1>2. PICK m \in Undefined : \A k \in Undefined : m <= k
  <2>1. n \in Undefined BY <1>1
  <2>2. Undefined \subseteq Nat OBVIOUS
  <2> QED BY <2>1, <2>2, NatMin
<1>3. m # 0
  <2>1. [i \in 0..0 |-> base] \in Upto(0) OBVIOUS
  <2> QED BY <1>2, <2>1
<1>4. m \in 1..n /\ m - 1 \in 0..n /\ m - 1 < m BY <1>2, <1>3
<1>5. PICK f : f \in Upto(m - 1) BY <1>2, <1>4
<1> DEFINE g == [i \in 0..m |-> IF i = m THEN step[<<m, f[m - 1]>>] ELSE f[i]]
<1>6. g \in [0..m -> V]
  <2>1. f \in [0..(m - 1) -> V] BY <1>5
  <2>2. step[<<m, f[m - 1]>>] \in V BY <1>4, <2>1
  <2>3. \A i \in 0..m : i # m => f[i] \in V BY <1>4, <2>1
  <2> QED BY <2>2, <2>3
<1>7. g[0] = base BY <1>4, <1>5
<1>8. \A i \in 1..m : g[i] = step[<<i, g[i - 1]>>]
  <2> TAKE i \in 1..m
  <2>1. CASE i = m
    <3>1. g[m] = step[<<m, f[m - 1]>>] /\ g[m - 1] = f[m - 1] BY <1>4
    <3> QED BY <2>1, <3>1
  <2>2. CASE i # m
    <3>1. i \in 1..(m - 1) /\ g[i] = f[i] /\ g[i - 1] = f[i - 1] BY <1>4, <2>2
    <3> QED BY <1>5, <3>1
  <2> QED BY <2>1, <2>2
<1>9. g \in Upto(m) BY <1>6, <1>7, <1>8
<1> QED BY <1>2, <1>9

-----------------------------------------------------------------------------
(* Sums over finite sets *)

\* A nonempty collection of subsets of a finite set has one that includes no other.
LEMMA SubsetMin ==
  ASSUME NEW S, IsFiniteSet(S), NEW C \in SUBSET (SUBSET S), C # {}
  PROVE  \E A \in C : \A B \in C : B \subseteq A => B = A
<1>1. C \subseteq FiniteSubsetsOf(S)
  <2>1. \A A \in C : IsFiniteSet(A) BY FS_Subset
  <2> QED BY <2>1 DEF FiniteSubsetsOf
<1>2. PICK A \in C : \A B \in C : <<B, A>> \notin StrictSubsetOrdering(S)
  BY <1>1, FS_StrictSubsetOrderingWellFounded, WFMin
<1>3. ASSUME NEW B \in C, B \subseteq A, B # A PROVE FALSE
  BY <1>2, <1>3 DEF StrictSubsetOrdering
<1> QED BY <1>3

Chosen(s) == CHOOSE x \in s : TRUE

\* The sum over a set from the sum over the set without its first element.
SumStep(f, g, s) == IF s = {} THEN 0 ELSE f[Chosen(s)] + g[s \ {Chosen(s)}]

\* A function from the subsets of S to the sums of f over them.
PartialSums(f, g, S) ==
  g \in [SUBSET S -> Int] /\ \A s \in SUBSET S : g[s] = SumStep(f, g, s)

LEMMA SumStepTyped ==
  ASSUME NEW S, NEW f \in [S -> Int], NEW g \in [SUBSET S -> Int], NEW s \in SUBSET S
  PROVE  SumStep(f, g, s) \in Int
<1>1. CASE s = {} BY <1>1 DEF SumStep
<1>2. CASE s # {}
  <2>1. Chosen(s) \in s BY <1>2 DEF Chosen
  <2>2. f[Chosen(s)] \in Int BY <2>1
  <2>3. g[s \ {Chosen(s)}] \in Int OBVIOUS
  <2> QED BY <1>2, <2>2, <2>3 DEF SumStep
<1> QED BY <1>1, <1>2

\* There is one: the least number of elements up to which there is none would be
\* one more than a number up to which there is.
LEMMA PartialSumsExist ==
  ASSUME NEW S, IsFiniteSet(S), NEW f \in [S -> Int]
  PROVE  \E g : PartialSums(f, g, S)
<1> DEFINE Upto(n) == {g \in [SUBSET S -> Int] :
                         \A s \in SUBSET S : Cardinality(s) <= n => g[s] = SumStep(f, g, s)}
           Undefined == {n \in Nat : Upto(n) = {}}
<1>1. \A s \in SUBSET S : IsFiniteSet(s) /\ Cardinality(s) \in Nat
  BY FS_Subset, FS_CardinalityType
<1>2. Undefined = {}
  <2>1. SUFFICES ASSUME Undefined # {} PROVE FALSE OBVIOUS
  <2>2. PICK n \in Undefined : \A m \in Undefined : n <= m
    <3>1. Undefined \subseteq Nat OBVIOUS
    <3> QED BY <2>1, <3>1, NatMin
  <2>3. n # 0
    <3> DEFINE zero == [s \in SUBSET S |-> 0]
    <3>1. zero \in [SUBSET S -> Int] OBVIOUS
    <3>2. ASSUME NEW s \in SUBSET S, Cardinality(s) <= 0 PROVE zero[s] = SumStep(f, zero, s)
      <4>1. s = {} BY <1>1, <3>2, FS_EmptySet
      <4> QED BY <4>1 DEF SumStep
    <3>3. zero \in Upto(0) BY <3>1, <3>2
    <3> QED BY <2>2, <3>3
  <2>4. n - 1 \in Nat /\ ~(n <= n - 1) BY <2>2, <2>3
  <2>5. PICK g : g \in Upto(n - 1) BY <2>2, <2>4
  <2>6. g \in [SUBSET S -> Int] BY <2>5
  <2> DEFINE h == [s \in SUBSET S |-> SumStep(f, g, s)]
  <2>7. h \in [SUBSET S -> Int] BY <2>6, SumStepTyped
  <2>8. ASSUME NEW s \in SUBSET S, Cardinality(s) <= n PROVE h[s] = SumStep(f, h, s)
    <3>1. CASE s = {} BY <3>1 DEF SumStep
    <3>2. CASE s # {}
      <4> DEFINE t == s \ {Chosen(s)}
      <4>1. Chosen(s) \in s BY <3>2 DEF Chosen
      <4>2. Cardinality(t) = Cardinality(s) - 1 BY <1>1, <4>1, FS_RemoveElement
      <4>3. t \in SUBSET S /\ Cardinality(t) <= n - 1 BY <1>1, <2>2, <2>8, <4>2
      <4>4. g[t] = SumStep(f, g, t) BY <2>5, <4>3
      <4>5. h[t] = g[t] BY <4>3, <4>4
      <4> QED BY <3>2, <4>5 DEF SumStep
    <3> QED BY <3>1, <3>2
  <2>9. h \in Upto(n) BY <2>7, <2>8
  <2> QED BY <2>2, <2>9
<1>3. PICK g : g \in Upto(Cardinality(S)) BY <1>1, <1>2
<1>4. \A s \in SUBSET S : Cardinality(s) <= Cardinality(S) BY FS_Subset
<1> QED BY <1>3, <1>4 DEF PartialSums

\* SumFunction is the last of the partial sums.
LEMMA SumIsPartialSum ==
  ASSUME NEW S, IsFiniteSet(S), NEW f \in [S -> Int]
  PROVE  \E g : PartialSums(f, g, S) /\ SumFunction(f) = g[S]
<1> DEFINE Folded(g) == g = [s \in SUBSET S |-> SumStep(f, g, s)]
           sums == CHOOSE g : Folded(g)
<1>1. SumFunction(f) = sums[S]
  <2>1. DOMAIN f = S OBVIOUS
  <2> QED
    BY <2>1 DEF SumFunction, SumFunctionOnSet, FoldFunctionOnSet, MapThenFoldSet, SumStep, Chosen
<1>2. PICK g : PartialSums(f, g, S) BY PartialSumsExist
<1>3. Folded(g) BY <1>2 DEF PartialSums
<1>4. Folded(sums) BY <1>3
<1> HIDE DEF sums
<1>5. \A s \in SUBSET S : sums[s] = SumStep(f, sums, s) BY <1>4
<1>6. \A s \in SUBSET S : sums[s] \in Int
  <2> DEFINE Bad == {s \in SUBSET S : sums[s] \notin Int}
  <2>1. SUFFICES ASSUME Bad # {} PROVE FALSE OBVIOUS
  <2>2. PICK A \in Bad : \A B \in Bad : B \subseteq A => B = A
    <3>1. Bad \in SUBSET (SUBSET S) OBVIOUS
    <3> HIDE DEF Bad
    <3> QED BY <2>1, <3>1, SubsetMin
  <2>3. A # {}
    <3>1. sums[A] = SumStep(f, sums, A) /\ sums[A] \notin Int BY <1>5, <2>2
    <3> QED BY <3>1 DEF SumStep
  <2>4. Chosen(A) \in A BY <2>3 DEF Chosen
  <2>5. sums[A \ {Chosen(A)}] \in Int BY <2>2, <2>4
  <2>6. sums[A] = f[Chosen(A)] + sums[A \ {Chosen(A)}] BY <1>5, <2>2, <2>3 DEF SumStep
  <2>7. f[Chosen(A)] \in Int BY <2>2, <2>4
  <2> QED BY <2>2, <2>5, <2>6, <2>7
<1>7. sums \in [SUBSET S -> Int]
  <2>1. sums = [s \in SUBSET S |-> sums[s]] BY <1>4
  <2> QED BY <1>6, <2>1
<1>8. PartialSums(f, sums, S) BY <1>5, <1>7 DEF PartialSums
<1> QED BY <1>1, <1>8

\* Partial sums over a set depend on the values in it alone.
LEMMA PartialSumsAgree ==
  ASSUME NEW S, IsFiniteSet(S), NEW f \in [S -> Int], NEW g, PartialSums(f, g, S),
         NEW T \in SUBSET S, NEW h, PartialSums([x \in T |-> f[x]], h, T)
  PROVE  \A A \in SUBSET T : h[A] = g[A]
<1> DEFINE Bad == {A \in SUBSET T : h[A] # g[A]}
<1>1. SUFFICES ASSUME Bad # {} PROVE FALSE OBVIOUS
<1>2. PICK A \in Bad : \A B \in Bad : B \subseteq A => B = A
  <2>1. Bad \in SUBSET (SUBSET T) OBVIOUS
  <2>2. IsFiniteSet(T) BY FS_Subset
  <2> HIDE DEF Bad
  <2> QED BY <1>1, <2>1, <2>2, SubsetMin
<1>3. g[A] = SumStep(f, g, A) /\ h[A] = SumStep([x \in T |-> f[x]], h, A)
  BY <1>2 DEF PartialSums
<1>4. A # {} BY <1>2, <1>3 DEF SumStep
<1>5. Chosen(A) \in A BY <1>4 DEF Chosen
<1>6. h[A \ {Chosen(A)}] = g[A \ {Chosen(A)}] BY <1>2, <1>5
<1>7. [x \in T |-> f[x]][Chosen(A)] = f[Chosen(A)] BY <1>2, <1>5
<1> QED BY <1>2, <1>3, <1>4, <1>6, <1>7 DEF SumStep

\* Any element may be taken out of a partial sum first.
Removes(f, g, S) == \A A \in SUBSET S : \A x \in A : g[A] = f[x] + g[A \ {x}]

LEMMA PartialSumsRemove ==
  ASSUME NEW S, IsFiniteSet(S), NEW f \in [S -> Int], NEW g, PartialSums(f, g, S)
  PROVE  Removes(f, g, S)
<1> DEFINE Bad == {A \in SUBSET S : \E x \in A : g[A] # f[x] + g[A \ {x}]}
<1>1. SUFFICES ASSUME Bad # {} PROVE FALSE BY DEF Removes
<1>2. PICK A \in Bad : \A B \in Bad : B \subseteq A => B = A
  <2>1. Bad \in SUBSET (SUBSET S) OBVIOUS
  <2> HIDE DEF Bad
  <2> QED BY <1>1, <2>1, SubsetMin
<1>3. PICK x \in A : g[A] # f[x] + g[A \ {x}] BY <1>2
<1> DEFINE y == Chosen(A)
<1>4. y \in A BY <1>3 DEF Chosen
<1>5. g[A] = f[y] + g[A \ {y}] BY <1>2, <1>3 DEF PartialSums, SumStep
<1>6. x # y BY <1>3, <1>5
<1> HIDE DEF y
<1>7. A \ {y} \notin Bad /\ A \ {x} \notin Bad BY <1>2, <1>3, <1>4
<1>8. g[A \ {y}] = f[x] + g[(A \ {y}) \ {x}] BY <1>2, <1>3, <1>6, <1>7
<1>9. g[A \ {x}] = f[y] + g[(A \ {x}) \ {y}] BY <1>2, <1>4, <1>6, <1>7
<1>10. (A \ {y}) \ {x} = (A \ {x}) \ {y} OBVIOUS
<1>11. f[x] \in Int /\ f[y] \in Int /\ g[(A \ {x}) \ {y}] \in Int
  BY <1>2, <1>3, <1>4 DEF PartialSums
<1>12. g[A] = f[y] + (f[x] + g[(A \ {x}) \ {y}]) BY <1>5, <1>8, <1>10
<1>13. f[x] + g[A \ {x}] = f[x] + (f[y] + g[(A \ {x}) \ {y}]) BY <1>9
<1> QED BY <1>3, <1>11, <1>12, <1>13

\* The sum of a part of f is the partial sum over its domain.
LEMMA SumOfPart ==
  ASSUME NEW S, IsFiniteSet(S), NEW f \in [S -> Int], NEW g, PartialSums(f, g, S),
         NEW T \in SUBSET S, NEW h \in [T -> Int], \A x \in T : h[x] = f[x]
  PROVE  SumFunction(h) = g[T]
<1>1. IsFiniteSet(T) BY FS_Subset
<1>2. PICK k : PartialSums(h, k, T) /\ SumFunction(h) = k[T] BY <1>1, SumIsPartialSum
<1>3. h = [x \in T |-> f[x]] OBVIOUS
<1>4. PartialSums([x \in T |-> f[x]], k, T) BY <1>2, <1>3
<1>5. k[T] = g[T] BY <1>4, PartialSumsAgree
<1> QED BY <1>2, <1>5

LEMMA SumOverNone ==
  ASSUME NEW f \in [{} -> Int]
  PROVE  SumFunction(f) = 0
<1>1. IsFiniteSet({}) BY FS_EmptySet
<1>2. PICK g : PartialSums(f, g, {}) /\ SumFunction(f) = g[{}] BY <1>1, SumIsPartialSum
<1> QED BY <1>2 DEF PartialSums, SumStep

LEMMA SumTyped ==
  ASSUME NEW S, IsFiniteSet(S), NEW f \in [S -> Int]
  PROVE  SumFunction(f) \in Int
<1>1. PICK g : PartialSums(f, g, S) /\ SumFunction(f) = g[S] BY SumIsPartialSum
<1> QED BY <1>1 DEF PartialSums

\* Two functions have the same values on T.
Agree(f, g, T) == \A x \in T : f[x] = g[x]

\* One term may be taken out of a sum.
LEMMA SumRemove ==
  ASSUME NEW S, IsFiniteSet(S), NEW f \in [S -> Int], NEW x \in S,
         NEW h \in [S \ {x} -> Int], Agree(f, h, S \ {x})
  PROVE  SumFunction(f) = f[x] + SumFunction(h)
<1>1. PICK g : PartialSums(f, g, S) /\ SumFunction(f) = g[S] BY SumIsPartialSum
<1>2. SumFunction(h) = g[S \ {x}]
  <2>1. S \ {x} \in SUBSET S /\ \A y \in S \ {x} : h[y] = f[y] BY DEF Agree
  <2> HIDE DEF PartialSums
  <2> QED BY <1>1, <2>1, SumOfPart
<1>3. Removes(f, g, S) BY <1>1, PartialSumsRemove
<1>4. g[S] = f[x] + g[S \ {x}] BY <1>3 DEF Removes
<1> QED BY <1>1, <1>2, <1>4

\* A sum in which one term changes.
LEMMA SumChange ==
  ASSUME NEW S, IsFiniteSet(S), NEW f \in [S -> Int], NEW x \in S,
         NEW h \in [S -> Int], Agree(f, h, S \ {x})
  PROVE  SumFunction(h) = SumFunction(f) + h[x] - f[x]
<1> DEFINE r == [y \in S \ {x} |-> f[y]]
<1>1. r \in [S \ {x} -> Int] /\ Agree(f, r, S \ {x}) /\ Agree(h, r, S \ {x}) BY DEF Agree
<1> HIDE DEF r
<1>2. SumFunction(f) = f[x] + SumFunction(r) BY <1>1, SumRemove
<1>3. SumFunction(h) = h[x] + SumFunction(r) BY <1>1, SumRemove
<1>4. IsFiniteSet(S \ {x}) BY FS_Subset
<1>5. SumFunction(r) \in Int BY <1>1, <1>4, SumTyped
<1>6. f[x] \in Int /\ h[x] \in Int OBVIOUS
<1> QED BY <1>2, <1>3, <1>5, <1>6

\* A sum over two parts.
LEMMA SumSplit ==
  ASSUME NEW S, IsFiniteSet(S), NEW f \in [S -> Int],
         NEW A \in SUBSET S, NEW a \in [A -> Int], Agree(f, a, A),
         NEW b \in [S \ A -> Int], Agree(f, b, S \ A)
  PROVE  SumFunction(f) = SumFunction(a) + SumFunction(b)
<1>1. PICK g : PartialSums(f, g, S) /\ SumFunction(f) = g[S] BY SumIsPartialSum
<1>2. SumFunction(a) = g[A] BY <1>1, SumOfPart DEF Agree
<1>3. SumFunction(b) = g[S \ A]
  <2>1. S \ A \in SUBSET S /\ \A x \in S \ A : b[x] = f[x] BY DEF Agree
  <2> QED BY <1>1, <2>1, SumOfPart
<1> DEFINE Bad == {T \in SUBSET S : g[T] # g[T \cap A] + g[T \ A]}
<1>4. Bad = {}
  <2>1. SUFFICES ASSUME Bad # {} PROVE FALSE OBVIOUS
  <2>2. PICK T \in Bad : \A B \in Bad : B \subseteq T => B = T
    <3>1. Bad \in SUBSET (SUBSET S) OBVIOUS
    <3> HIDE DEF Bad
    <3> QED BY <2>1, <3>1, SubsetMin
  <2>3. T # {}
    <3>1. g[{}] = 0 BY <1>1 DEF PartialSums, SumStep
    <3>2. {} \cap A = {} /\ {} \ A = {} /\ 0 = 0 + 0 OBVIOUS
    <3>3. g[{}] = g[{} \cap A] + g[{} \ A] BY <3>1, <3>2
    <3>4. {} \notin Bad BY <3>3
    <3> QED BY <2>2, <3>4
  <2>4. PICK x \in T : TRUE BY <2>3
  <2> DEFINE R == T \ {x}
  <2>5. R \notin Bad /\ R \in SUBSET S BY <2>2, <2>4
  <2>6. g[R] = g[R \cap A] + g[R \ A] BY <2>5
  <2>7. g[T] = f[x] + g[R] BY <1>1, <2>2, <2>4, PartialSumsRemove DEF Removes
  <2>8. g[T \cap A] + g[T \ A] = f[x] + (g[R \cap A] + g[R \ A])
    <3>1. /\ f[x] \in Int /\ g[R \cap A] \in Int /\ g[R \ A] \in Int
      BY <1>1, <2>2, <2>4 DEF PartialSums
    <3>2. CASE x \in A
      <4>1. (T \cap A) \ {x} = R \cap A /\ T \ A = R \ A BY <3>2
      <4>2. T \cap A \in SUBSET S /\ x \in T \cap A BY <2>2, <2>4, <3>2
      <4>3. g[T \cap A] = f[x] + g[(T \cap A) \ {x}] BY <1>1, <4>2, PartialSumsRemove DEF Removes
      <4>4. g[T \cap A] = f[x] + g[R \cap A] /\ g[T \ A] = g[R \ A] BY <4>1, <4>3
      <4> HIDE DEF R
      <4> QED BY <3>1, <4>4
    <3>3. CASE x \notin A
      <4>1. (T \ A) \ {x} = R \ A /\ T \cap A = R \cap A BY <3>3
      <4>2. T \ A \in SUBSET S /\ x \in T \ A BY <2>2, <2>4, <3>3
      <4>3. g[T \ A] = f[x] + g[(T \ A) \ {x}] BY <1>1, <4>2, PartialSumsRemove DEF Removes
      <4>4. g[T \ A] = f[x] + g[R \ A] /\ g[T \cap A] = g[R \cap A] BY <4>1, <4>3
      <4> HIDE DEF R
      <4> QED BY <3>1, <4>4
    <3> QED BY <3>2, <3>3
  <2> QED BY <2>2, <2>6, <2>7, <2>8
<1>5. g[S] = g[S \cap A] + g[S \ A] BY <1>4
<1>6. S \cap A = A OBVIOUS
<1> QED BY <1>1, <1>2, <1>3, <1>5, <1>6

\* A sum of sums, term by term.
LEMMA SumAdd ==
  ASSUME NEW S, IsFiniteSet(S), NEW a \in [S -> Int], NEW b \in [S -> Int],
         NEW f \in [S -> Int], \A x \in S : f[x] = a[x] + b[x]
  PROVE  SumFunction(f) = SumFunction(a) + SumFunction(b)
<1>1. PICK g : PartialSums(f, g, S) /\ Removes(f, g, S) /\ SumFunction(f) = g[S]
  BY SumIsPartialSum, PartialSumsRemove
<1>2. PICK h : PartialSums(a, h, S) /\ Removes(a, h, S) /\ SumFunction(a) = h[S]
  BY SumIsPartialSum, PartialSumsRemove
<1>3. PICK k : PartialSums(b, k, S) /\ Removes(b, k, S) /\ SumFunction(b) = k[S]
  BY SumIsPartialSum, PartialSumsRemove
<1> DEFINE Bad == {T \in SUBSET S : g[T] # h[T] + k[T]}
<1>4. Bad = {}
  <2>1. SUFFICES ASSUME Bad # {} PROVE FALSE OBVIOUS
  <2>2. PICK T \in Bad : \A B \in Bad : B \subseteq T => B = T
    <3>1. Bad \in SUBSET (SUBSET S) OBVIOUS
    <3> HIDE DEF Bad
    <3> QED BY <2>1, <3>1, SubsetMin
  <2>3. T # {}
    <3>1. g[{}] = 0 /\ h[{}] = 0 /\ k[{}] = 0 BY <1>1, <1>2, <1>3 DEF PartialSums, SumStep
    <3>2. {} \notin Bad BY <3>1
    <3> QED BY <2>2, <3>2
  <2>4. PICK x \in T : TRUE BY <2>3
  <2> DEFINE R == T \ {x}
  <2>5. R \notin Bad /\ R \in SUBSET S BY <2>2, <2>4
  <2>6. g[R] = h[R] + k[R] BY <2>5
  <2>7. T \in SUBSET S BY <2>2
  <2> HIDE DEF Bad
  <2>8. g[T] = f[x] + g[R]
    BY <2>4, <2>7, <1>1 DEF Removes
  <2>9. h[T] = a[x] + h[R] BY <1>2, <2>4, <2>7 DEF Removes
  <2>10. k[T] = b[x] + k[R] BY <1>3, <2>4, <2>7 DEF Removes
  <2>11. a[x] \in Int /\ b[x] \in Int /\ h[R] \in Int /\ k[R] \in Int /\ f[x] = a[x] + b[x]
    BY <1>2, <1>3, <2>4, <2>5, <2>7 DEF PartialSums
  <2>12. g[T] # h[T] + k[T] BY <2>2 DEF Bad
  <2> HIDE DEF R
  <2> QED BY <2>6, <2>8, <2>9, <2>10, <2>11, <2>12
<1>5. g[S] = h[S] + k[S] BY <1>4
<1> QED BY <1>1, <1>2, <1>3, <1>5

\* Terms that are not negative have a sum that is not.
LEMMA SumNatural ==
  ASSUME NEW S, IsFiniteSet(S), NEW f \in [S -> Nat]
  PROVE  SumFunction(f) \in Nat
<1>1. f \in [S -> Int] OBVIOUS
<1>2. PICK g : PartialSums(f, g, S) /\ SumFunction(f) = g[S] BY <1>1, SumIsPartialSum
<1> DEFINE Bad == {T \in SUBSET S : g[T] \notin Nat}
<1>3. Bad = {}
  <2>1. SUFFICES ASSUME Bad # {} PROVE FALSE OBVIOUS
  <2>2. PICK T \in Bad : \A B \in Bad : B \subseteq T => B = T
    <3>1. Bad \in SUBSET (SUBSET S) OBVIOUS
    <3> HIDE DEF Bad
    <3> QED BY <2>1, <3>1, SubsetMin
  <2>3. T # {}
    <3>1. g[{}] = 0 BY <1>2 DEF PartialSums, SumStep
    <3>2. {} \notin Bad BY <3>1
    <3> QED BY <2>2, <3>2
  <2>4. PICK x \in T : TRUE BY <2>3
  <2>5. T \ {x} \notin Bad /\ T \ {x} \in SUBSET S BY <2>2, <2>4
  <2>6. g[T \ {x}] \in Nat BY <2>5
  <2>7. g[T] = f[x] + g[T \ {x}] BY <1>1, <1>2, <2>2, <2>4, PartialSumsRemove DEF Removes
  <2>8. f[x] \in Nat BY <2>2, <2>4
  <2> QED BY <2>2, <2>6, <2>7, <2>8
<1>4. g[S] \in Nat BY <1>3
<1> QED BY <1>2, <1>4

\* Terms that are all zero add up to zero.
LEMMA SumZero ==
  ASSUME NEW S, IsFiniteSet(S), NEW f \in [S -> Nat], \A x \in S : f[x] = 0
  PROVE  SumFunction(f) = 0
<1>1. f \in [S -> Int] /\ \A x \in S : f[x] = f[x] + f[x] OBVIOUS
<1>2. SumFunction(f) = SumFunction(f) + SumFunction(f) BY <1>1, SumAdd
<1>3. SumFunction(f) \in Int BY <1>1, SumTyped
<1>4. \A n \in Int : n = n + n => n = 0 OBVIOUS
<1> QED BY <1>2, <1>3, <1>4
=============================================================================
