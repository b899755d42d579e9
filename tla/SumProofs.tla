------------------------------ MODULE SumProofs ------------------------------
(***************************************************************************)
(* What the recursions of the models are, for inputs of every size.        *)
(* SumFunctionOnSet is defined by the community module with a recursion    *)
(* that takes the elements in an order CHOOSE fixes, and the models use it *)
(* as a sum; Keep is the append loop of Loops. The inductions are stated   *)
(* for a set instead of a predicate, so that they can be instantiated.     *)
(***************************************************************************)
EXTENDS Loops, Functions, FiniteSets, FiniteSetTheorems, SequenceTheorems, TLAPS

-----------------------------------------------------------------------------
(* Induction.                                                              *)

\* Induction over the natural numbers.
LEMMA NatSetInduction ==
  ASSUME NEW S, 0 \in S, \A n \in Nat : n \in S => n + 1 \in S
  PROVE  Nat \subseteq S
<1> DEFINE T == Nat \ S
           R == {ss \in Nat \X Nat : ss[1] < ss[2]}
<1>1. SUFFICES ASSUME T # {} PROVE FALSE
  OBVIOUS
<1>2. IsWellFoundedOn(R, Nat)
  BY NatLessThanWellFounded DEF OpToRel
<1>3. PICK m \in T : \A n \in T : ~(<<n, m>> \in R)
  <2>1. T \subseteq Nat
    OBVIOUS
  <2> HIDE DEF T, R
  <2> QED
    BY <1>1, <1>2, <2>1, WFMin
<1>4. m # 0 /\ m - 1 \in Nat
  OBVIOUS
<1>5. <<m - 1, m>> \in R
  BY <1>4
<1>6. m - 1 \notin T
  BY <1>3, <1>5
<1> QED
  BY <1>4, <1>6

\* Induction over the subsets of a finite set, each from all its own subsets.
LEMMA StrongSubsetInduction ==
  ASSUME NEW S, IsFiniteSet(S), NEW P,
         \A U \in SUBSET S : (\A V \in SUBSET U : V # U => V \in P) => U \in P
  PROVE  \A U \in SUBSET S : U \in P
<1> DEFINE T == {U \in SUBSET S : U \notin P}
<1>1. SUFFICES ASSUME T # {} PROVE FALSE
  OBVIOUS
<1>2. PICK m \in T : \A n \in T : ~(<<n, m>> \in StrictSubsetOrdering(S))
  <2>1. IsWellFoundedOn(StrictSubsetOrdering(S), FiniteSubsetsOf(S))
    BY FS_StrictSubsetOrderingWellFounded
  <2>2. T \subseteq FiniteSubsetsOf(S)
    BY FS_FiniteSubsetsOfFinite
  <2> HIDE DEF T
  <2> QED
    BY <1>1, <2>1, <2>2, WFMin
<1>3. ASSUME NEW V \in SUBSET m, V # m PROVE V \in P
  BY <1>2, <1>3 DEF StrictSubsetOrdering
<1> QED
  BY <1>3

\* Induction over the subsets of a finite set, an element at a time.
LEMMA SubsetInduction ==
  ASSUME NEW S, IsFiniteSet(S), NEW P, {} \in P,
         \A U \in SUBSET S : \A x \in S \ U : U \in P => U \cup {x} \in P
  PROVE  \A U \in SUBSET S : U \in P
<1>1. ASSUME NEW U \in SUBSET S, \A V \in SUBSET U : V # U => V \in P
      PROVE  U \in P
  <2>1. SUFFICES ASSUME U # {} PROVE U \in P
    OBVIOUS
  <2>2. PICK x \in U : TRUE
    BY <2>1
  <2>3. U \ {x} \in P
    BY <1>1, <2>2
  <2>4. (U \ {x}) \cup {x} = U /\ x \in S \ (U \ {x}) /\ U \ {x} \in SUBSET S
    BY <2>2
  <2> QED
    BY <2>3, <2>4
<1> QED
  BY <1>1, StrongSubsetInduction

\* Something takes the value base at 0, and from then on what h makes of the
\* value before.
Iterates(D, base, h) ==
  \E W \in [Nat -> D] : W[0] = base /\ \A n \in Nat : W[n + 1] = h[W[n]]

\* A recursion on the natural numbers over a set defines a function.
LEMMA NatRecursion ==
  ASSUME NEW D, NEW base \in D, NEW h \in [D -> D]
  PROVE  Iterates(D, base, h)
<1> DEFINE Upto(n, f) == /\ f \in [0 .. n -> D] /\ f[0] = base
                         /\ \A i \in 1 .. n : f[i] = h[f[i - 1]]
           N == {n \in Nat : \E f : Upto(n, f)}
           pick(n) == CHOOSE f : Upto(n, f)
           W == [n \in Nat |-> pick(n)[n]]
<1>1. 0 \in N
  <2>1. Upto(0, [i \in 0 .. 0 |-> base])
    OBVIOUS
  <2> QED
    BY <2>1
<1>2. ASSUME NEW n \in Nat, n \in N PROVE n + 1 \in N
  <2>1. PICK f : Upto(n, f)
    BY <1>2
  <2> DEFINE g == [i \in 0 .. n + 1 |-> IF i <= n THEN f[i] ELSE h[f[n]]]
  <2>2. f[n] \in D
    BY <2>1
  <2>3. g \in [0 .. n + 1 -> D]
    BY <2>1, <2>2
  <2>4. ASSUME NEW i \in 1 .. n + 1 PROVE g[i] = h[g[i - 1]]
    <3>1. CASE i <= n
      BY <2>1, <3>1
    <3>2. CASE i = n + 1
      BY <3>2
    <3> QED
      BY <3>1, <3>2
  <2>5. Upto(n + 1, g)
    BY <2>1, <2>3, <2>4
  <2> HIDE DEF Upto, g
  <2> QED
    BY <2>5
<1>3. ASSUME NEW n \in Nat PROVE Upto(n, pick(n))
  <2>1. Nat \subseteq N
    <3> HIDE DEF N
    <3> QED
      BY <1>1, <1>2, NatSetInduction
  <2> HIDE DEF Upto
  <2> QED
    BY <2>1
<1>4. ASSUME NEW n \in Nat PROVE pick(n)[n] = pick(n + 1)[n]
  <2> DEFINE M == {i \in Nat : i <= n => pick(n)[i] = pick(n + 1)[i]}
  <2> HIDE DEF pick
  <2>1. Upto(n, pick(n)) /\ Upto(n + 1, pick(n + 1))
    BY <1>3
  <2>2. 0 \in M
    BY <2>1
  <2>3. ASSUME NEW i \in Nat, i \in M PROVE i + 1 \in M
    <3>1. SUFFICES ASSUME i + 1 <= n PROVE pick(n)[i + 1] = pick(n + 1)[i + 1]
      OBVIOUS
    <3>2. pick(n)[i] = pick(n + 1)[i]
      BY <2>3, <3>1
    <3>3. i + 1 \in 1 .. n /\ i + 1 \in 1 .. n + 1 /\ (i + 1) - 1 = i
      BY <3>1
    <3> QED
      BY <2>1, <3>2, <3>3
  <2>4. Nat \subseteq M
    <3> HIDE DEF M
    <3> QED
      BY <2>2, <2>3, NatSetInduction
  <2> QED
    BY <2>4
<1>5. W \in [Nat -> D]
  <2> HIDE DEF pick
  <2> QED
    BY <1>3
<1>6. W[0] = base
  <2> HIDE DEF pick
  <2> QED
    BY <1>3
<1>7. ASSUME NEW n \in Nat PROVE W[n + 1] = h[W[n]]
  <2> HIDE DEF pick
  <2>1. n + 1 \in 1 .. n + 1 /\ (n + 1) - 1 = n
    OBVIOUS
  <2>2. pick(n + 1)[n + 1] = h[pick(n + 1)[n]]
    BY <1>3, <2>1
  <2> QED
    BY <1>4, <2>2
<1> HIDE DEF W
<1> QED
  BY <1>5, <1>6, <1>7 DEF Iterates

\* f starts at base and takes step i with the function g[i], up to m.
Passes(D, base, g, m, f) ==
  f \in [0 .. m -> D] /\ f[0] = base /\ \A i \in 1 .. m : f[i] = g[i][f[i - 1]]

\* A recursion whose steps differ, up to some number of them.
LEMMA StepRecursion ==
  ASSUME NEW D, NEW base \in D, NEW m \in Nat, NEW g, \A i \in 1 .. m : g[i] \in [D -> D]
  PROVE  \E f : Passes(D, base, g, m, f)
<1> DEFINE N == {n \in Nat : n <= m => \E f : Passes(D, base, g, n, f)}
<1>1. 0 \in N
  <2>1. Passes(D, base, g, 0, [i \in 0 .. 0 |-> base])
    BY DEF Passes
  <2> QED
    BY <2>1
<1>2. ASSUME NEW n \in Nat, n \in N PROVE n + 1 \in N
  <2>1. SUFFICES ASSUME n + 1 <= m PROVE \E f : Passes(D, base, g, n + 1, f)
    OBVIOUS
  <2>2. PICK f : Passes(D, base, g, n, f)
    BY <1>2, <2>1
  <2> DEFINE h == [i \in 0 .. n + 1 |-> IF i <= n THEN f[i] ELSE g[n + 1][f[n]]]
  <2>3. f \in [0 .. n -> D] /\ f[n] \in D /\ g[n + 1] \in [D -> D]
    BY <2>1, <2>2 DEF Passes
  <2>4. h \in [0 .. n + 1 -> D]
    BY <2>3
  <2>5. ASSUME NEW i \in 1 .. n + 1 PROVE h[i] = g[i][h[i - 1]]
    <3>1. CASE i <= n
      BY <2>2, <3>1 DEF Passes
    <3>2. CASE i = n + 1
      BY <3>2
    <3> QED
      BY <3>1, <3>2
  <2>6. Passes(D, base, g, n + 1, h)
    BY <2>2, <2>4, <2>5 DEF Passes
  <2> HIDE DEF h
  <2> QED
    BY <2>6
<1>3. Nat \subseteq N
  <2> HIDE DEF N
  <2> QED
    BY <1>1, <1>2, NatSetInduction
<1> QED
  BY <1>3

\* A set of numbers with a bound has a largest.
LEMMA LargestExists ==
  ASSUME NEW n \in Nat, NEW S \in SUBSET (0 .. n), S # {}
  PROVE  \E m \in S : \A k \in S : k <= m
<1> DEFINE N == {m \in Nat : \A T \in SUBSET (0 .. m) : T # {} => \E k \in T : \A l \in T : l <= k}
<1>1. 0 \in N
  <2> SUFFICES ASSUME NEW T \in SUBSET (0 .. 0), T # {}
               PROVE  \E k \in T : \A l \in T : l <= k
    OBVIOUS
  <2>1. PICK k \in T : TRUE
    OBVIOUS
  <2>2. \A l \in T : l = 0
    OBVIOUS
  <2> QED
    BY <2>1, <2>2
<1>2. ASSUME NEW m \in Nat, m \in N PROVE m + 1 \in N
  <2> SUFFICES ASSUME NEW T \in SUBSET (0 .. m + 1), T # {}
               PROVE  \E k \in T : \A l \in T : l <= k
    OBVIOUS
  <2>1. CASE m + 1 \in T
    BY <2>1
  <2>2. CASE m + 1 \notin T
    <3>1. T \in SUBSET (0 .. m)
      BY <2>2
    <3> QED
      BY <1>2, <3>1
  <2> QED
    BY <2>1, <2>2
<1>3. Nat \subseteq N
  <2> HIDE DEF N
  <2> QED
    BY <1>1, <1>2, NatSetInduction
<1> QED
  BY <1>3

\* And a smallest.
LEMMA SmallestExists ==
  ASSUME NEW n \in Nat, NEW S \in SUBSET (0 .. n), S # {}
  PROVE  \E m \in S : \A k \in S : m <= k
<1> DEFINE T == {n - k : k \in S}
<1>1. T \in SUBSET (0 .. n) /\ T # {}
  <2>1. PICK k \in S : TRUE
    OBVIOUS
  <2>2. n - k \in T
    BY <2>1
  <2>3. \A l \in S : n - l \in 0 .. n
    OBVIOUS
  <2>4. T \subseteq 0 .. n
    BY <2>3
  <2> QED
    BY <2>2, <2>4
<1> HIDE DEF T
<1>2. PICK m \in T : \A k \in T : k <= m
  BY <1>1, LargestExists
<1>3. PICK l \in S : m = n - l
  BY <1>2 DEF T
<1>4. ASSUME NEW k \in S PROVE l <= k
  <2>1. n - k \in T /\ k \in Int /\ l \in Int
    BY <1>3 DEF T
  <2> QED
    BY <1>2, <1>3, <2>1
<1> QED
  BY <1>3, <1>4

-----------------------------------------------------------------------------
(* The recursion behind SumFunctionOnSet.                                  *)

Chosen(U) == CHOOSE x \in U : TRUE

SumStep(w, f, U) == IF U = {} THEN 0 ELSE w[Chosen(U)] + f[U \ {Chosen(U)}]

\* f sums w over each subset of S.
Sums(w, S, f) == f = [U \in SUBSET S |-> SumStep(w, f, U)]

\* There is such a function.
LEMMA SumsExist ==
  ASSUME NEW w, NEW S, IsFiniteSet(S)
  PROVE  \E f : Sums(w, S, f)
<1> DEFINE Small(n) == {U \in SUBSET S : Cardinality(U) <= n}
           N == {n \in Nat : \E f : f = [U \in Small(n) |-> SumStep(w, f, U)]}
<1>1. \A U \in SUBSET S : IsFiniteSet(U) /\ Cardinality(U) \in Nat
  BY FS_Subset, FS_CardinalityType
<1>2. 0 \in N
  <2> DEFINE f == [U \in Small(0) |-> 0]
  <2>1. \A U \in Small(0) : U = {}
    BY <1>1, FS_EmptySet
  <2>2. f = [U \in Small(0) |-> SumStep(w, f, U)]
    BY <2>1 DEF SumStep
  <2> QED
    BY <2>2
<1>3. ASSUME NEW n \in Nat, n \in N PROVE n + 1 \in N
  <2>1. PICK f : f = [U \in Small(n) |-> SumStep(w, f, U)]
    BY <1>3
  <2> DEFINE g == [U \in Small(n + 1) |-> SumStep(w, f, U)]
  <2>2. ASSUME NEW U \in Small(n + 1), U # {}
        PROVE  U \ {Chosen(U)} \in Small(n) /\ U \ {Chosen(U)} \in Small(n + 1)
    <3>1. Chosen(U) \in U
      BY <2>2 DEF Chosen
    <3>2. Cardinality(U \ {Chosen(U)}) = Cardinality(U) - 1
      BY <1>1, <3>1, FS_RemoveElement
    <3> QED
      BY <1>1, <3>2
  <2>3. ASSUME NEW V \in Small(n) PROVE V \in Small(n + 1) /\ g[V] = f[V]
    <3>1. V \in Small(n + 1)
      BY <1>1
    <3>2. g[V] = SumStep(w, f, V)
      BY <3>1
    <3>3. f[V] = SumStep(w, f, V)
      <4> HIDE DEF Small
      <4> QED
        BY <2>1
    <3> QED
      BY <3>1, <3>2, <3>3
  <2>4. ASSUME NEW U \in Small(n + 1) PROVE SumStep(w, f, U) = SumStep(w, g, U)
    <3> HIDE DEF Small, g
    <3> QED
      BY <2>2, <2>3 DEF SumStep
  <2>5. g = [U \in Small(n + 1) |-> SumStep(w, g, U)]
    BY <2>4
  <2> HIDE DEF Small, g
  <2> QED
    BY <2>5
<1>4. Cardinality(S) \in N
  <2>1. Nat \subseteq N
    <3> HIDE DEF N
    <3> QED
      BY <1>2, <1>3, NatSetInduction
  <2> QED
    BY <2>1, FS_CardinalityType
<1>5. Small(Cardinality(S)) = SUBSET S
  BY FS_Subset
<1>6. PICK f : f = [U \in Small(Cardinality(S)) |-> SumStep(w, f, U)]
  BY <1>4
<1> QED
  BY <1>5, <1>6 DEF Sums

\* It is unique, and what it gives a set does not depend on S.
LEMMA SumsAgree ==
  ASSUME NEW w, NEW S, IsFiniteSet(S), NEW T \in SUBSET S,
         NEW f, Sums(w, S, f), NEW g, Sums(w, T, g)
  PROVE  \A U \in SUBSET T : f[U] = g[U]
<1> DEFINE P == {U \in SUBSET T : f[U] = g[U]}
<1>1. IsFiniteSet(T)
  BY FS_Subset
<1>2. ASSUME NEW U \in SUBSET T, \A V \in SUBSET U : V # U => V \in P
      PROVE  U \in P
  <2>1. f[U] = SumStep(w, f, U) /\ g[U] = SumStep(w, g, U)
    BY DEF Sums
  <2>2. CASE U = {}
    BY <2>1, <2>2 DEF SumStep
  <2>3. CASE U # {}
    <3>1. Chosen(U) \in U
      BY <2>3 DEF Chosen
    <3>2. U \ {Chosen(U)} \in P
      <4> HIDE DEF P
      <4> QED
        BY <1>2, <3>1
    <3> QED
      BY <2>1, <2>3, <3>2 DEF SumStep
  <2> QED
    BY <2>2, <2>3
<1>3. \A U \in SUBSET T : U \in P
  <2> HIDE DEF P
  <2> QED
    BY <1>1, <1>2, StrongSubsetInduction
<1> QED
  BY <1>3

\* The community module's sum is that function's value.
LEMMA SumIs ==
  ASSUME NEW w, NEW S, IsFiniteSet(S), NEW f, Sums(w, S, f), NEW T \in SUBSET S
  PROVE  SumFunctionOnSet(w, T) = f[T]
<1> DEFINE g == CHOOSE h : Sums(w, T, h)
<1>1. SumFunctionOnSet(w, T) = g[T]
  BY DEF SumFunctionOnSet, FoldFunctionOnSet, MapThenFoldSet, Sums, SumStep, Chosen
<1>2. IsFiniteSet(T)
  BY FS_Subset
<1>3. Sums(w, T, g)
  BY <1>2, SumsExist
<1>4. T \in SUBSET T
  OBVIOUS
<1> HIDE DEF g
<1> QED
  BY <1>1, <1>3, <1>4, SumsAgree

-----------------------------------------------------------------------------
(* The sum.                                                                *)

\* The sum over nothing.
LEMMA SumEmpty ==
  ASSUME NEW w
  PROVE  SumFunctionOnSet(w, {}) = 0
<1>1. IsFiniteSet({})
  BY FS_EmptySet
<1>2. PICK f : Sums(w, {}, f)
  BY <1>1, SumsExist
<1>3. SumFunctionOnSet(w, {}) = f[{}]
  BY <1>1, <1>2, SumIs
<1>4. f[{}] = SumStep(w, f, {})
  BY <1>2 DEF Sums
<1> QED
  BY <1>3, <1>4 DEF SumStep

\* The sum takes the chosen element first.
LEMMA SumChosen ==
  ASSUME NEW w, NEW S, IsFiniteSet(S), S # {}
  PROVE  /\ Chosen(S) \in S
         /\ SumFunctionOnSet(w, S) = w[Chosen(S)] + SumFunctionOnSet(w, S \ {Chosen(S)})
<1>1. PICK f : Sums(w, S, f)
  BY SumsExist
<1>2. Chosen(S) \in S
  BY DEF Chosen
<1>3. S \in SUBSET S /\ S \ {Chosen(S)} \in SUBSET S
  OBVIOUS
<1>4. SumFunctionOnSet(w, S) = f[S] /\ SumFunctionOnSet(w, S \ {Chosen(S)}) = f[S \ {Chosen(S)}]
  BY <1>1, <1>3, SumIs
<1>5. f[S] = SumStep(w, f, S)
  BY <1>1, <1>3 DEF Sums
<1> QED
  BY <1>2, <1>4, <1>5 DEF SumStep

\* A sum of natural numbers is one.
LEMMA SumNat ==
  ASSUME NEW w, NEW S, IsFiniteSet(S), \A x \in S : w[x] \in Nat
  PROVE  SumFunctionOnSet(w, S) \in Nat
<1> DEFINE P == {U \in SUBSET S : SumFunctionOnSet(w, U) \in Nat}
<1>1. ASSUME NEW U \in SUBSET S, \A V \in SUBSET U : V # U => V \in P
      PROVE  U \in P
  <2>1. CASE U = {}
    BY <2>1, SumEmpty
  <2>2. CASE U # {}
    <3>1. IsFiniteSet(U)
      BY FS_Subset
    <3>2. /\ Chosen(U) \in U
          /\ SumFunctionOnSet(w, U) = w[Chosen(U)] + SumFunctionOnSet(w, U \ {Chosen(U)})
      BY <2>2, <3>1, SumChosen
    <3>3. U \ {Chosen(U)} \in P
      <4> HIDE DEF P
      <4> QED
        BY <1>1, <3>2
    <3>4. w[Chosen(U)] \in Nat /\ SumFunctionOnSet(w, U \ {Chosen(U)}) \in Nat
      BY <3>2, <3>3
    <3> QED
      BY <3>2, <3>4
  <2> QED
    BY <2>1, <2>2
<1>2. \A U \in SUBSET S : U \in P
  <2> HIDE DEF P
  <2> QED
    BY <1>1, StrongSubsetInduction
<1> QED
  BY <1>2

\* It may take any element first: the order does not matter.
LEMMA SumElement ==
  ASSUME NEW w, NEW S, IsFiniteSet(S), \A x \in S : w[x] \in Nat, NEW e \in S
  PROVE  SumFunctionOnSet(w, S) = w[e] + SumFunctionOnSet(w, S \ {e})
<1> DEFINE Sum(U) == SumFunctionOnSet(w, U)
           P == {U \in SUBSET S : \A x \in U : Sum(U) = w[x] + Sum(U \ {x})}
<1>1. \A U \in SUBSET S : IsFiniteSet(U) /\ Sum(U) \in Nat
  BY FS_Subset, SumNat
<1>2. ASSUME NEW U \in SUBSET S, \A V \in SUBSET U : V # U => V \in P, NEW x \in U
      PROVE  Sum(U) = w[x] + Sum(U \ {x})
  <2> DEFINE c == Chosen(U)
  <2>1. c \in U /\ Sum(U) = w[c] + Sum(U \ {c})
    BY <1>1, SumChosen
  <2>2. CASE x = c
    BY <2>1, <2>2
  <2>3. CASE x # c
    <3> HIDE DEF c, Sum
    <3>1. U \ {c} \in SUBSET U /\ U \ {c} # U /\ U \ {x} \in SUBSET U /\ U \ {x} # U
      BY <2>1
    <3>2. U \ {c} \in P /\ U \ {x} \in P
      <4> HIDE DEF P
      <4> QED
        BY <1>2, <3>1
    <3>3. Sum(U \ {c}) = w[x] + Sum((U \ {c}) \ {x})
      BY <2>3, <3>2
    <3>4. Sum(U \ {x}) = w[c] + Sum((U \ {x}) \ {c})
      BY <2>1, <2>3, <3>2
    <3>5. (U \ {c}) \ {x} = (U \ {x}) \ {c}
      OBVIOUS
    <3>6. w[x] \in Nat /\ w[c] \in Nat /\ Sum((U \ {x}) \ {c}) \in Nat
      BY <1>1, <2>1
    <3> QED
      BY <2>1, <3>3, <3>4, <3>5, <3>6
  <2> QED
    BY <2>2, <2>3
<1>3. \A U \in SUBSET S : U \in P
  <2>1. \A U \in SUBSET S : (\A V \in SUBSET U : V # U => V \in P) => U \in P
    BY <1>2
  <2> HIDE DEF P
  <2> QED
    BY <2>1, StrongSubsetInduction
<1> QED
  BY <1>3

\* An element more.
LEMMA SumAdd ==
  ASSUME NEW w, NEW S, IsFiniteSet(S), NEW e, e \notin S, \A x \in S \cup {e} : w[x] \in Nat
  PROVE  SumFunctionOnSet(w, S \cup {e}) = w[e] + SumFunctionOnSet(w, S)
<1>1. IsFiniteSet(S \cup {e}) /\ e \in S \cup {e} /\ (S \cup {e}) \ {e} = S
  BY FS_AddElement
<1> QED
  BY <1>1, SumElement

\* No element weighs more than the sum, and two weigh no more together.
LEMMA SumBounds ==
  ASSUME NEW w, NEW S, IsFiniteSet(S), \A x \in S : w[x] \in Nat, NEW e \in S
  PROVE  /\ w[e] <= SumFunctionOnSet(w, S)
         /\ \A d \in S : d # e => w[d] + w[e] <= SumFunctionOnSet(w, S)
<1>1. IsFiniteSet(S \ {e}) /\ SumFunctionOnSet(w, S \ {e}) \in Nat
  <2>1. IsFiniteSet(S \ {e})
    BY FS_Subset
  <2> QED
    BY <2>1, SumNat
<1>2. SumFunctionOnSet(w, S) = w[e] + SumFunctionOnSet(w, S \ {e})
  BY SumElement
<1>3. ASSUME NEW d \in S, d # e PROVE w[d] + w[e] <= SumFunctionOnSet(w, S)
  <2>1. IsFiniteSet((S \ {e}) \ {d}) /\ SumFunctionOnSet(w, (S \ {e}) \ {d}) \in Nat
    <3>1. IsFiniteSet((S \ {e}) \ {d})
      BY FS_Subset
    <3> QED
      BY <3>1, SumNat
  <2>2. SumFunctionOnSet(w, S \ {e}) = w[d] + SumFunctionOnSet(w, (S \ {e}) \ {d})
    BY <1>1, <1>3, SumElement
  <2> QED
    BY <1>2, <2>1, <2>2
<1>4. w[e] <= SumFunctionOnSet(w, S)
  <2>1. w[e] \in Nat
    OBVIOUS
  <2> QED
    BY ONLY <1>1, <1>2, <2>1
<1> QED
  BY <1>3, <1>4

\* Equal weights have equal sums.
LEMMA SumEqual ==
  ASSUME NEW v, NEW w, NEW S, IsFiniteSet(S), \A x \in S : v[x] = w[x]
  PROVE  SumFunctionOnSet(v, S) = SumFunctionOnSet(w, S)
<1> DEFINE P == {U \in SUBSET S : SumFunctionOnSet(v, U) = SumFunctionOnSet(w, U)}
<1>1. ASSUME NEW U \in SUBSET S, \A V \in SUBSET U : V # U => V \in P
      PROVE  U \in P
  <2>1. CASE U = {}
    BY <2>1, SumEmpty
  <2>2. CASE U # {}
    <3>1. IsFiniteSet(U)
      BY FS_Subset
    <3>2. /\ Chosen(U) \in U
          /\ SumFunctionOnSet(v, U) = v[Chosen(U)] + SumFunctionOnSet(v, U \ {Chosen(U)})
          /\ SumFunctionOnSet(w, U) = w[Chosen(U)] + SumFunctionOnSet(w, U \ {Chosen(U)})
      BY <2>2, <3>1, SumChosen
    <3>3. U \ {Chosen(U)} \in P
      <4> HIDE DEF P
      <4> QED
        BY <1>1, <3>2
    <3> QED
      BY <3>2, <3>3
  <2> QED
    BY <2>1, <2>2
<1>2. \A U \in SUBSET S : U \in P
  <2> HIDE DEF P
  <2> QED
    BY <1>1, StrongSubsetInduction
<1> QED
  BY <1>2

-----------------------------------------------------------------------------
(* The append loop.                                                        *)

\* s is what the loop has kept of the first n elements, taken from the places at.
Picks(fs, S, n, s, at) ==
  /\ at \in [1 .. Len(s) -> 1 .. n]
  /\ \A k \in 1 .. Len(s) : at[k] \in S /\ s[k] = fs[at[k]]
  /\ \A i \in 1 .. n : i \in S => \E k \in 1 .. Len(s) : at[k] = i
  /\ \A j, k \in 1 .. Len(s) : j < k => at[j] < at[k]

\* One turn of the loop.
Turn(fs, S, kept, i) ==
  IF i = 0 THEN <<>> ELSE IF i \in S THEN Append(kept[i - 1], fs[i]) ELSE kept[i - 1]

\* The recursion behind Keep has a solution, and its values are sequences.
LEMMA TurnsExist ==
  ASSUME NEW T, NEW fs \in Seq(T), NEW S
  PROVE  \E kept : kept = [i \in 0 .. Len(fs) |-> Turn(fs, S, kept, i)]
<1> DEFINE D == Nat \X Seq(T)
           first == <<0, <<>>>>
           grown(p) == IF p[1] + 1 \in S /\ p[1] + 1 \in 1 .. Len(fs)
                       THEN Append(p[2], fs[p[1] + 1]) ELSE p[2]
           step == [p \in D |-> <<p[1] + 1, grown(p)>>]
<1>1. ASSUME NEW p \in D PROVE grown(p) \in Seq(T)
  <2>1. p[2] \in Seq(T)
    OBVIOUS
  <2>2. CASE p[1] + 1 \in S /\ p[1] + 1 \in 1 .. Len(fs)
    <3>1. fs[p[1] + 1] \in T
      BY <2>2, ElementOfSeq
    <3> QED
      BY <2>1, <2>2, <3>1, AppendProperties
  <2>3. CASE ~(p[1] + 1 \in S /\ p[1] + 1 \in 1 .. Len(fs))
    BY <2>1, <2>3
  <2> QED
    BY <2>2, <2>3
<1>2. step \in [D -> D]
  <2> HIDE DEF grown
  <2> QED
    BY <1>1
<1>3. first \in D
  <2>1. <<>> \in Seq(T)
    BY EmptySeq
  <2> QED
    BY <2>1
<1>4. PICK W \in [Nat -> D] : W[0] = first /\ \A n \in Nat : W[n + 1] = step[W[n]]
  <2> HIDE DEF D, first, step
  <2>1. Iterates(D, first, step)
    BY <1>2, <1>3, NatRecursion
  <2> QED
    BY <2>1 DEF Iterates
<1>5. \A n \in Nat : W[n][1] = n
  <2> DEFINE M == {n \in Nat : W[n][1] = n}
  <2>1. 0 \in M
    BY <1>4
  <2>2. ASSUME NEW n \in Nat, n \in M PROVE n + 1 \in M
    <3>1. W[n] \in D
      BY <1>4
    <3>2. W[n + 1] = <<W[n][1] + 1, grown(W[n])>>
      <4> HIDE DEF grown, D
      <4> QED
        BY <1>4, <3>1
    <3> HIDE DEF grown, D
    <3> QED
      BY <2>2, <3>2
  <2>3. Nat \subseteq M
    <3> HIDE DEF M
    <3> QED
      BY <2>1, <2>2, NatSetInduction
  <2> QED
    BY <2>3
<1> DEFINE kept == [i \in 0 .. Len(fs) |-> W[i][2]]
<1>6. Len(fs) \in Nat
  OBVIOUS
<1>7. ASSUME NEW i \in 0 .. Len(fs) PROVE W[i][2] = Turn(fs, S, kept, i)
  <2>1. CASE i = 0
    BY <1>4, <2>1 DEF Turn
  <2>2. CASE i # 0
    <3>1. i - 1 \in Nat /\ i - 1 \in 0 .. Len(fs) /\ (i - 1) + 1 = i /\ i \in 1 .. Len(fs)
      BY <1>6, <2>2
    <3>2. W[i - 1] \in D
      BY <1>4, <3>1
    <3>3. W[i] = step[W[i - 1]]
      BY <1>4, <3>1
    <3>4. W[i] = <<W[i - 1][1] + 1, grown(W[i - 1])>>
      <4> HIDE DEF grown, D
      <4> QED
        BY <3>2, <3>3
    <3>5. W[i - 1][1] = i - 1
      BY <1>5, <3>1
    <3>6. W[i][2] = IF i \in S THEN Append(W[i - 1][2], fs[i]) ELSE W[i - 1][2]
      BY <3>1, <3>4, <3>5
    <3>7. kept[i - 1] = W[i - 1][2]
      BY <3>1
    <3> QED
      BY <2>2, <3>6, <3>7 DEF Turn
  <2> QED
    BY <2>1, <2>2
<1>8. kept = [i \in 0 .. Len(fs) |-> Turn(fs, S, kept, i)]
  BY <1>7
<1> HIDE DEF kept
<1> QED
  BY <1>8

\* What Keep returns: the elements of fs at the places in S, in order.
LEMMA KeepIs ==
  ASSUME NEW T, NEW fs \in Seq(T), NEW S
  PROVE  /\ Keep(fs, S) \in Seq(T)
         /\ \E at : Picks(fs, S, Len(fs), Keep(fs, S), at)
<1> DEFINE kept == CHOOSE f : f = [i \in 0 .. Len(fs) |-> Turn(fs, S, f, i)]
           n == Len(fs)
<1>1. n \in Nat
  OBVIOUS
<1>2. kept = [i \in 0 .. n |-> Turn(fs, S, kept, i)]
  <2>1. \E f : f = [i \in 0 .. n |-> Turn(fs, S, f, i)]
    BY TurnsExist
  <2> QED
    BY <2>1
<1>3. Keep(fs, S) = kept[n]
  BY DEF Keep, Turn
<1> HIDE DEF kept
<1>4. \A i \in 0 .. n : kept[i] = Turn(fs, S, kept, i)
  BY <1>2
<1> DEFINE Good(i) == kept[i] \in Seq(T) /\ \E at : Picks(fs, S, i, kept[i], at)
           M == {i \in Nat : i <= n => Good(i)}
<1>5. 0 \in M
  <2>1. kept[0] = <<>>
    BY <1>1, <1>4 DEF Turn
  <2>2. kept[0] \in Seq(T) /\ Len(kept[0]) = 0
    BY <2>1, EmptySeq
  <2>3. Picks(fs, S, 0, kept[0], [k \in 1 .. 0 |-> 0])
    BY <2>2 DEF Picks
  <2> QED
    BY <2>2, <2>3
<1>6. ASSUME NEW i \in Nat, i \in M PROVE i + 1 \in M
  <2>1. SUFFICES ASSUME i + 1 <= n PROVE Good(i + 1)
    OBVIOUS
  <2>2. Good(i)
    BY <1>1, <1>6, <2>1
  <2>3. PICK at : Picks(fs, S, i, kept[i], at)
    BY <2>2
  <2> DEFINE s == kept[i]
  <2>4. s \in Seq(T) /\ Len(s) \in Nat
    BY <2>2
  <2>5. i + 1 \in 0 .. n /\ i + 1 # 0 /\ (i + 1) - 1 = i /\ i + 1 \in 1 .. n
    BY <1>1, <2>1
  <2>6. kept[i + 1] = IF i + 1 \in S THEN Append(s, fs[i + 1]) ELSE s
    BY <1>4, <2>5 DEF Turn
  <2> HIDE DEF s
  <2>7. CASE i + 1 \notin S
    <3>1. kept[i + 1] = s
      BY <2>6, <2>7
    <3>2. Picks(fs, S, i + 1, s, at)
      <4>1. Picks(fs, S, i, s, at)
        BY <2>3 DEF s
      <4>2. at \in [1 .. Len(s) -> 1 .. i + 1]
        BY <4>1 DEF Picks
      <4>3. \A j \in 1 .. i + 1 : j \in S => j \in 1 .. i
        BY <2>7
      <4> QED
        BY <4>1, <4>2, <4>3 DEF Picks
    <3> QED
      BY <2>4, <3>1, <3>2
  <2>8. CASE i + 1 \in S
    <3> DEFINE t == Append(s, fs[i + 1])
               on == [k \in 1 .. Len(s) + 1 |-> IF k <= Len(s) THEN at[k] ELSE i + 1]
    <3>1. kept[i + 1] = t
      BY <2>6, <2>8
    <3>2. fs[i + 1] \in T
      BY <2>5, ElementOfSeq
    <3>3. /\ t \in Seq(T) /\ Len(t) = Len(s) + 1
          /\ \A k \in 1 .. Len(s) : t[k] = s[k]
          /\ t[Len(s) + 1] = fs[i + 1]
      BY <2>4, <3>2, AppendProperties
    <3>4. Picks(fs, S, i, s, at)
      BY <2>3 DEF s
    <3> HIDE DEF t
    <3>5. ASSUME NEW k \in 1 .. Len(s)
          PROVE  on[k] = at[k] /\ on[k] \in 1 .. i + 1 /\ on[k] \in 1 .. i /\ on[k] \in S
                 /\ t[k] = fs[on[k]]
      <4>1. on[k] = at[k] /\ k \in 1 .. Len(s) + 1
        BY <2>4
      <4>2. at[k] \in 1 .. i /\ at[k] \in S /\ s[k] = fs[at[k]]
        BY <3>4 DEF Picks
      <4> HIDE DEF on
      <4> QED
        BY <3>3, <4>1, <4>2
    <3>6. on[Len(s) + 1] = i + 1
      BY <2>4
    <3>7. \A k \in 1 .. Len(s) + 1 : k \in 1 .. Len(s) \/ k = Len(s) + 1
      BY <2>4
    <3>8. on \in [1 .. Len(t) -> 1 .. i + 1]
      <4>1. \A k \in 1 .. Len(s) + 1 : on[k] \in 1 .. i + 1
        <5> HIDE DEF on
        <5> QED
          BY <3>5, <3>6, <3>7
      <4> QED
        BY <3>3, <4>1
    <3> HIDE DEF on
    <3>9. \A k \in 1 .. Len(t) : on[k] \in S /\ t[k] = fs[on[k]]
      BY <2>8, <3>3, <3>5, <3>6, <3>7
    <3>10. ASSUME NEW j \in 1 .. i + 1, j \in S PROVE \E k \in 1 .. Len(t) : on[k] = j
      <4>1. CASE j = i + 1
        <5>1. Len(s) + 1 \in 1 .. Len(t)
          BY <2>4, <3>3
        <5> QED
          BY <3>6, <4>1, <5>1
      <4>2. CASE j # i + 1
        <5>1. j \in 1 .. i
          BY <4>2
        <5>2. PICK k \in 1 .. Len(s) : at[k] = j
          BY <3>4, <3>10, <5>1 DEF Picks
        <5>3. k \in 1 .. Len(t)
          BY <2>4, <3>3
        <5> QED
          BY <3>5, <5>2, <5>3
      <4> QED
        BY <4>1, <4>2
    <3>11. ASSUME NEW j \in 1 .. Len(t), NEW k \in 1 .. Len(t), j < k PROVE on[j] < on[k]
      <4>1. j \in 1 .. Len(s)
        BY <2>4, <3>3, <3>11
      <4>2. CASE k = Len(s) + 1
        BY <3>5, <3>6, <4>1, <4>2
      <4>3. CASE k \in 1 .. Len(s)
        BY <3>4, <3>5, <3>11, <4>1, <4>3 DEF Picks
      <4> QED
        BY <3>3, <3>7, <4>2, <4>3
    <3>12. Picks(fs, S, i + 1, t, on)
      BY <3>8, <3>9, <3>10, <3>11 DEF Picks
    <3> QED
      BY <3>1, <3>3, <3>12
  <2> QED
    BY <2>7, <2>8
<1>7. Good(n)
  <2>1. Nat \subseteq M
    <3> HIDE DEF M
    <3> QED
      BY <1>5, <1>6, NatSetInduction
  <2> QED
    BY <1>1, <2>1
<1> QED
  BY <1>3, <1>7

\* As a set: the elements at those places.
LEMMA KeepRange ==
  ASSUME NEW T, NEW fs \in Seq(T), NEW S
  PROVE  /\ Keep(fs, S) \in Seq(T)
         /\ Range(Keep(fs, S)) = {fs[k] : k \in S \cap DOMAIN fs}
<1> DEFINE s == Keep(fs, S)
<1>1. s \in Seq(T)
  BY KeepIs
<1>2. PICK at : Picks(fs, S, Len(fs), s, at)
  BY KeepIs
<1>3. DOMAIN s = 1 .. Len(s) /\ DOMAIN fs = 1 .. Len(fs)
  BY <1>1
<1> HIDE DEF s
<1>4. Range(s) = {s[k] : k \in 1 .. Len(s)}
  BY <1>3 DEF Range
<1>5. \A k \in 1 .. Len(s) : at[k] \in S \cap 1 .. Len(fs) /\ s[k] = fs[at[k]]
  BY <1>2 DEF Picks
<1>6. \A i \in S \cap 1 .. Len(fs) : \E k \in 1 .. Len(s) : at[k] = i
  BY <1>2 DEF Picks
<1>7. Range(s) = {fs[k] : k \in S \cap 1 .. Len(fs)}
  BY <1>4, <1>5, <1>6
<1> QED
  BY <1>1, <1>3, <1>7 DEF s

\* There are no more of them than there were.
LEMMA KeepShorter ==
  ASSUME NEW T, NEW fs \in Seq(T), NEW S
  PROVE  Len(Keep(fs, S)) <= Len(fs)
<1> DEFINE s == Keep(fs, S)
<1>1. s \in Seq(T) /\ Len(s) \in Nat /\ Len(fs) \in Nat
  BY KeepIs
<1>2. PICK at : Picks(fs, S, Len(fs), s, at)
  BY KeepIs
<1> HIDE DEF s
<1>3. /\ \A k \in 1 .. Len(s) : at[k] \in 1 .. Len(fs)
      /\ \A j, k \in 1 .. Len(s) : j < k => at[j] < at[k]
  BY <1>2 DEF Picks
<1> DEFINE M == {k \in Nat : k \in 1 .. Len(s) => k <= at[k]}
<1>4. 0 \in M
  BY <1>1
<1>5. ASSUME NEW k \in Nat, k \in M PROVE k + 1 \in M
  <2> SUFFICES ASSUME k + 1 \in 1 .. Len(s) PROVE k + 1 <= at[k + 1]
    OBVIOUS
  <2>1. at[k + 1] \in 1 .. Len(fs)
    BY <1>3
  <2>2. CASE k = 0
    BY <1>1, <2>1, <2>2
  <2>3. CASE k # 0
    <3>1. k \in 1 .. Len(s) /\ k < k + 1
      BY <1>1, <2>3
    <3>2. k <= at[k] /\ at[k] < at[k + 1] /\ at[k] \in 1 .. Len(fs)
      BY <1>3, <1>5, <3>1
    <3> QED
      BY <1>1, <2>1, <3>2
  <2> QED
    BY <2>2, <2>3
<1>6. Nat \subseteq M
  <2> HIDE DEF M
  <2> QED
    BY <1>4, <1>5, NatSetInduction
<1>7. CASE Len(s) = 0
  BY <1>1, <1>7 DEF s
<1>8. CASE Len(s) # 0
  <2>1. Len(s) \in 1 .. Len(s) /\ Len(s) \in Nat
    BY <1>1, <1>8
  <2>2. Len(s) <= at[Len(s)] /\ at[Len(s)] \in 1 .. Len(fs)
    BY <1>3, <1>6, <2>1
  <2> QED
    BY <1>1, <2>2 DEF s
<1> QED
  BY <1>7, <1>8

-----------------------------------------------------------------------------
(* Scans: recursions that go on from one place to another until they stop. *)

\* f answers val where the scan stops and elsewhere what it answers further on.
Scans(S, stop, val, next, f) ==
  f = [j \in S |-> IF j \in stop THEN val[j] ELSE f[next[j]]]

\* Each step comes nearer to the end, as m measures it.
Nears(S, stop, next, m) ==
  \A j \in S \ stop : next[j] \in S /\ m[next[j]] < m[j]

\* What holds where a scan stops and of a place when it holds of the next one,
\* holds everywhere.
LEMMA ScanInduction ==
  ASSUME NEW S, NEW stop, NEW next, NEW m \in [S -> Nat], Nears(S, stop, next, m),
         NEW T, \A j \in S : j \in stop => j \in T,
         \A j \in S \ stop : next[j] \in T => j \in T
  PROVE  S \subseteq T
<1> DEFINE N == {n \in Nat : \A j \in S : m[j] < n => j \in T}
<1>1. 0 \in N
  OBVIOUS
<1>2. ASSUME NEW n \in Nat, n \in N PROVE n + 1 \in N
  <2> SUFFICES ASSUME NEW j \in S, m[j] < n + 1 PROVE j \in T
    OBVIOUS
  <2>1. CASE j \in stop
    BY <2>1
  <2>2. CASE j \notin stop
    <3>1. next[j] \in S /\ m[next[j]] < m[j]
      BY <2>2 DEF Nears
    <3>2. m[next[j]] < n
      BY <3>1
    <3> QED
      BY <1>2, <2>2, <3>1, <3>2
  <2> QED
    BY <2>1, <2>2
<1>3. Nat \subseteq N
  <2> HIDE DEF N
  <2> QED
    BY <1>1, <1>2, NatSetInduction
<1> SUFFICES ASSUME NEW j \in S PROVE j \in T
  OBVIOUS
<1>4. m[j] + 1 \in N /\ m[j] < m[j] + 1
  BY <1>3
<1> QED
  BY <1>4

\* A scan that comes nearer to its end at each step is a function.
LEMMA ScanExists ==
  ASSUME NEW S, NEW stop, NEW val, NEW next, NEW m \in [S -> Nat], Nears(S, stop, next, m)
  PROVE  \E f : Scans(S, stop, val, next, f)
<1> DEFINE Below(n) == {j \in S : m[j] < n}
           N == {n \in Nat : \E f : Scans(Below(n), stop, val, next, f)}
<1>1. 0 \in N
  <2> DEFINE f == [j \in Below(0) |-> 0]
  <2>1. Below(0) = {}
    OBVIOUS
  <2>2. Scans(Below(0), stop, val, next, f)
    BY <2>1 DEF Scans
  <2> QED
    BY <2>2
<1>2. ASSUME NEW n \in Nat, n \in N PROVE n + 1 \in N
  <2>1. PICK f : Scans(Below(n), stop, val, next, f)
    BY <1>2
  <2> DEFINE g == [j \in Below(n + 1) |-> IF j \in stop THEN val[j] ELSE f[next[j]]]
  <2>2. ASSUME NEW j \in Below(n + 1), j \notin stop
        PROVE  next[j] \in Below(n) /\ next[j] \in Below(n + 1)
    <3>1. next[j] \in S /\ m[next[j]] < m[j]
      BY <2>2 DEF Nears
    <3> QED
      BY <3>1
  <2>3. ASSUME NEW j \in Below(n) PROVE g[j] = f[j]
    <3>1. j \in Below(n + 1)
      OBVIOUS
    <3>2. f[j] = IF j \in stop THEN val[j] ELSE f[next[j]]
      <4> HIDE DEF Below
      <4> QED
        BY <2>1 DEF Scans
    <3> HIDE DEF Below
    <3> QED
      BY <3>1, <3>2
  <2>4. ASSUME NEW j \in Below(n + 1)
        PROVE  (IF j \in stop THEN val[j] ELSE f[next[j]]) = IF j \in stop THEN val[j] ELSE g[next[j]]
    <3> HIDE DEF Below, g
    <3> QED
      BY <2>2, <2>3
  <2>5. Scans(Below(n + 1), stop, val, next, g)
    <3> HIDE DEF Below
    <3> QED
      BY <2>4 DEF Scans
  <2> HIDE DEF Below, g
  <2> QED
    BY <2>5
<1>3. Nat \subseteq N
  <2> HIDE DEF N
  <2> QED
    BY <1>1, <1>2, NatSetInduction
<1> DEFINE pick(n) == CHOOSE f : Scans(Below(n), stop, val, next, f)
           F == [j \in S |-> pick(m[j] + 1)[j]]
<1>4. ASSUME NEW n \in Nat PROVE Scans(Below(n), stop, val, next, pick(n))
  <2>1. n \in N
    BY <1>3
  <2> HIDE DEF Below
  <2> QED
    BY <2>1
<1>5. ASSUME NEW n \in Nat, NEW k \in Nat, n <= k, NEW j \in Below(n)
      PROVE  pick(n)[j] = pick(k)[j]
  <2> DEFINE T == {i \in S : i \in Below(n) => pick(n)[i] = pick(k)[i]}
  <2> HIDE DEF pick
  <2>1. ASSUME NEW i \in Below(n)
        PROVE  /\ pick(n)[i] = IF i \in stop THEN val[i] ELSE pick(n)[next[i]]
               /\ pick(k)[i] = IF i \in stop THEN val[i] ELSE pick(k)[next[i]]
    <3>1. i \in Below(k)
      <4>1. i \in S /\ m[i] \in Nat /\ m[i] < n
        OBVIOUS
      <4>2. m[i] < k
        BY <1>5, <4>1
      <4> QED
        BY <4>1, <4>2
    <3>2. Scans(Below(n), stop, val, next, pick(n)) /\ Scans(Below(k), stop, val, next, pick(k))
      BY <1>4
    <3> HIDE DEF Below
    <3> QED
      BY <3>1, <3>2 DEF Scans
  <2>2. \A i \in S : i \in stop => i \in T
    <3> HIDE DEF Below
    <3> QED
      BY <2>1
  <2>3. ASSUME NEW i \in S \ stop, next[i] \in T PROVE i \in T
    <3>1. SUFFICES ASSUME i \in Below(n) PROVE pick(n)[i] = pick(k)[i]
      OBVIOUS
    <3>2. next[i] \in S /\ m[next[i]] < m[i]
      BY DEF Nears
    <3>3. next[i] \in Below(n)
      BY <3>1, <3>2
    <3> HIDE DEF Below
    <3> QED
      BY <2>1, <2>3, <3>1, <3>3
  <2>4. S \subseteq T
    <3> HIDE DEF T
    <3> QED
      BY <2>2, <2>3, ScanInduction
  <2> QED
    BY <2>4
<1>6. ASSUME NEW j \in S PROVE F[j] = IF j \in stop THEN val[j] ELSE F[next[j]]
  <2> HIDE DEF pick
  <2>1. j \in Below(m[j] + 1) /\ m[j] + 1 \in Nat
    OBVIOUS
  <2>2. pick(m[j] + 1)[j] = IF j \in stop THEN val[j] ELSE pick(m[j] + 1)[next[j]]
    <3> HIDE DEF Below
    <3> QED
      BY <1>4, <2>1 DEF Scans
  <2>3. CASE j \notin stop
    <3>1. next[j] \in S /\ m[next[j]] < m[j]
      BY <2>3 DEF Nears
    <3>2. m[next[j]] + 1 \in Nat /\ m[next[j]] + 1 <= m[j] + 1 /\ next[j] \in Below(m[next[j]] + 1)
      BY <3>1
    <3>3. pick(m[next[j]] + 1)[next[j]] = pick(m[j] + 1)[next[j]]
      <4> HIDE DEF Below
      <4> QED
        BY <1>5, <2>1, <3>2
    <3> QED
      BY <2>2, <2>3, <3>1, <3>3
  <2> QED
    BY <2>2, <2>3
<1>7. Scans(S, stop, val, next, F)
  <2>1. F = [j \in S |-> F[j]]
    OBVIOUS
  <2> HIDE DEF F
  <2> QED
    BY <1>6, <2>1 DEF Scans
<1> HIDE DEF F
<1> QED
  BY <1>7
=============================================================================
