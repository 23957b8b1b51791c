------------------------------ MODULE FiniteSums ------------------------------
(***************************************************************************)
(* What the proofs about counters need of sums over finite sets: that the  *)
(* recursive function by which SumFunctionOnSet is defined exists, and how *)
(* a sum changes when an element joins or leaves the set.                  *)
(*                                                                         *)
(* The induction is always the same: were there a counterexample, there    *)
(* would be a smallest one.                                                *)
(***************************************************************************)
EXTENDS Integers, Functions, FiniteSetTheorems, WellFoundedInduction, TLAPS

\* A set of naturals that is not empty has a least element.
LEMMA NatMin ==
    ASSUME NEW T \in SUBSET Nat, T # {}
    PROVE  \E x \in T : \A y \in T : x <= y
<1> DEFINE R == {ss \in Nat \X Nat : ss[1] < ss[2]}
<1>1. IsWellFoundedOn(R, Nat)
  <2>1. IsWellFoundedOn(OpToRel(<, Nat), Nat)
    BY NatLessThanWellFounded
  <2> QED BY <2>1 DEF OpToRel
<1>2. PICK x \in T : \A y \in T : ~ (<<y, x>> \in R)
  <2> HIDE DEF R
  <2> QED BY <1>1, WFMin
<1>3. \A y \in T : y < x => <<y, x>> \in R
  OBVIOUS
<1> HIDE DEF R
<1>4. \A y \in T : ~ (y < x)
  BY <1>2, <1>3
<1>5. \A y \in T : x <= y
  BY <1>4
<1> QED BY <1>5

\* Among subsets of a finite set there is a smallest one.
LEMMA SmallestSubset ==
    ASSUME NEW S, IsFiniteSet(S), NEW Bad \in SUBSET (SUBSET S), Bad # {}
    PROVE  \E T \in Bad : \A U \in Bad : Cardinality(T) <= Cardinality(U)
<1> DEFINE Sizes == {Cardinality(T) : T \in Bad}
<1>1. Sizes \in SUBSET Nat /\ Sizes # {}
  <2>1. \A T \in Bad : Cardinality(T) \in Nat
    BY FS_Subset, FS_CardinalityType
  <2> QED BY <2>1
<1>2. PICK n \in Sizes : \A m \in Sizes : n <= m
  BY <1>1, NatMin
<1> QED BY <1>2

\* The element that comes next.
Pick(s) == CHOOSE x \in s : TRUE

\* iter is the function by which the sum of f over S is defined.
Sums(iter, f, S) ==
    iter = [s \in SUBSET S |->
              IF s = {} THEN 0
              ELSE f[Pick(s)] + iter[s \ {Pick(s)}]]

\* The same for the subsets of S with at most n elements.
SumsUpTo(iter, f, S, n) ==
    iter = [s \in {s \in SUBSET S : Cardinality(s) <= n} |->
              IF s = {} THEN 0
              ELSE f[Pick(s)] + iter[s \ {Pick(s)}]]

\* What such a function says of one subset.
LEMMA SumsAt ==
    ASSUME NEW iter, NEW f, NEW S, Sums(iter, f, S), NEW s \in SUBSET S
    PROVE  /\ s = {} => iter[s] = 0
           /\ s # {} => /\ Pick(s) \in s
                        /\ iter[s] = f[Pick(s)] + iter[s \ {Pick(s)}]
BY DEF Sums, Pick

\* They exist, one size after the other.
LEMMA SumsUpToExist ==
    ASSUME NEW f, NEW S, IsFiniteSet(S), NEW n \in Nat
    PROVE  \E iter : SumsUpTo(iter, f, S, n)
<1> DEFINE Bad == {m \in Nat : ~ \E iter : SumsUpTo(iter, f, S, m)}
<1>1. SUFFICES ASSUME Bad # {} PROVE FALSE
  OBVIOUS
<1>2. PICK m \in Bad : \A k \in Bad : m <= k
  <2> HIDE DEF Bad
  <2>1. Bad \in SUBSET Nat
    BY DEF Bad
  <2> QED BY <1>1, <2>1, NatMin
<1>3. \A s \in SUBSET S : IsFiniteSet(s) /\ Cardinality(s) \in Nat
  BY FS_Subset, FS_CardinalityType
<1>4. \A s \in SUBSET S : Cardinality(s) = 0 <=> s = {}
  BY <1>3, FS_EmptySet
<1>5. m # 0
  <2> SUFFICES ASSUME m = 0 PROVE FALSE
    OBVIOUS
  <2> DEFINE g == [s \in {s \in SUBSET S : Cardinality(s) <= 0} |-> 0]
  <2>1. \A s \in SUBSET S : Cardinality(s) <= 0 => s = {}
    BY <1>3, <1>4
  <2>2. SumsUpTo(g, f, S, 0)
    BY <2>1 DEF SumsUpTo
  <2> QED BY <1>2, <2>2
<1>6. PICK g : SumsUpTo(g, f, S, m - 1)
  BY <1>2, <1>5
<1> DEFINE D(k) == {s \in SUBSET S : Cardinality(s) <= k}
           h == [s \in D(m) |->
                   IF s = {} THEN 0
                   ELSE f[Pick(s)] + g[s \ {Pick(s)}]]
<1>7. \A s \in D(m) : s # {} => s \ {Pick(s)} \in D(m - 1)
  <2> SUFFICES ASSUME NEW s \in D(m), s # {}, NEW x \in s PROVE s \ {x} \in D(m - 1)
    BY DEF Pick
  <2>1. Cardinality(s \ {x}) = Cardinality(s) - 1
    BY <1>3, FS_RemoveElement
  <2> QED BY <2>1, <1>3
<1>8. \A s \in D(m - 1) : s \in D(m) /\ h[s] = g[s]
  <2>1. \A s \in D(m - 1) : s \in D(m)
    BY <1>3
  <2> QED BY <1>6, <2>1 DEF SumsUpTo
<1>9. SumsUpTo(h, f, S, m)
  <2>1. \A s \in D(m) : h[s] = IF s = {} THEN 0 ELSE f[Pick(s)] + g[s \ {Pick(s)}]
    OBVIOUS
  <2>2. \A s \in D(m) : s # {} => g[s \ {Pick(s)}] = h[s \ {Pick(s)}]
    BY <1>7, <1>8
  <2>3. h = [s \in D(m) |-> h[s]]
    OBVIOUS
  <2> HIDE DEF h
  <2>4. \A s \in D(m) : h[s] = IF s = {} THEN 0 ELSE f[Pick(s)] + h[s \ {Pick(s)}]
    BY <2>1, <2>2
  <2> QED BY <2>3, <2>4 DEF SumsUpTo
<1> QED BY <1>2, <1>9

\* Hence the function that defines the sums over a finite set exists.
LEMMA SumsExist ==
    ASSUME NEW f, NEW S, IsFiniteSet(S)
    PROVE  \E iter : Sums(iter, f, S)
<1>1. Cardinality(S) \in Nat /\ \A s \in SUBSET S : Cardinality(s) <= Cardinality(S)
  BY FS_Subset, FS_CardinalityType
<1>2. PICK iter : SumsUpTo(iter, f, S, Cardinality(S))
  BY <1>1, SumsUpToExist
<1>3. {s \in SUBSET S : Cardinality(s) <= Cardinality(S)} = SUBSET S
  BY <1>1
<1>4. Sums(iter, f, S)
  BY <1>2, <1>3 DEF Sums, SumsUpTo
<1> QED BY <1>4

\* Two sums agree on a common subset on which their summands agree.
LEMMA SumsAgree ==
    ASSUME NEW f, NEW S, NEW iter, Sums(iter, f, S),
           NEW g, NEW T, NEW jter, Sums(jter, g, T),
           NEW U, IsFiniteSet(U), U \subseteq S, U \subseteq T,
           \A x \in U : f[x] = g[x]
    PROVE  iter[U] = jter[U]
<1> DEFINE Bad == {s \in SUBSET U : iter[s] # jter[s]}
<1>1. SUFFICES ASSUME Bad # {} PROVE FALSE
  OBVIOUS
<1>2. PICK s \in Bad : \A t \in Bad : Cardinality(s) <= Cardinality(t)
  <2>1. Bad \in SUBSET (SUBSET U)
    OBVIOUS
  <2> HIDE DEF Bad
  <2> QED BY <1>1, <2>1, SmallestSubset
<1>3. s \in SUBSET S /\ s \in SUBSET T /\ iter[s] # jter[s]
  OBVIOUS
<1>4. s # {}
  BY <1>3, SumsAt
<1> DEFINE x == Pick(s)
<1>5. x \in s /\ iter[s] = f[x] + iter[s \ {x}] /\ jter[s] = g[x] + jter[s \ {x}]
  BY <1>3, <1>4, SumsAt
<1> HIDE DEF x
<1>6. Cardinality(s \ {x}) < Cardinality(s)
  <2>1. IsFiniteSet(s) /\ Cardinality(s) \in Nat
    BY FS_Subset, FS_CardinalityType
  <2>2. Cardinality(s \ {x}) = Cardinality(s) - 1
    BY <1>5, <2>1, FS_RemoveElement
  <2> QED BY <2>1, <2>2
<1>7. s \ {x} \notin Bad
  <2>1. IsFiniteSet(s) /\ Cardinality(s) \in Nat /\ Cardinality(s \ {x}) \in Nat
    BY FS_Subset, FS_CardinalityType
  <2> QED BY <1>2, <1>6, <2>1
<1>8. iter[s \ {x}] = jter[s \ {x}]
  BY <1>7
<1> QED BY <1>3, <1>5, <1>8

\* SumFunctionOnSet is defined by such a function.
LEMMA SumIsSums ==
    ASSUME NEW f, NEW S, IsFiniteSet(S)
    PROVE  \E iter : Sums(iter, f, S) /\ SumFunctionOnSet(f, S) = iter[S]
<1> DEFINE it == CHOOSE iter : Sums(iter, f, S)
<1>1. Sums(it, f, S)
  BY SumsExist
<1>2. SumFunctionOnSet(f, S) = it[S]
  BY DEF SumFunctionOnSet, FoldFunctionOnSet, MapThenFoldSet, Sums, Pick
<1> HIDE DEF it
<1> QED BY <1>1, <1>2

\* The sum over no element.
LEMMA SumEmpty ==
    ASSUME NEW f
    PROVE  SumFunctionOnSet(f, {}) = 0
BY SumIsSums, FS_EmptySet, SumsAt

\* Sums are equal if their summands are.
LEMMA SumCongruence ==
    ASSUME NEW f, NEW g, NEW S, IsFiniteSet(S), \A x \in S : f[x] = g[x]
    PROVE  SumFunctionOnSet(f, S) = SumFunctionOnSet(g, S)
<1>1. PICK iter : Sums(iter, f, S) /\ SumFunctionOnSet(f, S) = iter[S]
  BY SumIsSums
<1>2. PICK jter : Sums(jter, g, S) /\ SumFunctionOnSet(g, S) = jter[S]
  BY SumIsSums
<1>3. iter[S] = jter[S]
  BY <1>1, <1>2, SumsAgree
<1> QED BY <1>1, <1>2, <1>3

\* The first element of a set, and the sum over the others.
LEMMA SumStep ==
    ASSUME NEW f, NEW S, IsFiniteSet(S), S # {}
    PROVE  /\ Pick(S) \in S
           /\ SumFunctionOnSet(f, S) = f[Pick(S)] + SumFunctionOnSet(f, S \ {Pick(S)})
<1> DEFINE x == Pick(S)
           T == S \ {x}
<1>1. PICK iter : Sums(iter, f, S) /\ SumFunctionOnSet(f, S) = iter[S]
  BY SumIsSums
<1>2. x \in S /\ iter[S] = f[x] + iter[T]
  BY <1>1, SumsAt
<1>3. IsFiniteSet(T)
  BY FS_Subset
<1>4. PICK jter : Sums(jter, f, T) /\ SumFunctionOnSet(f, T) = jter[T]
  BY <1>3, SumIsSums
<1>5. iter[T] = jter[T]
  <2> HIDE DEF x
  <2> QED BY <1>1, <1>3, <1>4, SumsAgree
<1> QED BY <1>1, <1>2, <1>4, <1>5

\* The size of a finite set, and of the set without one of its elements.
LEMMA Smaller ==
    ASSUME NEW S, IsFiniteSet(S), NEW x \in S
    PROVE  /\ IsFiniteSet(S \ {x}) /\ Cardinality(S) \in Nat /\ Cardinality(S \ {x}) \in Nat
           /\ Cardinality(S \ {x}) < Cardinality(S)
<1>1. IsFiniteSet(S \ {x}) /\ Cardinality(S) \in Nat /\ Cardinality(S \ {x}) \in Nat
  BY FS_Subset, FS_CardinalityType
<1>2. Cardinality(S \ {x}) = Cardinality(S) - 1
  BY FS_RemoveElement
<1> QED BY <1>1, <1>2

\* The sum of naturals is a natural.
LEMMA SumType ==
    ASSUME NEW f, NEW S, IsFiniteSet(S), \A x \in S : f[x] \in Nat
    PROVE  SumFunctionOnSet(f, S) \in Nat
<1> DEFINE Bad == {T \in SUBSET S : SumFunctionOnSet(f, T) \notin Nat}
<1>1. SUFFICES ASSUME Bad # {} PROVE FALSE
  OBVIOUS
<1>2. PICK T \in Bad : \A U \in Bad : Cardinality(T) <= Cardinality(U)
  <2>1. Bad \in SUBSET (SUBSET S)
    OBVIOUS
  <2> HIDE DEF Bad
  <2> QED BY <1>1, <2>1, SmallestSubset
<1>3. IsFiniteSet(T) /\ T \subseteq S /\ SumFunctionOnSet(f, T) \notin Nat
  BY FS_Subset
<1>4. T # {}
  BY <1>3, SumEmpty
<1> DEFINE x == Pick(T)
           U == T \ {x}
<1>5. x \in T /\ SumFunctionOnSet(f, T) = f[x] + SumFunctionOnSet(f, U)
  BY <1>3, <1>4, SumStep
<1> HIDE DEF x
<1>6. U \notin Bad
  <2>1. Cardinality(U) \in Nat /\ Cardinality(T) \in Nat /\ Cardinality(U) < Cardinality(T)
    BY <1>3, <1>5, Smaller
  <2> HIDE DEF U, Bad
  <2> QED BY <1>2, <2>1
<1>7. SumFunctionOnSet(f, U) \in Nat /\ f[x] \in Nat
  BY <1>3, <1>5, <1>6
<1> QED BY <1>3, <1>5, <1>7

\* A sum of zeros.
LEMMA SumZero ==
    ASSUME NEW f, NEW S, IsFiniteSet(S), \A x \in S : f[x] = 0
    PROVE  SumFunctionOnSet(f, S) = 0
<1> DEFINE Bad == {T \in SUBSET S : SumFunctionOnSet(f, T) # 0}
<1>1. SUFFICES ASSUME Bad # {} PROVE FALSE
  OBVIOUS
<1>2. PICK T \in Bad : \A U \in Bad : Cardinality(T) <= Cardinality(U)
  <2>1. Bad \in SUBSET (SUBSET S)
    OBVIOUS
  <2> HIDE DEF Bad
  <2> QED BY <1>1, <2>1, SmallestSubset
<1>3. IsFiniteSet(T) /\ T \subseteq S /\ SumFunctionOnSet(f, T) # 0
  BY FS_Subset
<1>4. T # {}
  BY <1>3, SumEmpty
<1> DEFINE x == Pick(T)
           U == T \ {x}
<1>5. x \in T /\ SumFunctionOnSet(f, T) = f[x] + SumFunctionOnSet(f, U)
  BY <1>3, <1>4, SumStep
<1> HIDE DEF x
<1>6. U \notin Bad
  <2>1. Cardinality(U) \in Nat /\ Cardinality(T) \in Nat /\ Cardinality(U) < Cardinality(T)
    BY <1>3, <1>5, Smaller
  <2> HIDE DEF U, Bad
  <2> QED BY <1>2, <2>1
<1>7. SumFunctionOnSet(f, U) = 0 /\ f[x] = 0
  BY <1>3, <1>5, <1>6
<1> QED BY <1>3, <1>5, <1>7

\* Whichever element is taken out first, the sum is the same.
LEMMA SumRemove ==
    ASSUME NEW f, NEW S, IsFiniteSet(S), \A x \in S : f[x] \in Nat, NEW e \in S
    PROVE  SumFunctionOnSet(f, S) = f[e] + SumFunctionOnSet(f, S \ {e})
<1> DEFINE Wrong(T) == \E d \in T : SumFunctionOnSet(f, T) # f[d] + SumFunctionOnSet(f, T \ {d})
           Bad == {T \in SUBSET S : Wrong(T)}
<1>1. SUFFICES ASSUME Bad # {} PROVE FALSE
  <2>1. S \in SUBSET S
    OBVIOUS
  <2> QED BY <2>1
<1>2. PICK T \in Bad : \A U \in Bad : Cardinality(T) <= Cardinality(U)
  <2>1. Bad \in SUBSET (SUBSET S)
    OBVIOUS
  <2> HIDE DEF Bad
  <2> QED BY <1>1, <2>1, SmallestSubset
<1>3. PICK d \in T : SumFunctionOnSet(f, T) # f[d] + SumFunctionOnSet(f, T \ {d})
  OBVIOUS
<1>4. T \subseteq S /\ IsFiniteSet(T)
  BY FS_Subset
<1> DEFINE x == Pick(T)
<1>5. x \in T /\ SumFunctionOnSet(f, T) = f[x] + SumFunctionOnSet(f, T \ {x})
  BY <1>3, <1>4, SumStep
<1> HIDE DEF x
<1>6. x # d
  BY <1>3, <1>5
<1>7. \A U \in SUBSET S : Cardinality(U) \in Nat /\ Cardinality(T) \in Nat
                            /\ Cardinality(U) < Cardinality(T) => ~Wrong(U)
  <2> SUFFICES ASSUME NEW U \in SUBSET S, Cardinality(U) \in Nat, Cardinality(T) \in Nat,
                      Cardinality(U) < Cardinality(T), Wrong(U)
               PROVE FALSE
    OBVIOUS
  <2>1. U \in Bad
    OBVIOUS
  <2> HIDE DEF Bad
  <2> QED BY <1>2, <2>1
<1>8. SumFunctionOnSet(f, T \ {x}) = f[d] + SumFunctionOnSet(f, (T \ {x}) \ {d})
  <2>1. d \in T \ {x} /\ T \ {x} \in SUBSET S
    BY <1>4, <1>6
  <2>2. ~Wrong(T \ {x})
    BY <1>4, <1>5, <1>7, <2>1, Smaller
  <2> QED BY <2>1, <2>2
<1>9. SumFunctionOnSet(f, T \ {d}) = f[x] + SumFunctionOnSet(f, (T \ {d}) \ {x})
  <2>1. x \in T \ {d} /\ T \ {d} \in SUBSET S
    BY <1>4, <1>5, <1>6
  <2>2. ~Wrong(T \ {d})
    BY <1>3, <1>4, <1>7, <2>1, Smaller
  <2> QED BY <2>1, <2>2
<1>10. (T \ {x}) \ {d} = (T \ {d}) \ {x}
  OBVIOUS
<1>11. /\ f[x] \in Nat /\ f[d] \in Nat
       /\ SumFunctionOnSet(f, (T \ {x}) \ {d}) \in Nat
  <2>1. IsFiniteSet((T \ {x}) \ {d}) /\ \A y \in (T \ {x}) \ {d} : f[y] \in Nat
    BY <1>4, FS_Subset
  <2> QED BY <1>3, <1>4, <1>5, <2>1, SumType
<1> HIDE DEF Bad, Wrong
<1> QED BY <1>3, <1>5, <1>8, <1>9, <1>10, <1>11

\* An element joins a set.
LEMMA SumAdd ==
    ASSUME NEW f, NEW S, IsFiniteSet(S), NEW e, e \notin S, \A x \in S \union {e} : f[x] \in Nat
    PROVE  SumFunctionOnSet(f, S \union {e}) = SumFunctionOnSet(f, S) + f[e]
<1>1. IsFiniteSet(S \union {e})
  BY FS_AddElement
<1>2. (S \union {e}) \ {e} = S
  OBVIOUS
<1>3. SumFunctionOnSet(f, S \union {e}) = f[e] + SumFunctionOnSet(f, S)
  BY <1>1, <1>2, SumRemove
<1>4. SumFunctionOnSet(f, S) \in Nat /\ f[e] \in Nat
  BY SumType
<1> QED BY <1>3, <1>4
===============================================================================
