-------------------------- MODULE AlgorithmsProofs --------------------------
(***************************************************************************)
(* Proofs about the algorithms without processes, for inputs of every size *)
(* that Algorithms admits.                                                 *)
(*                                                                         *)
(* The properties of the sort say nothing before it ends; SortInv says     *)
(* what holds after every turn of the loop: what is left of the in-degrees *)
(* (Counted), and that the list so far stands on its own (Grounded).       *)
(*                                                                         *)
(* The other algorithms are functions, most of them written as folds.      *)
(* That the function which defines a fold exists is proved by a least      *)
(* counterexample (FoldsExist), and so is what holds of its values.  So is *)
(* the memoised walk along the imports, a function of a module, the path   *)
(* it was reached on and the cache so far: what it returns starts a chain  *)
(* (Backed) and, without cycles, no chain is longer (Exact).  The          *)
(* composition then only adds which input a behaviour is about.            *)
(***************************************************************************)
EXTENDS Algorithms, FiniteSums, SequenceTheorems

Deps(t) == get_dependencies(t)

Named(seq) == {seq[i] : i \in 1..Len(seq)}

OnceEach(seq) == \A i, j \in 1..Len(seq) : seq[i] = seq[j] => i = j

\* Each task of a list stands behind all it depends on.
Grounded(seq) == \A j \in 1..Len(seq) : \A s \in Deps(seq[j]) : \E i \in 1..(j - 1) : seq[i] = s

SortTypes ==
    /\ stage \in {"building", "sorting", "sorted", "cycle"}
    /\ edges \in Seq(Tasks \X Tasks)
    /\ in_degree \in [Tasks -> Int]
    /\ queue \in Seq(Tasks)
    /\ sorted \in Seq(Tasks)

\* in_degree is what is left of the edges when one per visited dependency is
\* taken off, and it is zero for the tasks that were queued, and no others.
Counted ==
    \A t \in Tasks :
        /\ in_degree[t] = InDegree(t) - Cardinality(Deps(t) \intersect Named(sorted))
        /\ in_degree[t] = 0 <=> t \in Named(sorted) \union Named(queue)

SortInv ==
    /\ SortTypes
    /\ stage = "building" => queue = << >> /\ sorted = << >>
    /\ stage # "building" =>
          /\ Counted /\ Grounded(sorted)
          /\ OnceEach(sorted) /\ OnceEach(queue)
          /\ Named(sorted) \intersect Named(queue) = {}
    /\ stage \in {"sorted", "cycle"} => queue = << >>
    /\ stage = "sorted" => Len(sorted) = Cardinality(Tasks)
    /\ stage = "cycle" => Len(sorted) # Cardinality(Tasks)

\* What a dict lists is finite.
LEMMA TasksAreFinite ==
    ASSUME TasksListed
    PROVE  IsFiniteSet(Tasks)
  <1>1. TaskOrder \in Surjection(1..Len(TaskOrder), Tasks)
    BY DEF TasksListed, Surjection
  <1> QED
    BY <1>1, FS_Interval, FS_Surjection DEF TasksListed

\* There are as many edges to a task as it has dependencies, or more if one was
\* added twice.
LEMMA DependenciesCounted ==
    ASSUME IsFiniteSet(Tasks), edges \in Seq(Tasks \X Tasks), NEW t \in Tasks
    PROVE  /\ IsFiniteSet(Deps(t)) /\ Cardinality(Deps(t)) \in Nat
           /\ InDegree(t) \in Nat
           /\ Cardinality(Deps(t)) <= InDegree(t)
           /\ ~DuplicateEdge => Cardinality(Deps(t)) = InDegree(t)
  <1> DEFINE I == {i \in 1..Len(edges) : edges[i][2] = t}
             source == [i \in I |-> edges[i][1]]
  <1>1. Len(edges) \in Nat /\ \A i \in 1..Len(edges) :
           edges[i] = <<edges[i][1], edges[i][2]>> /\ edges[i][1] \in Tasks /\ edges[i][2] \in Tasks
    OBVIOUS
  <1>2. IsFiniteSet(I)
    <2>1. IsFiniteSet(1..Len(edges)) /\ I \in SUBSET (1..Len(edges))
      BY <1>1, FS_Interval
    <2> QED
      BY <2>1, FS_Subset
  <1>3. source \in Surjection(I, Deps(t))
    BY <1>1 DEF Surjection, Deps, get_dependencies
  <1>4. InDegree(t) = Cardinality(I)
    BY DEF InDegree
  <1>5. ASSUME ~DuplicateEdge PROVE source \in Injection(I, Deps(t))
    <2> SUFFICES ASSUME NEW i \in I, NEW j \in I, source[i] = source[j] PROVE i = j
      BY <1>3 DEF Injection, IsInjective, Surjection
    <2>1. edges[i] = <<source[i], t>> /\ edges[j] = <<source[j], t>>
      BY <1>1
    <2> QED
      BY <1>5, <2>1 DEF DuplicateEdge
  <1>6. IsFiniteSet(Deps(t)) /\ Deps(t) \subseteq Tasks
    BY FS_Subset DEF Deps, get_dependencies
  <1> HIDE DEF source, I
  <1> QED
    BY <1>2, <1>3, <1>4, <1>5, <1>6, FS_Surjection, FS_CardinalityType

\* When as many dependencies were visited as there are edges, all were.
LEMMA AllFollowed ==
    ASSUME IsFiniteSet(Tasks), edges \in Seq(Tasks \X Tasks), NEW t \in Tasks, NEW V,
           InDegree(t) = Cardinality(Deps(t) \intersect V)
    PROVE  Deps(t) \subseteq V
  <1>1. /\ Cardinality(Deps(t) \intersect V) <= Cardinality(Deps(t))
        /\ Cardinality(Deps(t)) = Cardinality(Deps(t) \intersect V) => Deps(t) = Deps(t) \intersect V
        /\ Cardinality(Deps(t) \intersect V) \in Nat
    BY DependenciesCounted, FS_Subset, FS_CardinalityType
  <1> QED
    BY <1>1, DependenciesCounted

\* A list that names every member of a finite set once, as SetToSeqs yields.
LEMMA Lists ==
    ASSUME NEW S \in SUBSET Tasks, IsFiniteSet(Tasks), NEW q \in SetToSeqs(S)
    PROVE  q \in Seq(Tasks) /\ Named(q) = S /\ OnceEach(q)
  <1>1. IsFiniteSet(S) /\ Cardinality(S) \in Nat
    BY FS_Subset, FS_CardinalityType
  <1> DEFINE D == 1..Cardinality(S)
  <1>2. q \in [D -> S] /\ \A i, j \in D : i # j => q[i] # q[j]
    BY DEF SetToSeqs
  <1>3. q \in Injection(D, S)
    <2>1. \A i, j \in D : q[i] = q[j] => i = j
      BY <1>2
    <2> HIDE DEF D
    <2> QED
      BY <1>2, <2>1 DEF Injection, IsInjective
  <1>4. Cardinality(D) = Cardinality(S)
    BY <1>1, FS_Interval
  <1>5. q \in Surjection(D, S)
    BY <1>1, <1>3, <1>4, FS_Injection
  <1>6. q \in Seq(Tasks) /\ Len(q) = Cardinality(S)
    BY <1>1, <1>2
  <1> QED
    BY <1>2, <1>5, <1>6 DEF Named, OnceEach, Surjection

\* What a visit of the head of the queue does to the lists.
LEMMA HeadMoves ==
    ASSUME NEW q \in Seq(Tasks), q # << >>, NEW s \in Seq(Tasks), NEW p \in Seq(Tasks),
           OnceEach(q), OnceEach(s), OnceEach(p), Named(s) \intersect Named(q) = {},
           Named(p) \intersect (Named(s) \union Named(q)) = {}
    PROVE  /\ Head(q) \in Named(q) /\ Head(q) \in Tasks
           /\ Append(s, Head(q)) \in Seq(Tasks) /\ Named(Append(s, Head(q))) = Named(s) \union {Head(q)}
           /\ OnceEach(Append(s, Head(q)))
           /\ Tail(q) \o p \in Seq(Tasks)
           /\ Named(Tail(q) \o p) = (Named(q) \ {Head(q)}) \union Named(p)
           /\ OnceEach(Tail(q) \o p)
  <1> DEFINE h == Head(q)
             n == Len(q) - 1
             r == Tail(q) \o p
  <1>1. Len(q) \in Nat /\ Len(q) > 0 /\ h = q[1] /\ h \in Tasks /\ h \in Named(q)
    BY DEF Named
  <1>2. /\ Append(s, h) \in Seq(Tasks) /\ Len(Append(s, h)) = Len(s) + 1
        /\ \A i \in 1..(Len(s) + 1) : Append(s, h)[i] = IF i <= Len(s) THEN s[i] ELSE h
    BY <1>1
  <1>3. h \notin Named(s)
    BY <1>1
  <1>4. Named(Append(s, h)) = Named(s) \union {h}
    BY <1>2 DEF Named
  <1>5. OnceEach(Append(s, h))
    BY <1>2, <1>3 DEF OnceEach, Named
  <1>6. Tail(q) \in Seq(Tasks) /\ Len(Tail(q)) = n /\ \A i \in 1..n : Tail(q)[i] = q[i + 1]
    BY <1>1
  <1>7. /\ r \in Seq(Tasks) /\ Len(r) = n + Len(p)
        /\ \A i \in 1..(n + Len(p)) : r[i] = IF i <= n THEN q[i + 1] ELSE p[i - n]
    BY <1>1, <1>6
  <1>8. Named(r) = (Named(q) \ {h}) \union Named(p)
    <2>1. ASSUME NEW x \in Named(r) PROVE x \in (Named(q) \ {h}) \union Named(p)
      BY <1>1, <1>7 DEF Named, OnceEach
    <2>2. ASSUME NEW x \in Named(q) \ {h} PROVE x \in Named(r)
      <3>1. PICK i \in 1..Len(q) : q[i] = x
        BY DEF Named
      <3>2. i - 1 \in 1..n /\ r[i - 1] = x
        BY <1>1, <1>7, <3>1
      <3>3. n \in Nat /\ Len(p) \in Nat
        BY <1>1
      <3> HIDE DEF r, n
      <3>4. i - 1 \in 1..Len(r)
        BY <1>7, <3>2, <3>3
      <3> QED
        BY <3>2, <3>4 DEF Named
    <2>3. ASSUME NEW x \in Named(p) PROVE x \in Named(r)
      <3>1. PICK i \in 1..Len(p) : p[i] = x
        BY DEF Named
      <3>2. n + i \in 1..(n + Len(p)) /\ ~(n + i <= n) /\ (n + i) - n = i
        BY <1>1
      <3>3. r[n + i] = p[(n + i) - n]
        BY <1>7, <3>2
      <3>4. Len(r) = n + Len(p) /\ r[n + i] = x
        BY <1>7, <3>1, <3>2, <3>3
      <3> HIDE DEF r, n
      <3> QED
        BY <3>2, <3>4 DEF Named
    <2> QED
      BY <2>1, <2>2, <2>3
  <1>9. OnceEach(r)
    <2>10. n \in Nat /\ n + 1 = Len(q) /\ Len(p) \in Nat
      BY <1>1
    <2>11. Named(q) \intersect Named(p) = {}
      OBVIOUS
    <2> HIDE DEF r, n
    <2> SUFFICES ASSUME NEW i \in 1..(n + Len(p)), NEW j \in 1..(n + Len(p)), r[i] = r[j], i < j PROVE FALSE
      BY <1>7, <2>10 DEF OnceEach
    <2>1. CASE j <= n
      <3>1. q[i + 1] = q[j + 1] /\ i + 1 \in 1..Len(q) /\ j + 1 \in 1..Len(q)
        BY <1>7, <2>1, <2>10
      <3>2. i + 1 = j + 1
        BY <3>1 DEF OnceEach
      <3> QED
        BY <3>2, <2>10
    <2>2. CASE i <= n /\ ~(j <= n)
      <3>1. r[i] \in Named(q) /\ r[j] \in Named(p)
        <4>1. /\ r[i] = q[i + 1] /\ i + 1 \in 1..Len(q)
              /\ r[j] = p[j - n] /\ j - n \in 1..Len(p)
          BY <1>7, <2>2, <2>10
        <4> QED
          BY <4>1 DEF Named
      <3> QED
        BY <3>1, <2>11
    <2>3. CASE ~(i <= n)
      <3>1. p[i - n] = p[j - n] /\ i - n \in 1..Len(p) /\ j - n \in 1..Len(p)
        BY <1>7, <2>3, <2>10
      <3>2. i - n = j - n
        BY <3>1 DEF OnceEach
      <3> QED
        BY <3>2, <2>10
    <2> QED
      BY <2>1, <2>2, <2>3, <2>10
  <1> QED
    BY <1>1, <1>2, <1>4, <1>5, <1>7, <1>8, <1>9

\* A sort starts with what no edge leads to.
LEMMA CompileKeepsSortInv ==
    ASSUME IsFiniteSet(Tasks), SortInv, Compile
    PROVE  SortInv'
  <1>1. PICK q \in SetToSeqs({t \in Tasks : InDegree(t) = 0}) : queue' = q
    BY DEF Compile
  <1>2. /\ stage = "building" /\ stage' = "sorting" /\ edges' = edges /\ sorted' = << >>
        /\ in_degree' = [t \in Tasks |-> InDegree(t)] /\ edges \in Seq(Tasks \X Tasks)
    BY DEF Compile, SortInv, SortTypes
  <1>3. q \in Seq(Tasks) /\ Named(q) = {t \in Tasks : InDegree(t) = 0} /\ OnceEach(q)
    BY Lists
  <1>4. Named(<< >>) = {} /\ OnceEach(<< >>) /\ Cardinality({}) = 0
    BY FS_EmptySet DEF Named, OnceEach
  <1>5. \A t \in Tasks : InDegree(t) \in Nat /\ in_degree'[t] = InDegree(t)
    BY <1>2, DependenciesCounted
  <1>6. SortTypes'
    BY <1>1, <1>2, <1>3, <1>5 DEF SortTypes
  <1>7. Counted'
    <2> SUFFICES ASSUME NEW t \in Tasks
                 PROVE  /\ in_degree'[t] = InDegree(t)' - Cardinality(Deps(t)' \intersect Named(sorted)')
                        /\ in_degree'[t] = 0 <=> t \in Named(sorted)' \union Named(queue)'
      BY DEF Counted
    <2>1. InDegree(t)' = InDegree(t)
      BY <1>2 DEF InDegree
    <2>2. Named(sorted)' = {} /\ Named(queue)' = Named(q)
      BY <1>1, <1>2, <1>4 DEF Named
    <2>3. Deps(t)' \intersect Named(sorted)' = {}
      BY <2>2
    <2> QED
      BY <1>3, <1>4, <1>5, <2>1, <2>2, <2>3
  <1>8. Grounded(sorted)'
    BY <1>2 DEF Grounded
  <1>9. OnceEach(sorted)' /\ OnceEach(queue)' /\ (Named(sorted) \intersect Named(queue))' = {}
    BY <1>1, <1>2, <1>3, <1>4 DEF OnceEach, Named
  <1> QED
    BY <1>2, <1>6, <1>7, <1>8, <1>9 DEF SortInv

\* A visit counts one edge per dependent and queues who has none left.
LEMMA VisitKeepsSortInv ==
    ASSUME IsFiniteSet(Tasks), SortInv, Visit
    PROVE  SortInv'
  <1> DEFINE h == Head(queue)
             V == Named(sorted)
             W == Named(queue)
             degree == [t \in Tasks |-> in_degree[t] - (IF t \in get_dependents(h) THEN 1 ELSE 0)]
             R == Released(get_dependents(h), degree)
  <1>1. PICK p \in SetToSeqs(R) : queue' = Tail(queue) \o p
    BY DEF Visit
  <1>2. /\ stage = "sorting" /\ stage' = "sorting" /\ edges' = edges /\ queue # << >>
        /\ in_degree' = degree /\ sorted' = Append(sorted, h)
    BY DEF Visit
  <1>3. SortTypes /\ Counted /\ Grounded(sorted) /\ OnceEach(sorted) /\ OnceEach(queue) /\ V \intersect W = {}
    BY <1>2 DEF SortInv
  <1>4. \A t \in Tasks : /\ t \in get_dependents(h) <=> h \in Deps(t)
                         /\ Deps(t) \subseteq Tasks
    <2>1. h \in Tasks
      BY <1>2, <1>3 DEF SortTypes
    <2> HIDE DEF h
    <2> QED
      BY <2>1 DEF get_dependents, get_dependencies, Deps
  <1>5. \A t \in Tasks : in_degree[t] = 0 => Deps(t) \subseteq V
    <2> SUFFICES ASSUME NEW t \in Tasks, in_degree[t] = 0 PROVE Deps(t) \subseteq V
      OBVIOUS
    <2>1. /\ edges \in Seq(Tasks \X Tasks)
          /\ 0 = InDegree(t) - Cardinality(Deps(t) \intersect V)
      BY <1>3 DEF Counted, SortTypes
    <2>2. Cardinality(Deps(t) \intersect V) \in Nat /\ InDegree(t) \in Nat
      BY <2>1, DependenciesCounted, FS_Intersection, FS_CardinalityType
    <2> HIDE DEF V
    <2> QED
      BY <2>1, <2>2, AllFollowed
  <1>6. \A t \in Tasks : /\ in_degree[t] \in Int
                         /\ degree[t] = in_degree[t] - (IF h \in Deps(t) THEN 1 ELSE 0)
    BY <1>3, <1>4 DEF SortTypes
  <1>7. /\ R \subseteq Tasks
        /\ \A t \in Tasks : t \in R <=> h \in Deps(t) /\ degree[t] = 0
    <2> HIDE DEF h, degree
    <2>1. get_dependents(h) \subseteq Tasks
      BY DEF get_dependents
    <2> QED
      BY <1>4, <2>1 DEF Released
  <1> HIDE DEF R, degree
  <1>8. p \in Seq(Tasks) /\ Named(p) = R /\ OnceEach(p)
    BY <1>7, Lists
  <1>9. h \in W /\ h \notin V /\ h \in Tasks
    <2>1. queue \in Seq(Tasks) /\ Len(queue) \in Nat /\ Len(queue) > 0 /\ h = queue[1]
      BY <1>2, <1>3 DEF SortTypes
    <2>2. h \in W /\ h \in Tasks
      BY <2>1 DEF Named
    <2> HIDE DEF h, V, W
    <2> QED
      BY <1>3, <2>2
  <1>10. \A t \in Tasks : t \in V \union W => in_degree[t] = 0 /\ h \notin Deps(t)
    BY <1>3, <1>5, <1>9 DEF Counted
  <1>11. R \intersect (V \union W) = {}
    BY <1>7, <1>10
  <1> DEFINE s == Append(sorted, h)
             r == Tail(queue) \o p
  <1>12. /\ s \in Seq(Tasks) /\ Named(s) = V \union {h} /\ OnceEach(s)
         /\ r \in Seq(Tasks) /\ Named(r) = (W \ {h}) \union R /\ OnceEach(r)
    <2>1. queue \in Seq(Tasks) /\ sorted \in Seq(Tasks)
      BY <1>3 DEF SortTypes
    <2> QED
      BY <1>2, <1>3, <1>8, <1>11, <2>1, HeadMoves
  <1> HIDE DEF s, r
  <1>13. sorted' = s /\ queue' = r
    BY <1>1, <1>2 DEF s, r
  <1>14. /\ (SortTypes)'
    BY <1>2, <1>3, <1>6, <1>12, <1>13 DEF SortTypes, degree
  <1>15. Counted'
    <2> SUFFICES ASSUME NEW t \in Tasks
                 PROVE  /\ in_degree'[t] = InDegree(t)' - Cardinality(Deps(t)' \intersect Named(sorted)')
                        /\ in_degree'[t] = 0 <=> t \in Named(sorted)' \union Named(queue)'
      BY DEF Counted
    <2>1. InDegree(t)' = InDegree(t) /\ Deps(t)' = Deps(t)
      BY <1>2 DEF InDegree, get_dependencies, Deps
    <2>2. Named(sorted)' = V \union {h} /\ Named(queue)' = (W \ {h}) \union R
      BY <1>12, <1>13 DEF Named
    <2>3. in_degree'[t] = in_degree[t] - (IF h \in Deps(t) THEN 1 ELSE 0)
      BY <1>2, <1>6
    <2>4. /\ in_degree[t] = InDegree(t) - Cardinality(Deps(t) \intersect V)
          /\ in_degree[t] = 0 <=> t \in V \union W
      BY <1>3 DEF Counted
    <2>5. InDegree(t) \in Nat /\ IsFiniteSet(Deps(t) \intersect V)
      BY <1>3, DependenciesCounted, FS_Intersection DEF SortTypes
    <2>6. Cardinality(Deps(t) \intersect V) \in Nat
      BY <2>5, FS_CardinalityType
    <2>7. Cardinality(Deps(t) \intersect (V \union {h})) =
             Cardinality(Deps(t) \intersect V) + (IF h \in Deps(t) THEN 1 ELSE 0)
      <3>1. CASE h \in Deps(t)
        <4>1. /\ Deps(t) \intersect (V \union {h}) = (Deps(t) \intersect V) \union {h}
              /\ h \notin Deps(t) \intersect V
          BY <1>9, <3>1
        <4> HIDE DEF V, h
        <4> QED
          BY <2>5, <3>1, <4>1, FS_AddElement
      <3>2. CASE h \notin Deps(t)
        <4>1. Deps(t) \intersect (V \union {h}) = Deps(t) \intersect V
          BY <3>2
        <4> HIDE DEF V, h
        <4> QED
          BY <2>6, <3>2, <4>1
      <3> QED
        BY <3>1, <3>2
    <2>8. in_degree'[t] = 0 <=> t \in (V \union {h}) \union ((W \ {h}) \union R)
      <3>1. degree[t] = in_degree'[t]
        BY <1>2
      <3> HIDE DEF V, W, h
      <3> QED
        BY <1>6, <1>7, <1>9, <1>10, <2>3, <2>4, <3>1
    <2> HIDE DEF V, W, h
    <2> QED
      BY <2>1, <2>2, <2>3, <2>4, <2>5, <2>6, <2>7, <2>8
  <1>16. Grounded(sorted)'
    <2> SUFFICES ASSUME NEW j \in 1..Len(s), NEW d \in Deps(s[j]) PROVE \E i \in 1..(j - 1) : s[i] = d
      BY SMTT(30), <1>2, <1>13 DEF Grounded, Deps, get_dependencies
    <2>1. /\ Len(sorted) \in Nat /\ Len(s) = Len(sorted) + 1
          /\ \A i \in 1..Len(sorted) : s[i] = sorted[i]
          /\ s[Len(sorted) + 1] = h
      BY <1>3, <1>9 DEF SortTypes, s
    <2> HIDE DEF h, V, W
    <2>2. CASE j <= Len(sorted)
      <3>1. j \in 1..Len(sorted) /\ d \in Deps(sorted[j])
        BY <2>1, <2>2
      <3>2. PICK i \in 1..(j - 1) : sorted[i] = d
        BY <1>3, <3>1 DEF Grounded
      <3> QED
        BY <2>1, <3>1, <3>2
    <2>3. CASE j = Len(sorted) + 1
      <3>1. d \in V
        <4>1. in_degree[h] = 0
          BY <1>9, <1>10
        <4>2. d \in Deps(h)
          BY <2>1, <2>3
        <4> QED
          BY <1>5, <1>9, <4>1, <4>2
      <3>2. PICK i \in 1..Len(sorted) : sorted[i] = d
        BY <3>1 DEF V, Named
      <3> QED
        BY <2>1, <2>3, <3>2
    <2> QED
      BY <2>1, <2>2, <2>3
  <1>17. OnceEach(sorted)' /\ OnceEach(queue)' /\ (Named(sorted) \intersect Named(queue))' = {}
    <2>1. OnceEach(sorted)' /\ OnceEach(queue)' /\ Named(sorted)' = Named(s) /\ Named(queue)' = Named(r)
      BY <1>12, <1>13 DEF OnceEach, Named
    <2> HIDE DEF V, W, h
    <2> QED
      BY <1>3, <1>9, <1>11, <1>12, <2>1
  <1> QED
    BY <1>2, <1>14, <1>15, <1>16, <1>17 DEF SortInv

\* Only the lists and the edges matter to what is said of them.
LEMMA ListsStay ==
    ASSUME UNCHANGED <<edges, in_degree, queue, sorted>>
    PROVE  /\ Counted => Counted'
           /\ Grounded(sorted) => Grounded(sorted)'
           /\ OnceEach(sorted) => OnceEach(sorted)'
           /\ OnceEach(queue) => OnceEach(queue)'
           /\ Named(sorted) \intersect Named(queue) = {} => (Named(sorted) \intersect Named(queue))' = {}
  <1>1. Named(sorted)' = Named(sorted) /\ Named(queue)' = Named(queue)
    BY DEF Named
  <1>2. \A t : Deps(t)' = Deps(t) /\ InDegree(t)' = InDegree(t)
    BY DEF Deps, get_dependencies, InDegree
  <1>3. Counted => Counted'
    BY <1>1, <1>2 DEF Counted
  <1>4. Grounded(sorted) => Grounded(sorted)'
    BY DEF Grounded, Deps, get_dependencies
  <1>5. (OnceEach(sorted) => OnceEach(sorted)') /\ (OnceEach(queue) => OnceEach(queue)')
    BY DEF OnceEach
  <1> QED
    BY <1>1, <1>3, <1>4, <1>5

\* The sort ends with a verdict on what it has listed.
LEMMA FinishKeepsSortInv ==
    ASSUME IsFiniteSet(Tasks), SortInv, Finish
    PROVE  SortInv'
  <1>1. /\ stage = "sorting" /\ queue = << >> /\ UNCHANGED <<edges, in_degree, queue, sorted>>
        /\ stage' = IF Len(sorted) = Cardinality(Tasks) THEN "sorted" ELSE "cycle"
    BY DEF Finish
  <1>2. stage' \in {"sorted", "cycle"}
    BY <1>1
  <1>3. SortTypes'
    BY <1>1, <1>2 DEF SortInv, SortTypes
  <1>4. /\ Counted' /\ Grounded(sorted)' /\ OnceEach(sorted)' /\ OnceEach(queue)'
        /\ (Named(sorted) \intersect Named(queue))' = {}
    BY <1>1, ListsStay DEF SortInv
  <1> QED
    BY <1>1, <1>2, <1>3, <1>4 DEF SortInv

\* Building, compiling, visiting and finishing keep the invariant.
LEMMA SortStep ==
    ASSUME IsFiniteSet(Tasks), SortInv, [Next]_vars
    PROVE  SortInv'
  <1>1. CASE UNCHANGED vars
    <2>1. UNCHANGED <<stage, edges, in_degree, queue, sorted>>
      BY <1>1 DEF vars
    <2>2. SortTypes'
      BY <2>1 DEF SortInv, SortTypes
    <2> QED
      BY <2>1, <2>2, ListsStay DEF SortInv
  <1>2. ASSUME NEW s \in Tasks, NEW t \in Tasks, AddEdge(s, t)
        PROVE  SortInv'
    BY <1>2 DEF AddEdge, SortInv, SortTypes
  <1>3. CASE Compile
    BY <1>3, CompileKeepsSortInv
  <1>4. CASE Visit
    BY <1>4, VisitKeepsSortInv
  <1>5. CASE Finish
    BY <1>5, FinishKeepsSortInv
  <1> QED
    BY <1>1, <1>2, <1>3, <1>4, <1>5 DEF Next

\* The invariant holds of every sort.
LEMMA SortInvariance ==
    ASSUME TasksListed
    PROVE  Spec => []SortInv
  <1>1. IsFiniteSet(Tasks)
    BY TasksAreFinite
  <1>2. Init => SortInv
    BY DEF Init, SortInv, SortTypes
  <1>3. SortInv /\ [Next]_vars => SortInv'
    BY <1>1, SortStep
  <1> QED
    BY <1>2, <1>3, PTL DEF Spec

\* A list of as many tasks as there are, without repetition, names them all.
LEMMA AllAreNamed ==
    ASSUME IsFiniteSet(Tasks), NEW seq \in Seq(Tasks), OnceEach(seq), Len(seq) = Cardinality(Tasks)
    PROVE  \A t \in Tasks : \E i \in 1..Len(seq) : seq[i] = t
  <1> DEFINE D == 1..Len(seq)
  <1>1. seq \in Injection(D, Tasks)
    <2>1. seq \in [D -> Tasks] /\ \A i, j \in D : seq[i] = seq[j] => i = j
      BY DEF OnceEach
    <2> HIDE DEF D
    <2> QED
      BY <2>1 DEF Injection, IsInjective
  <1>2. Cardinality(D) = Cardinality(Tasks)
    BY FS_CardinalityType, FS_Interval
  <1>3. seq \in Surjection(D, Tasks)
    BY <1>1, <1>2, FS_Injection
  <1> QED
    BY <1>3 DEF Surjection

\* The order the engine is given names every task once, each behind all its
\* dependencies, for any DAG, edges added twice included: what WorkflowEngine
\* assumes of Order.
THEOREM OrderIsTopological ==
    ASSUME TasksListed
    PROVE  Spec => []SortedIsTopological
  <1>1. ASSUME SortInv, stage = "sorted"
        PROVE  /\ \A t \in Tasks : \E i \in 1..Len(sorted) : sorted[i] = t
               /\ \A i, j \in 1..Len(sorted) : sorted[i] = sorted[j] => i = j
               /\ \A i, j \in 1..Len(sorted) : sorted[i] \in get_dependencies(sorted[j]) => i < j
    <2>1. /\ sorted \in Seq(Tasks) /\ OnceEach(sorted) /\ Grounded(sorted)
          /\ Len(sorted) = Cardinality(Tasks) /\ IsFiniteSet(Tasks)
      BY <1>1, TasksAreFinite DEF SortInv, SortTypes
    <2>2. \A t \in Tasks : \E i \in 1..Len(sorted) : sorted[i] = t
      BY <2>1, AllAreNamed
    <2>3. ASSUME NEW i \in 1..Len(sorted), NEW j \in 1..Len(sorted),
                 sorted[i] \in get_dependencies(sorted[j])
          PROVE  i < j
      <3>1. PICK k \in 1..(j - 1) : sorted[k] = sorted[i]
        BY <2>1, <2>3 DEF Grounded, Deps
      <3>2. k \in 1..Len(sorted) /\ k < j
        BY <2>1
      <3>3. k = i
        BY <2>1, <3>1, <3>2 DEF OnceEach
      <3> QED
        BY <3>2, <3>3
    <2> QED
      BY <2>1, <2>2, <2>3 DEF OnceEach
  <1>2. SortInv => SortedIsTopological
    BY <1>1 DEF SortedIsTopological
  <1> QED
    BY <1>2, SortInvariance, PTL

\* A DAG that is sorted has no cycle, and one that is refused has a cycle or an
\* edge that was added twice.
THEOREM CyclesAreFound ==
    ASSUME TasksListed
    PROVE  Spec => []CycleVerdictIsRight
  <1>1. IsFiniteSet(Tasks)
    BY TasksAreFinite
  <1>2. ASSUME SortInv, stage = "sorted", Cyclic PROVE FALSE
    <2>1. PICK S \in (SUBSET Tasks) \ {{}} : \A t \in S : Deps(t) \intersect S # {}
      BY <1>2 DEF Cyclic, Deps
    <2>2. sorted \in Seq(Tasks) /\ OnceEach(sorted) /\ Grounded(sorted) /\ Len(sorted) = Cardinality(Tasks)
      BY <1>2 DEF SortInv, SortTypes
    <2> DEFINE P == {i \in 1..Len(sorted) : sorted[i] \in S}
    <2>3. P \in SUBSET Nat /\ P # {}
      <3>1. PICK t \in S : TRUE
        BY <2>1
      <3>2. \E i \in 1..Len(sorted) : sorted[i] = t
        BY <1>1, <2>1, <2>2, <3>1, AllAreNamed
      <3> QED
        BY <3>2
    <2>4. PICK j \in P : \A i \in P : j <= i
      <3> HIDE DEF P
      <3> QED
        BY <2>3, NatMin
    <2>5. PICK d \in Deps(sorted[j]) : d \in S
      BY <2>1, <2>4
    <2>6. PICK i \in 1..(j - 1) : sorted[i] = d
      BY <2>2, <2>4, <2>5 DEF Grounded
    <2>7. i \in P /\ i < j
      BY <2>2, <2>4, <2>5, <2>6
    <2> QED
      BY <2>4, <2>7
  <1>3. ASSUME SortInv, stage = "cycle", ~DuplicateEdge PROVE Cyclic
    <2>1. /\ SortTypes /\ Counted /\ OnceEach(sorted) /\ queue = << >> /\ Len(sorted) # Cardinality(Tasks)
      BY <1>3 DEF SortInv
    <2> DEFINE V == Named(sorted)
               U == Tasks \ V
    <2>2. U # {}
      <3> SUFFICES ASSUME Tasks \subseteq V PROVE FALSE
        OBVIOUS
      <3>1. sorted \in Injection(1..Len(sorted), Tasks)
        <4> DEFINE D == 1..Len(sorted)
        <4>1. sorted \in [D -> Tasks] /\ \A i, j \in D : sorted[i] = sorted[j] => i = j
          BY <2>1 DEF OnceEach, SortTypes
        <4> HIDE DEF D
        <4>2. sorted \in Injection(D, Tasks)
          BY <4>1 DEF Injection, IsInjective
        <4> QED
          BY <4>2 DEF D
      <3>2. sorted \in Surjection(1..Len(sorted), Tasks)
        <4>1. \A t \in Tasks : \E i \in 1..Len(sorted) : sorted[i] = t
          BY DEF Named
        <4>2. sorted \in [1..Len(sorted) -> Tasks]
          BY <2>1 DEF SortTypes
        <4> DEFINE D == 1..Len(sorted)
        <4> HIDE DEF D
        <4>3. sorted \in Surjection(D, Tasks)
          BY <4>1, <4>2 DEF Surjection, D
        <4> QED
          BY <4>3 DEF D
      <3>3. Len(sorted) \in Nat
        BY <2>1 DEF SortTypes
      <3>4. IsFiniteSet(1..Len(sorted)) /\ Cardinality(1..Len(sorted)) = Len(sorted)
        <4> DEFINE n == Len(sorted)
        <4> HIDE DEF n
        <4>1. n \in Nat
          BY <3>3 DEF n
        <4>2. IsFiniteSet(1..n) /\ Cardinality(1..n) = n
          BY <4>1, FS_Interval
        <4> QED
          BY <4>2 DEF n
      <3> QED
        BY <2>1, <3>1, <3>2, <3>4, FS_Surjection
    <2>3. ASSUME NEW t \in U PROVE Deps(t) \intersect U # {}
      <3> SUFFICES ASSUME Deps(t) \subseteq V PROVE FALSE
        BY DEF Deps, get_dependencies
      <3>1. Deps(t) \intersect V = Deps(t)
        OBVIOUS
      <3>2. /\ in_degree[t] = InDegree(t) - Cardinality(Deps(t) \intersect V)
            /\ in_degree[t] # 0
        BY <2>1 DEF Counted, Named
      <3>3. Cardinality(Deps(t)) = InDegree(t) /\ InDegree(t) \in Nat
        BY <1>1, <1>3, <2>1, DependenciesCounted DEF SortTypes
      <3> HIDE DEF V
      <3> QED
        BY <3>1, <3>2, <3>3
    <2> HIDE DEF U
    <2>4. U \in (SUBSET Tasks) \ {{}}
      <3> HIDE DEF V
      <3>1. U \subseteq Tasks
        BY DEF U
      <3> QED
        BY <2>2, <3>1
    <2> QED
      BY <2>3, <2>4 DEF Cyclic, Deps
  <1>4. SortInv => CycleVerdictIsRight
    BY <1>2, <1>3 DEF CycleVerdictIsRight
  <1> QED
    BY <1>4, SortInvariance, PTL

-----------------------------------------------------------------------------
(* Folds over a sequence. *)

\* iter is the function by which a left fold over n elements is defined: from v,
\* f makes the step to the next value by the element of that number.
Folds(iter, f, v, n) ==
    iter = [s \in SUBSET (1..n) |->
              IF s = {} THEN v ELSE f[<<iter[s \ {Max(s)}], Max(s)>>]]

\* The same for the sets of at most m of the elements.
FoldsUpTo(iter, f, v, n, m) ==
    iter = [s \in {s \in SUBSET (1..n) : Cardinality(s) <= m} |->
              IF s = {} THEN v ELSE f[<<iter[s \ {Max(s)}], Max(s)>>]]

\* A set of the first numbers has a largest one.
LEMMA MaxIsIn ==
    ASSUME NEW n \in Nat, NEW s \in SUBSET (1..n), s # {}
    PROVE  Max(s) \in s /\ \A x \in s : Max(s) >= x
<1> DEFINE T == {n - x : x \in s}
<1>1. PICK m \in T : \A y \in T : m <= y
  <2>1. \A x \in s : n - x \in Nat
    OBVIOUS
  <2>2. T \in SUBSET Nat /\ T # {}
    BY <2>1, Zenon
  <2> HIDE DEF T
  <2> QED BY <2>2, NatMin
<1>2. \E x \in s : \A y \in s : x >= y
  <2>1. PICK x \in s : m = n - x
    OBVIOUS
  <2>2. \A y \in s : m <= n - y
    BY <1>1
  <2> QED BY <2>1, <2>2
<1> QED BY <1>2, Zenon DEF Max

\* Folds of values in V exist, one size after the other.
LEMMA FoldsUpToExist ==
    ASSUME NEW V, NEW v \in V, NEW n \in Nat, NEW f \in [V \X (1..n) -> V], NEW m \in Nat
    PROVE  \E iter : /\ FoldsUpTo(iter, f, v, n, m)
                     /\ \A s \in SUBSET (1..n) : Cardinality(s) <= m => iter[s] \in V
<1> DEFINE D(k) == {s \in SUBSET (1..n) : Cardinality(s) <= k}
           Good(iter, k) == FoldsUpTo(iter, f, v, n, k) /\ \A s \in D(k) : iter[s] \in V
           Bad == {k \in Nat : ~ \E iter : Good(iter, k)}
<1>1. SUFFICES ASSUME Bad # {} PROVE FALSE
  OBVIOUS
<1>2. PICK k \in Bad : \A j \in Bad : k <= j
  <2> HIDE DEF Bad
  <2>1. Bad \in SUBSET Nat
    BY DEF Bad
  <2> QED BY <1>1, <2>1, NatMin
<1>3. \A s \in SUBSET (1..n) : IsFiniteSet(s) /\ Cardinality(s) \in Nat
  <2>1. IsFiniteSet(1..n)
    BY FS_Interval
  <2> QED BY <2>1, FS_Subset, FS_CardinalityType, Zenon
<1>4. \A s \in SUBSET (1..n) : Cardinality(s) = 0 <=> s = {}
  BY <1>3, FS_EmptySet, Zenon
<1>5. k # 0
  <2> SUFFICES ASSUME k = 0 PROVE FALSE
    OBVIOUS
  <2> DEFINE g == [s \in D(0) |-> v]
  <2>1. \A s \in D(0) : s = {}
    BY <1>3, <1>4
  <2>2. FoldsUpTo(g, f, v, n, 0)
    BY <2>1 DEF FoldsUpTo
  <2>3. Good(g, 0)
    BY <2>2
  <2> HIDE DEF g, Good
  <2> QED BY <1>2, <2>3
<1>6. PICK g : Good(g, k - 1)
  BY <1>2, <1>5
<1> DEFINE h == [s \in D(k) |-> IF s = {} THEN v ELSE f[<<g[s \ {Max(s)}], Max(s)>>]]
<1>7. \A s \in D(k) : s # {} => /\ Max(s) \in 1..n
                                /\ s \ {Max(s)} \in D(k - 1)
  <2> SUFFICES ASSUME NEW s \in D(k), s # {} PROVE Max(s) \in 1..n /\ s \ {Max(s)} \in D(k - 1)
    OBVIOUS
  <2>1. Max(s) \in s
    BY MaxIsIn, Zenon
  <2>2. Cardinality(s \ {Max(s)}) = Cardinality(s) - 1
    BY <1>3, <2>1, FS_RemoveElement
  <2>3. s \in SUBSET (1..n) /\ Cardinality(s) <= k /\ s \ {Max(s)} \in SUBSET (1..n)
    BY Zenon
  <2>4. k \in Nat /\ Cardinality(s) \in Nat
    BY <1>3, <2>3
  <2>5. Cardinality(s \ {Max(s)}) <= k - 1
    BY <2>2, <2>3, <2>4
  <2> QED BY <2>1, <2>3, <2>5, Zenon
<1>8. \A s \in D(k - 1) : s \in D(k) /\ h[s] = g[s] /\ g[s] \in V
  <2>1. \A s \in D(k - 1) : s \in D(k)
    BY <1>3
  <2> QED BY <1>6, <2>1, Zenon DEF FoldsUpTo
<1>9. \A s \in D(k) : h[s] = IF s = {} THEN v ELSE f[<<g[s \ {Max(s)}], Max(s)>>]
  OBVIOUS
<1>10. h = [s \in D(k) |-> h[s]]
  OBVIOUS
<1> HIDE DEF h
<1>11. \A s \in D(k) : h[s] = IF s = {} THEN v ELSE f[<<h[s \ {Max(s)}], Max(s)>>]
  BY <1>7, <1>8, <1>9, Zenon
<1>12. FoldsUpTo(h, f, v, n, k)
  BY <1>10, <1>11, Zenon DEF FoldsUpTo
<1>13. \A s \in D(k) : h[s] \in V
  BY <1>7, <1>8, <1>9, Zenon
<1>14. Good(h, k)
  BY <1>12, <1>13
<1> HIDE DEF Good
<1> QED BY <1>2, <1>14

\* Hence the function that defines the fold exists, and stays in V.
LEMMA FoldsExist ==
    ASSUME NEW V, NEW v \in V, NEW n \in Nat, NEW f \in [V \X (1..n) -> V]
    PROVE  \E iter : Folds(iter, f, v, n) /\ \A s \in SUBSET (1..n) : iter[s] \in V
<1>1. \A s \in SUBSET (1..n) : Cardinality(s) \in Nat /\ Cardinality(s) <= n
  <2>1. IsFiniteSet(1..n) /\ Cardinality(1..n) = n
    BY FS_Interval
  <2>2. ASSUME NEW s \in SUBSET (1..n) PROVE Cardinality(s) \in Nat /\ Cardinality(s) <= n
    <3>1. IsFiniteSet(s) /\ Cardinality(s) <= Cardinality(1..n)
      BY <2>1, FS_Subset, Zenon
    <3> QED BY <2>1, <3>1, FS_CardinalityType
  <2> QED BY <2>2
<1>2. PICK iter : /\ FoldsUpTo(iter, f, v, n, n)
                  /\ \A s \in SUBSET (1..n) : Cardinality(s) <= n => iter[s] \in V
  BY FoldsUpToExist, Zenon
<1>3. {s \in SUBSET (1..n) : Cardinality(s) <= n} = SUBSET (1..n)
  BY <1>1
<1>4. Folds(iter, f, v, n)
  BY <1>2, <1>3, Zenon DEF Folds, FoldsUpTo
<1> QED BY <1>1, <1>2, <1>4

-----------------------------------------------------------------------------
(* Goals: the evaluators and their validator. *)

FirstLevels == <<0, 1, 2, 3, 4>>

\* The verdict of a level, and its grade.
Entry(s, l) ==
    [level |-> l, passed |-> Goal!Passed(l, s), violations |-> Goal!Violations(l, s)]

Grade(s, l) == [level |-> l, distance |-> Goal!Distance(l, s)]

\* One turn of the loop that grades the levels.
GradeNext(s, results, l) ==
    IF \E i \in DOMAIN results : results[i].distance > 0 THEN results
    ELSE Append(results, Grade(s, l))

\* The recursive functions that define the two chains.
Verdicts(iter, s) ==
    iter = [x \in SUBSET (1..5) |->
              IF x = {} THEN << >>
              ELSE Goal!EvaluateNext(s, iter[x \ {Max(x)}], FirstLevels[Max(x)])]

Grades(iter, s) ==
    iter = [x \in SUBSET (1..5) |->
              IF x = {} THEN << >>
              ELSE GradeNext(s, iter[x \ {Max(x)}], FirstLevels[Max(x)])]

\* The chain of verdicts is a fold, so the function that defines it exists.
LEMMA VerdictsExist ==
    ASSUME NEW s
    PROVE  \E iter : Verdicts(iter, s)
<1> DEFINE R == {Entry(s, l) : l \in 0..4}
           V == Seq(R)
           f == [w \in V \X (1..5) |-> Goal!EvaluateNext(s, w[1], FirstLevels[w[2]])]
<1>1. \A i \in 1..5 : FirstLevels[i] \in 0..4 /\ FirstLevels[i] = i - 1
  BY DEF FirstLevels
<1>2. ASSUME NEW v \in V, NEW l \in 0..4 PROVE Goal!EvaluateNext(s, v, l) \in V
  <2>1. Entry(s, l) \in R
    OBVIOUS
  <2> HIDE DEF R
  <2>2. Append(v, Entry(s, l)) \in V
    BY <2>1
  <2> QED BY <2>2 DEF Goal!EvaluateNext, Entry
<1>3. << >> \in V
  <2> HIDE DEF R
  <2> QED OBVIOUS
<1>4. f \in [V \X (1..5) -> V]
  <2> HIDE DEF V
  <2>1. \A w \in V \X (1..5) : w[1] \in V /\ FirstLevels[w[2]] \in 0..4
    BY <1>1
  <2> QED BY <2>1, <1>2
<1>5. \A v \in V, i \in 1..5 : f[<<v, i>>] = Goal!EvaluateNext(s, v, FirstLevels[i])
  <2> HIDE DEF V
  <2> QED OBVIOUS
<1> HIDE DEF f, V
<1>6. PICK iter : Folds(iter, f, << >>, 5) /\ \A x \in SUBSET (1..5) : iter[x] \in V
  BY <1>3, <1>4, FoldsExist, Zenon
<1>7. \A x \in SUBSET (1..5) : x # {} => Max(x) \in 1..5 /\ x \ {Max(x)} \in SUBSET (1..5)
  BY MaxIsIn, Zenon
<1>8. \A x \in SUBSET (1..5) : x # {} =>
         f[<<iter[x \ {Max(x)}], Max(x)>>]
            = Goal!EvaluateNext(s, iter[x \ {Max(x)}], FirstLevels[Max(x)])
  BY <1>5, <1>6, <1>7, Zenon
<1>9. Verdicts(iter, s)
  BY <1>6, <1>8, Zenon DEF Folds, Verdicts
<1> QED BY <1>9

\* So does that of the chain of grades.
LEMMA GradesExist ==
    ASSUME NEW s
    PROVE  \E iter : Grades(iter, s)
<1> DEFINE R == {Grade(s, l) : l \in 0..4}
           V == Seq(R)
           f == [w \in V \X (1..5) |-> GradeNext(s, w[1], FirstLevels[w[2]])]
<1>1. \A i \in 1..5 : FirstLevels[i] \in 0..4 /\ FirstLevels[i] = i - 1
  BY DEF FirstLevels
<1>2. ASSUME NEW v \in V, NEW l \in 0..4 PROVE GradeNext(s, v, l) \in V
  <2>1. Grade(s, l) \in R
    OBVIOUS
  <2> HIDE DEF R
  <2>2. Append(v, Grade(s, l)) \in V
    BY <2>1
  <2> QED BY <2>2 DEF GradeNext
<1>3. << >> \in V
  <2> HIDE DEF R
  <2> QED OBVIOUS
<1>4. f \in [V \X (1..5) -> V]
  <2> HIDE DEF V
  <2>1. \A w \in V \X (1..5) : w[1] \in V /\ FirstLevels[w[2]] \in 0..4
    BY <1>1
  <2> QED BY <2>1, <1>2
<1>5. \A v \in V, i \in 1..5 : f[<<v, i>>] = GradeNext(s, v, FirstLevels[i])
  <2> HIDE DEF V
  <2> QED OBVIOUS
<1> HIDE DEF f, V
<1>6. PICK iter : Folds(iter, f, << >>, 5) /\ \A x \in SUBSET (1..5) : iter[x] \in V
  BY <1>3, <1>4, FoldsExist, Zenon
<1>7. \A x \in SUBSET (1..5) : x # {} => Max(x) \in 1..5 /\ x \ {Max(x)} \in SUBSET (1..5)
  BY MaxIsIn, Zenon
<1>8. \A x \in SUBSET (1..5) : x # {} =>
         f[<<iter[x \ {Max(x)}], Max(x)>>]
            = GradeNext(s, iter[x \ {Max(x)}], FirstLevels[Max(x)])
  BY <1>5, <1>6, <1>7, Zenon
<1>9. Grades(iter, s)
  BY <1>6, <1>8, Zenon DEF Folds, Grades
<1> QED BY <1>9

\* The sets that a fold over five elements comes by.
LEMMA UpTo ==
    ASSUME NEW n \in Nat, NEW i \in 1..n
    PROVE  /\ 1..i \in SUBSET (1..n) /\ 1..i # {} /\ (1..i) \ {i} = 1..(i - 1)
           /\ Max(1..i) = i
<1>1. 1..i \in SUBSET (1..n) /\ 1..i # {} /\ (1..i) \ {i} = 1..(i - 1)
  <2>1. i \in Int /\ 1 <= i /\ i <= n
    OBVIOUS
  <2>2. \A x \in 1..i : x \in 1..n
    BY <2>1
  <2>3. i \in 1..i
    BY <2>1
  <2>4. \A x : x \in (1..i) \ {i} <=> x \in 1..(i - 1)
    BY <2>1
  <2> QED BY <2>2, <2>3, <2>4
<1>2. Max(1..i) \in 1..i /\ \A x \in 1..i : Max(1..i) >= x
  BY <1>1, MaxIsIn, Zenon
<1> QED BY <1>1, <1>2

\* The chain of verdicts runs the levels one after the other.
LEMMA ChainRuns ==
    ASSUME NEW s
    PROVE  \E g : /\ g[0] = << >>
                  /\ \A i \in 1..5 : g[i] = Goal!EvaluateNext(s, g[i - 1], i - 1)
                  /\ Goal!evaluate_celestial_chain(s, FirstLevels) = g[5]
<1> DEFINE it == CHOOSE iter : Verdicts(iter, s)
<1>1. Verdicts(it, s)
  BY VerdictsExist
<1>2. Goal!evaluate_celestial_chain(s, FirstLevels) = it[1..5]
  <2>1. DOMAIN FirstLevels = 1..5
    BY DEF FirstLevels
  <2> QED
    BY <2>1 DEF Goal!evaluate_celestial_chain, Goal!FoldLeft, Goal!MapThenFoldSet, Goal!Max, Max, Verdicts
<1> HIDE DEF it
<1> DEFINE g == [i \in 0..5 |-> it[1..i]]
<1>3. ASSUME NEW i \in 1..5 PROVE it[1..i] = Goal!EvaluateNext(s, it[1..(i - 1)], i - 1)
  <2>1. it[1..i] = Goal!EvaluateNext(s, it[(1..i) \ {Max(1..i)}], FirstLevels[Max(1..i)])
    <3>1. 1..i \in SUBSET (1..5) /\ 1..i # {}
      BY UpTo
    <3> QED BY <1>1, <3>1, Zenon DEF Verdicts
  <2>2. FirstLevels[i] = i - 1
    BY DEF FirstLevels
  <2>3. Max(1..i) = i /\ (1..i) \ {i} = 1..(i - 1)
    BY UpTo
  <2> QED BY <2>1, <2>2, <2>3, Zenon
<1>4. it[1..0] = << >>
  BY <1>1, 1..0 = {} DEF Verdicts
<1>5. g[0] = << >> /\ \A i \in 1..5 : g[i] = Goal!EvaluateNext(s, g[i - 1], i - 1)
  BY <1>3, <1>4
<1>6. g[5] = it[1..5]
  OBVIOUS
<1> HIDE DEF g
<1> QED BY <1>2, <1>5, <1>6

\* The chain of grades runs the levels one after the other.
LEMMA GradedRuns ==
    ASSUME NEW s
    PROVE  \E g : /\ g[0] = << >>
                  /\ \A i \in 1..5 : g[i] = GradeNext(s, g[i - 1], i - 1)
                  /\ Goal!evaluate_celestial_goals(s) = g[5]
<1> DEFINE it == CHOOSE iter : Grades(iter, s)
<1>1. Grades(it, s)
  BY GradesExist
<1>2. Goal!evaluate_celestial_goals(s) = it[1..5]
  <2>1. DOMAIN <<0, 1, 2, 3, 4>> = 1..5
    OBVIOUS
  <2> QED
    BY <2>1 DEF Goal!evaluate_celestial_goals, GradeNext, Grade, FirstLevels, Goal!FoldLeft, Goal!MapThenFoldSet, Goal!Max, Max, Grades
<1> HIDE DEF it
<1> DEFINE g == [i \in 0..5 |-> it[1..i]]
<1>3. ASSUME NEW i \in 1..5 PROVE it[1..i] = GradeNext(s, it[1..(i - 1)], i - 1)
  <2>1. it[1..i] = GradeNext(s, it[(1..i) \ {Max(1..i)}], FirstLevels[Max(1..i)])
    <3>1. 1..i \in SUBSET (1..5) /\ 1..i # {}
      BY UpTo
    <3> QED BY <1>1, <3>1, Zenon DEF Grades
  <2>2. FirstLevels[i] = i - 1
    BY DEF FirstLevels
  <2>3. Max(1..i) = i /\ (1..i) \ {i} = 1..(i - 1)
    BY UpTo
  <2> QED BY <2>1, <2>2, <2>3, Zenon
<1>4. it[1..0] = << >>
  BY <1>1, 1..0 = {} DEF Grades
<1>5. g[0] = << >> /\ \A i \in 1..5 : g[i] = GradeNext(s, g[i - 1], i - 1)
  BY <1>3, <1>4
<1>6. g[5] = it[1..5]
  OBVIOUS
<1> HIDE DEF g
<1> QED BY <1>2, <1>5, <1>6

\* A chain over the first k levels that stops at the first that is not ok has
\* come to n of them.
Scanned(n, ok, k) ==
    /\ n \in 0..k
    /\ \A l \in 0..4 : l + 1 < n => ok[l]
    /\ n < k => n >= 1 /\ ~ok[n - 1]

\* A scan that stops at the first failure passes all exactly if it comes to the end.
LEMMA ScannedOnce ==
    ASSUME NEW n, NEW m, NEW ok, Scanned(n, ok, 5), Scanned(m, ok, 5)
    PROVE  n = m
<1> SUFFICES ASSUME NEW i \in 0..5, NEW j \in 0..5, Scanned(i, ok, 5), Scanned(j, ok, 5), i < j
            PROVE  FALSE
  BY DEF Scanned
<1> QED BY DEF Scanned

OkOf(s) == [l \in 0..4 |-> Goal!Passed(l, s)]

\* The distance is zero where nothing is violated, and only there.
LEMMA DistanceIsGrade ==
    ASSUME NEW s, NEW l \in 0..4
    PROVE  /\ Goal!Distance(l, s) \in Nat
           /\ Goal!Distance(l, s) = 0 <=> OkOf(s)[l]
<1>1. OkOf(s)[l] <=> Goal!Violations(l, s) = {}
  BY Zenon DEF OkOf, Goal!Passed
<1>2. CASE Goal!Violations(l, s) = {}
  <2>1. Goal!Distance(l, s) = 0
    BY <1>2 DEF Goal!Distance
  <2> QED BY <1>1, <1>2, <2>1
<1>3. CASE Goal!Violations(l, s) # {}
  <2>1. Goal!Distance(l, s) \in {30, 40, 50, 60, 70, 80, 90, 99, 100}
    <3>0. l \in {0, 1, 2, 3, 4} /\ 0 # 1 /\ 0 # 2 /\ 0 # 3 /\ 0 # 4 /\ 1 # 2 /\ 1 # 3 /\ 1 # 4
             /\ 2 # 3 /\ 2 # 4 /\ 3 # 4
      OBVIOUS
    <3>1. CASE l = 0
      BY <3>1, <3>0, <1>3 DEF Goal!Distance
    <3>2. CASE l = 1
      BY <3>2, <3>0, <1>3 DEF Goal!Distance
    <3>3. CASE l = 2
      BY <3>3, <3>0, <1>3 DEF Goal!Distance
    <3>4. CASE l = 3
      BY <3>4, <3>0, <1>3 DEF Goal!Distance
    <3>5. CASE l = 4
      BY <3>5, <3>0, <1>3 DEF Goal!Distance
    <3> QED BY <3>0, <3>1, <3>2, <3>3, <3>4, <3>5
  <2> QED BY <1>1, <1>3, <2>1
<1> QED BY <1>2, <1>3

VerdictsUpTo(s, n) == [i \in 1..n |-> Entry(s, i - 1)]

GradesUpTo(s, n) == [i \in 1..n |-> Grade(s, i - 1)]

\* One more level of the chain of verdicts.
LEMMA VerdictStep ==
    ASSUME NEW s, NEW k \in 0..4, NEW n, Scanned(n, OkOf(s), k)
    PROVE  \E m : /\ Goal!EvaluateNext(s, VerdictsUpTo(s, n), k) = VerdictsUpTo(s, m)
                  /\ Scanned(m, OkOf(s), k + 1)
<1> DEFINE r == VerdictsUpTo(s, n)
<1>1. n \in 0..k /\ n \in Nat
  BY DEF Scanned
<1>2. \A i \in 1..n : r[i].passed <=> OkOf(s)[i - 1]
  BY <1>1 DEF VerdictsUpTo, Entry, OkOf
<1>3. DOMAIN r = 1..n
  BY DEF VerdictsUpTo
<1>4. CASE \E i \in 1..n : ~r[i].passed
  <2>1. Goal!EvaluateNext(s, r, k) = r
    BY <1>3, <1>4 DEF Goal!EvaluateNext
  <2>2. PICK i \in 1..n : ~OkOf(s)[i - 1]
    BY <1>2, <1>4
  <2>3. i = n
    BY <1>1, <2>2 DEF Scanned
  <2>4. Scanned(n, OkOf(s), k + 1)
    BY <1>1, <2>2, <2>3 DEF Scanned
  <2> QED BY <2>1, <2>4
<1>5. CASE \A i \in 1..n : r[i].passed
  <2>1. n = k
    BY <1>1, <1>2, <1>5 DEF Scanned
  <2>2. Goal!EvaluateNext(s, r, k) = Append(r, Entry(s, k))
    BY <1>3, <1>5 DEF Goal!EvaluateNext, Entry
  <2>3. Append(r, Entry(s, k)) = VerdictsUpTo(s, n + 1)
    <3> DEFINE e == [i \in 1..(n + 1) |-> Entry(s, i - 1)]
               R == {Entry(s, i) : i \in 0..5}
    <3>1. \A i \in 1..(n + 1) : i - 1 \in 0..5
      BY <1>1
    <3>2. \A i \in 1..(n + 1) : e[i] \in R
      BY <3>1
    <3>3. \A i \in 1..n : r[i] = e[i]
      BY <1>1 DEF VerdictsUpTo
    <3>4. e[n + 1] = Entry(s, k)
      BY <1>1, <2>1
    <3>5. VerdictsUpTo(s, n + 1) = e /\ DOMAIN e = 1..(n + 1)
      BY DEF VerdictsUpTo
    <3>6. r = [i \in 1..n |-> r[i]]
      BY DEF VerdictsUpTo
    <3> HIDE DEF e, R, r
    <3>7. r \in Seq(R) /\ Len(r) = n
      BY <1>1, <3>2, <3>3, <3>6
    <3>8. e \in Seq(R) /\ Len(e) = n + 1
      <4>1. e = [i \in 1..(n + 1) |-> e[i]]
        BY <3>5 DEF e
      <4> QED BY <1>1, <3>2, <4>1
    <3>9. Append(r, e[n + 1]) = e
      BY <1>1, <3>2, <3>3, <3>7, <3>8
    <3> QED BY <3>4, <3>5, <3>9
  <2>4. Scanned(n + 1, OkOf(s), k + 1)
    BY <1>1, <1>2, <1>5, <2>1 DEF Scanned
  <2> QED BY <2>2, <2>3, <2>4
<1> QED BY <1>4, <1>5

\* One more level of the chain of grades.
LEMMA GradeStep ==
    ASSUME NEW s, NEW k \in 0..4, NEW n, Scanned(n, OkOf(s), k)
    PROVE  \E m : /\ GradeNext(s, GradesUpTo(s, n), k) = GradesUpTo(s, m)
                  /\ Scanned(m, OkOf(s), k + 1)
<1> DEFINE r == GradesUpTo(s, n)
<1>1. n \in 0..k /\ n \in Nat
  BY DEF Scanned
<1>2. \A i \in 1..n : /\ r[i].distance = 0 <=> OkOf(s)[i - 1]
                      /\ r[i].distance > 0 <=> ~OkOf(s)[i - 1]
  <2>1. \A i \in 1..n : i - 1 \in 0..4 /\ r[i].distance = Goal!Distance(i - 1, s)
    BY <1>1 DEF GradesUpTo, Grade
  <2> QED BY <2>1, DistanceIsGrade
<1>3. DOMAIN r = 1..n
  BY DEF GradesUpTo
<1>4. CASE \E i \in 1..n : r[i].distance > 0
  <2>1. GradeNext(s, r, k) = r
    BY <1>3, <1>4 DEF GradeNext
  <2>2. PICK i \in 1..n : ~OkOf(s)[i - 1]
    BY <1>2, <1>4
  <2>3. i = n
    BY <1>1, <2>2 DEF Scanned
  <2>4. Scanned(n, OkOf(s), k + 1)
    BY <1>1, <2>2, <2>3 DEF Scanned
  <2> QED BY <2>1, <2>4
<1>5. CASE \A i \in 1..n : r[i].distance = 0
  <2>1. n = k
    BY <1>1, <1>2, <1>5 DEF Scanned
  <2>2. GradeNext(s, r, k) = Append(r, Grade(s, k))
    BY <1>2, <1>3, <1>5 DEF GradeNext
  <2>3. Append(r, Grade(s, k)) = GradesUpTo(s, n + 1)
    <3> DEFINE e == [i \in 1..(n + 1) |-> Grade(s, i - 1)]
               R == {Grade(s, i) : i \in 0..5}
    <3>1. \A i \in 1..(n + 1) : i - 1 \in 0..5
      BY <1>1
    <3>2. \A i \in 1..(n + 1) : e[i] \in R
      BY <3>1
    <3>3. \A i \in 1..n : r[i] = e[i]
      BY <1>1 DEF GradesUpTo
    <3>4. e[n + 1] = Grade(s, k)
      BY <1>1, <2>1
    <3>5. GradesUpTo(s, n + 1) = e /\ DOMAIN e = 1..(n + 1)
      BY DEF GradesUpTo
    <3>6. r = [i \in 1..n |-> r[i]]
      BY DEF GradesUpTo
    <3> HIDE DEF e, R, r
    <3>7. r \in Seq(R) /\ Len(r) = n
      BY <1>1, <3>2, <3>3, <3>6
    <3>8. e \in Seq(R) /\ Len(e) = n + 1
      <4>1. e = [i \in 1..(n + 1) |-> e[i]]
        BY <3>5 DEF e
      <4> QED BY <1>1, <3>2, <4>1
    <3>9. Append(r, e[n + 1]) = e
      BY <1>1, <3>2, <3>3, <3>7, <3>8
    <3> QED BY <3>4, <3>5, <3>9
  <2>4. Scanned(n + 1, OkOf(s), k + 1)
    BY <1>1, <1>2, <1>5, <2>1 DEF Scanned
  <2> QED BY <2>2, <2>3, <2>4
<1> QED BY <1>2, <1>4, <1>5

\* Both chains stop at the same level.
LEMMA ChainsEnd ==
    ASSUME NEW s
    PROVE  \E n : /\ Scanned(n, OkOf(s), 5)
                  /\ Goal!evaluate_celestial_chain(s, <<0, 1, 2, 3, 4>>) = VerdictsUpTo(s, n)
                  /\ Goal!evaluate_celestial_goals(s) = GradesUpTo(s, n)
<1>1. PICK g : /\ g[0] = << >>
               /\ \A i \in 1..5 : g[i] = Goal!EvaluateNext(s, g[i - 1], i - 1)
               /\ Goal!evaluate_celestial_chain(s, FirstLevels) = g[5]
  BY ChainRuns
<1>2. PICK h : /\ h[0] = << >>
               /\ \A i \in 1..5 : h[i] = GradeNext(s, h[i - 1], i - 1)
               /\ Goal!evaluate_celestial_goals(s) = h[5]
  BY GradedRuns, Zenon
<1> DEFINE V(k) == \E n : Scanned(n, OkOf(s), k) /\ g[k] = VerdictsUpTo(s, n)
           G(k) == \E n : Scanned(n, OkOf(s), k) /\ h[k] = GradesUpTo(s, n)
<1>3. V(0) /\ G(0)
  <2>1. Scanned(0, OkOf(s), 0)
    BY DEF Scanned
  <2>2. VerdictsUpTo(s, 0) = << >> /\ GradesUpTo(s, 0) = << >>
    BY DEF VerdictsUpTo, GradesUpTo
  <2> QED BY <1>1, <1>2, <2>1, <2>2
<1>4. ASSUME NEW k \in 0..4, V(k), G(k) PROVE V(k + 1) /\ G(k + 1)
  <2>1. k + 1 \in 1..5 /\ (k + 1) - 1 = k
    OBVIOUS
  <2>2. g[k + 1] = Goal!EvaluateNext(s, g[k], k) /\ h[k + 1] = GradeNext(s, h[k], k)
    BY <1>1, <1>2, <2>1
  <2>3. V(k + 1)
    <3>1. PICK n : Scanned(n, OkOf(s), k) /\ g[k] = VerdictsUpTo(s, n)
      BY <1>4
    <3>2. PICK m : /\ Goal!EvaluateNext(s, VerdictsUpTo(s, n), k) = VerdictsUpTo(s, m)
                   /\ Scanned(m, OkOf(s), k + 1)
      BY <3>1, VerdictStep
    <3> QED BY <2>2, <3>1, <3>2
  <2>4. G(k + 1)
    <3>1. PICK n : Scanned(n, OkOf(s), k) /\ h[k] = GradesUpTo(s, n)
      BY <1>4
    <3>2. PICK m : /\ GradeNext(s, GradesUpTo(s, n), k) = GradesUpTo(s, m)
                   /\ Scanned(m, OkOf(s), k + 1)
      BY <3>1, GradeStep
    <3> QED BY <2>2, <3>1, <3>2
  <2> QED BY <2>3, <2>4
<1> HIDE DEF V, G
<1>5. V(1) /\ G(1)
  BY <1>3, <1>4, 0 + 1 = 1
<1>6. V(2) /\ G(2)
  BY <1>5, <1>4, 1 + 1 = 2
<1>7. V(3) /\ G(3)
  BY <1>6, <1>4, 2 + 1 = 3
<1>8. V(4) /\ G(4)
  BY <1>7, <1>4, 3 + 1 = 4
<1>9. V(5) /\ G(5)
  BY <1>8, <1>4, 4 + 1 = 5
<1>10. PICK n : Scanned(n, OkOf(s), 5) /\ g[5] = VerdictsUpTo(s, n)
  BY <1>9 DEF V
<1>11. PICK m : Scanned(m, OkOf(s), 5) /\ h[5] = GradesUpTo(s, m)
  BY <1>9 DEF G
<1>12. n = m
  BY <1>10, <1>11, ScannedOnce
<1> QED BY <1>1, <1>2, <1>10, <1>11, <1>12 DEF FirstLevels

\* The first of a set of levels.
LEMMA FirstIsIn ==
    ASSUME NEW S \in SUBSET (0..4), S # {}
    PROVE  LET first == CHOOSE l \in S : \A k \in S : l <= k IN
           first \in S /\ \A k \in S : first <= k
<1>1. S \in SUBSET Nat
  OBVIOUS
<1> QED BY <1>1, NatMin, Zenon

\* What an entry of each chain holds.
LEMMA Fields ==
    ASSUME NEW s, NEW l
    PROVE  /\ Entry(s, l).level = l /\ Grade(s, l).distance = Goal!Distance(l, s)
           /\ Entry(s, l).passed <=> Goal!Violations(l, s) = {}
BY Zenon DEF Entry, Grade, Goal!Passed

\* The evaluators agree on every state, whatever levels are registered.
LEMMA EvaluatorsAlwaysAgree ==
    ASSUME NEW s, NEW registered \in SUBSET (0..4)
    PROVE  Goal!EvaluatorsAgree(s, registered)
<1> DEFINE ok == OkOf(s)
           chain == Goal!evaluate_celestial_chain(s, <<0, 1, 2, 3, 4>>)
           graded == Goal!evaluate_celestial_goals(s)
           compliant == Goal!check_celestial_compliance(s, <<0, 1, 2, 3, 4>>)
           status == Goal!ComplianceStatus(s, Goal!Levels)
           partial == Goal!ComplianceStatus(s, registered)
           F(S) == CHOOSE l \in S : \A k \in S : l <= k
<1>1. PICK n : Scanned(n, ok, 5) /\ chain = VerdictsUpTo(s, n) /\ graded = GradesUpTo(s, n)
  BY ChainsEnd
<1>2. n \in 1..5
  BY <1>1 DEF Scanned
<1>3. /\ Len(chain) = n /\ Len(graded) = n /\ DOMAIN chain = 1..n
      /\ \A i \in 1..n : chain[i] = Entry(s, i - 1) /\ graded[i] = Grade(s, i - 1)
  BY <1>1, <1>2 DEF VerdictsUpTo, GradesUpTo
<1>4. \A l \in 0..4 : /\ ok[l] <=> Goal!Passed(l, s)
                      /\ ok[l] <=> Goal!Violations(l, s) = {}
  BY Zenon DEF OkOf, Goal!Passed
<1>5. \A i \in DOMAIN chain : chain[i].level = i - 1 /\ (chain[i].passed <=> graded[i].distance = 0)
  <2> SUFFICES ASSUME NEW i \in 1..n
               PROVE  chain[i].level = i - 1 /\ (chain[i].passed <=> graded[i].distance = 0)
    BY <1>3
  <2>1. i - 1 \in 0..4
    BY <1>2
  <2>2. /\ chain[i].level = i - 1
        /\ chain[i].passed <=> Goal!Violations(i - 1, s) = {}
        /\ graded[i].distance = Goal!Distance(i - 1, s)
    BY <1>3, Fields
  <2> QED BY <1>4, <2>1, <2>2, DistanceIsGrade
<1>6. compliant <=> \A l \in 0..4 : ok[l]
  <2>1. ASSUME NEW i \in 1..n PROVE i - 1 \in 0..4 /\ (chain[i].passed <=> ok[i - 1])
    <3>1. i - 1 \in 0..4
      BY <1>2
    <3>2. chain[i].passed <=> Goal!Violations(i - 1, s) = {}
      BY <1>3, Fields
    <3> QED BY <1>4, <3>1, <3>2
  <2>2. compliant <=> \A i \in 1..n : ok[i - 1]
    BY <1>3, <2>1, Zenon DEF Goal!check_celestial_compliance
  <2>3. ASSUME \A i \in 1..n : ok[i - 1] PROVE \A l \in 0..4 : ok[l]
    <3>1. n \in 1..n
      BY <1>2
    <3>2. n = 5
      BY <1>1, <1>2, <2>3, <3>1 DEF Scanned
    <3>3. \A l \in 0..4 : l + 1 \in 1..5 /\ (l + 1) - 1 = l
      OBVIOUS
    <3> QED BY <2>3, <3>2, <3>3
  <2>4. ASSUME \A l \in 0..4 : ok[l] PROVE \A i \in 1..n : ok[i - 1]
    BY <2>1, <2>4
  <2> QED BY <2>2, <2>3, <2>4
<1>7. Goal!Levels = 0..4
  BY DEF Goal!Levels
<1> HIDE DEF ok, chain, graded, compliant
<1> DEFINE failing == {l \in 0..4 : ~ok[l]}
           bad == ((0..4) \ registered) \union {l \in registered : ~ok[l]}
<1>8. status = IF failing = {} THEN [status |-> "PASSED", level |-> 5]
               ELSE [status |-> "FAILED", level |-> F(failing)]
  <2>1. {l \in 0..4 : ~Goal!Passed(l, s)} = failing
    BY <1>4
  <2>2. (0..4) \ (0..4) = {} /\ {} \union failing = failing
    OBVIOUS
  <2> QED BY <1>7, <2>1, <2>2 DEF Goal!ComplianceStatus
<1>9. partial = IF (0..4) \ registered = {} /\ {l \in registered : ~ok[l]} = {}
                THEN [status |-> "PASSED", level |-> 5]
                ELSE IF F(bad) \in (0..4) \ registered
                     THEN [status |-> "NOT_REGISTERED", level |-> F(bad)]
                     ELSE [status |-> "FAILED", level |-> F(bad)]
  <2>1. {l \in registered : ~Goal!Passed(l, s)} = {l \in registered : ~ok[l]}
    BY <1>4, Zenon
  <2> QED BY <1>7, <2>1, Zenon DEF Goal!ComplianceStatus
<1> HIDE DEF status, partial
<1>10. compliant <=> status.status = "PASSED"
  BY <1>6, <1>8
<1>11. compliant <=> \A l \in Goal!Levels : Goal!Violations(l, s) = {}
  BY <1>4, <1>6, <1>7
<1>12. ASSUME ~compliant PROVE status.level = chain[Len(chain)].level
  <2>1. failing # {} /\ failing \in SUBSET (0..4)
    BY <1>6, <1>12
  <2>2. F(failing) \in failing /\ \A k \in failing : F(failing) <= k
    <3> HIDE DEF failing
    <3> QED BY <2>1, FirstIsIn
  <2>3. n - 1 \in 0..4 /\ ~ok[n - 1]
    <3>1. CASE n < 5
      BY <1>1, <1>2, <3>1 DEF Scanned
    <3>2. CASE n = 5
      <4>1. \A l \in 0..4 : l < 4 => ok[l]
        BY <1>1, <3>2 DEF Scanned
      <4>2. ~ok[4]
        BY <1>6, <1>12, <4>1
      <4> QED BY <3>2, <4>2
    <3> QED BY <1>2, <3>1, <3>2
  <2>4. \A l \in failing : l >= n - 1
    BY <1>1, <1>2 DEF Scanned
  <2>5. F(failing) = n - 1
    <3>1. n - 1 \in failing
      BY <2>3
    <3>2. F(failing) \in 0..4
      BY <2>2
    <3> HIDE DEF failing
    <3> QED BY <1>2, <2>2, <2>4, <3>1, <3>2
  <2>6. chain[Len(chain)].level = n - 1
    BY <1>2, <1>3, <1>5
  <2> QED BY <1>8, <2>1, <2>5, <2>6, Zenon
<1>13. partial.status = "PASSED" => compliant /\ registered = Goal!Levels
  <2> HAVE partial.status = "PASSED"
  <2>1. (0..4) \ registered = {} /\ {l \in registered : ~ok[l]} = {}
    BY <1>9
  <2> QED BY <1>6, <1>7, <2>1, Zenon
<1>14. ASSUME partial.status = "FAILED" PROVE 0 .. partial.level \subseteq registered
  <2>1. bad # {} /\ bad \in SUBSET (0..4)
    BY <1>9, <1>14, Zenon
  <2>2. F(bad) \in bad /\ \A k \in bad : F(bad) <= k
    <3> HIDE DEF bad
    <3> QED BY <2>1, FirstIsIn
  <2>3. partial.level = F(bad) /\ F(bad) \in registered
    BY <1>9, <1>14, <2>2
  <2>4. F(bad) \in 0..4
    BY <2>1, <2>2
  <2> DEFINE b == F(bad)
  <2>5. b \in 0..4 /\ b \in registered /\ \A k \in (0..4) \ registered : b <= k
    BY <2>2, <2>3, <2>4
  <2> HIDE DEF b
  <2>6. 0..b \subseteq registered
    BY <2>5
  <2> QED BY <2>3, <2>6 DEF b
<1> QED
  BY <1>3, <1>5, <1>10, <1>11, <1>12, <1>13, <1>14
     DEF Goal!EvaluatorsAgree, chain, graded, compliant, status, partial

\* What a predicate violates lies in the state it is given.
LEMMA LevelsSeparate ==
    ASSUME NEW s
    PROVE  /\ Goal!Violations(0, s) = Goal!L0SafetyPredicate(s)
           /\ Goal!Violations(1, s) = Goal!L1LegalPredicate(s)
           /\ Goal!Violations(2, s) = Goal!L2EthicalPredicate(s)
           /\ Goal!Violations(3, s) = Goal!L3PermissionsPredicate(s)
           /\ Goal!Violations(4, s) = Goal!L4ConstitutionalPredicate(s)
<1>1. 0 # 1 /\ 0 # 2 /\ 0 # 3 /\ 0 # 4 /\ 1 # 2 /\ 1 # 3 /\ 1 # 4 /\ 2 # 3 /\ 2 # 4 /\ 3 # 4
  OBVIOUS
<1> QED BY <1>1 DEF Goal!Violations

\* What is generated as satisfying satisfies, however it is numbered.
LEMMA SatisfyingPass ==
    ASSUME NEW l \in 0..4, NEW i \in Nat
    PROVE  Goal!Passed(l, Goal!generate_satisfying_states(l, i))
<1> DEFINE e == Goal!EmptyState
<1>1. l \in {0, 1, 2, 3, 4} /\ 0 # 1 /\ 0 # 2 /\ 0 # 3 /\ 0 # 4 /\ 1 # 2 /\ 1 # 3 /\ 1 # 4
         /\ 2 # 3 /\ 2 # 4 /\ 3 # 4
  OBVIOUS
<1>2. CASE l = 0
  <2>1. Goal!generate_satisfying_states(0, i) = e
    BY <1>1 DEF Goal!generate_satisfying_states
  <2>2. Goal!L0SafetyPredicate(e) = {}
    BY DEF Goal!L0SafetyPredicate, Goal!Flag, Goal!EmptyState
  <2> QED BY <1>2, <2>1, <2>2, LevelsSeparate DEF Goal!Passed
<1>3. CASE l = 1
  <2>1. Goal!generate_satisfying_states(1, i) = [e EXCEPT !.jurisdiction = "open"]
    BY <1>1 DEF Goal!generate_satisfying_states
  <2>2. Goal!L1LegalPredicate([e EXCEPT !.jurisdiction = "open"]) = {}
    BY DEF Goal!L1LegalPredicate, Goal!Flag, Goal!EmptyState
  <2> QED BY <1>3, <2>1, <2>2, LevelsSeparate DEF Goal!Passed
<1>4. CASE l = 2
  <2>1. Goal!generate_satisfying_states(2, i) = e
    BY <1>1 DEF Goal!generate_satisfying_states
  <2>2. Goal!L2EthicalPredicate(e) = {}
    BY DEF Goal!L2EthicalPredicate, Goal!Flag, Goal!EmptyState
  <2> QED BY <1>4, <2>1, <2>2, LevelsSeparate DEF Goal!Passed
<1>5. CASE l = 3
  <2> DEFINE f == [e EXCEPT !.permissions = "enough", !.role = "right", !.usage = "within"]
  <2>1. Goal!generate_satisfying_states(3, i) = f
    BY <1>1 DEF Goal!generate_satisfying_states
  <2>2. Goal!L3PermissionsPredicate(f) = {}
    BY DEF Goal!L3PermissionsPredicate, Goal!Flag, Goal!EmptyState
  <2> QED BY <1>5, <2>1, <2>2, LevelsSeparate DEF Goal!Passed
<1>6. CASE l = 4
  <2>1. Goal!generate_satisfying_states(4, i) = e
    BY <1>1 DEF Goal!generate_satisfying_states
  <2>2. Goal!L4ConstitutionalPredicate(e) = {}
    BY DEF Goal!L4ConstitutionalPredicate, Goal!Flag, Goal!EmptyState
  <2> QED BY <1>6, <2>1, <2>2, LevelsSeparate DEF Goal!Passed
<1> QED BY <1>1, <1>2, <1>3, <1>4, <1>5, <1>6

\* What is generated as violating violates.
LEMMA ViolatingFail ==
    ASSUME NEW l \in 0..4, NEW i \in Nat
    PROVE  ~Goal!Passed(l, Goal!generate_violating_states(l, i))
<1> DEFINE e == Goal!EmptyState
           s == Goal!generate_violating_states(l, i)
<1>1. l \in {0, 1, 2, 3, 4} /\ 0 # 1 /\ 0 # 2 /\ 0 # 3 /\ 0 # 4 /\ 1 # 2 /\ 1 # 3 /\ 1 # 4
         /\ 2 # 3 /\ 2 # 4 /\ 3 # 4
  OBVIOUS
<1>2. CASE l = 0
  <2>1. s = [e EXCEPT
            !.action = "dangerous", !.harmful = i % 2 = 0, !.bypass = i % 3 = 0,
            !.payload = IF i % 4 = 0 THEN {"harm"} ELSE {}]
    BY <1>1, <1>2 DEF Goal!generate_violating_states
  <2>2. s.action = "dangerous"
    BY <2>1 DEF Goal!EmptyState
  <2> HIDE DEF s
  <2>3. "dangerous action" \in Goal!L0SafetyPredicate(s)
    BY <2>2 DEF Goal!L0SafetyPredicate, Goal!Flag
  <2> QED BY <1>2, <2>3, LevelsSeparate, Zenon DEF Goal!Passed, s
<1>3. CASE l = 1
  <2>1. s = [e EXCEPT
            !.jurisdiction = IF i % 3 = 0 THEN "restricted" ELSE "open",
            !.export = i % 3 = 1, !.illegal = i % 3 = 2]
    BY <1>1, <1>3 DEF Goal!generate_violating_states
  <2>2. /\ s.jurisdiction = IF i % 3 = 0 THEN "restricted" ELSE "open"
        /\ s.export <=> i % 3 = 1
        /\ s.illegal <=> i % 3 = 2
    BY ZenonT(60), <2>1 DEF Goal!EmptyState
  <2>3. i % 3 \in {0, 1, 2}
    OBVIOUS
  <2> HIDE DEF s
  <2>4. s.jurisdiction = "restricted" \/ s.export \/ s.illegal
    BY <2>2, <2>3
  <2>5. Goal!L1LegalPredicate(s) # {}
    BY <2>4, Zenon DEF Goal!L1LegalPredicate, Goal!Flag
  <2> QED BY <1>3, <2>5, LevelsSeparate DEF Goal!Passed, s
<1>4. CASE l = 2
  <2>1. s.action = "deceptive"
    <3>1. s = [e EXCEPT
            !.action = "deceptive", !.payload = {"deceptive"}, !.discrimination = i % 2 = 0,
            !.coercion = i % 3 = 0, !.forced = i % 4 = 0, !.undisclosed = i % 2 = 0,
            !.consent = i % 2 # 0]
      BY <1>1, <1>4 DEF Goal!generate_violating_states
    <3> QED BY <3>1 DEF Goal!EmptyState
  <2> HIDE DEF s
  <2>2. "deception" \in Goal!L2EthicalPredicate(s)
    BY <2>1 DEF Goal!L2EthicalPredicate, Goal!Flag
  <2> QED BY <1>4, <2>2, LevelsSeparate DEF Goal!Passed, s
<1>5. CASE l = 3
  <2>1. s.permissions = "missing"
    <3>1. s = [e EXCEPT
            !.permissions = "missing", !.escalation = i % 3 = 0, !.role = "wrong", !.usage = "above"]
      BY <1>1, <1>5 DEF Goal!generate_violating_states
    <3> QED BY <3>1 DEF Goal!EmptyState
  <2> HIDE DEF s
  <2>2. "missing permissions" \in Goal!L3PermissionsPredicate(s)
    BY <2>1 DEF Goal!L3PermissionsPredicate, Goal!Flag
  <2> QED BY <1>5, <2>2, LevelsSeparate, Zenon DEF Goal!Passed, s
<1>6. CASE l = 4
  <2>1. s.action \in {"self-modifying", "kernel-modifying"}
    <3>1. s = [e EXCEPT
            !.action = IF i % 4 \in {1, 2} THEN "kernel-modifying" ELSE "self-modifying",
            !.outside = i % 2 = 0, !.override = i % 3 = 0,
            !.inconsistent = i % 2 = 0, !.corrupt = i % 4 = 0]
      BY <1>1, <1>6 DEF Goal!generate_violating_states
    <3> QED BY <3>1 DEF Goal!EmptyState
  <2> HIDE DEF s
  <2>2. Goal!L4ConstitutionalPredicate(s) # {}
    BY <2>1 DEF Goal!L4ConstitutionalPredicate, Goal!Flag
  <2> QED BY <1>6, <2>2, LevelsSeparate DEF Goal!Passed, s
<1> QED BY <1>1, <1>2, <1>3, <1>4, <1>5, <1>6

\* So the validator passes, whatever the size of its sample.
LEMMA ValidatorPasses ==
    ASSUME NEW half \in Nat
    PROVE  Goal!ValidationPasses(half)
<1>1. Goal!Cardinality(0 .. (half - 1)) = half
  <2>1. Cardinality(0 .. (half - 1)) = half
    BY FS_Interval
  <2> QED BY <2>1 DEF Goal!Cardinality, Cardinality
<1>2. ASSUME NEW l \in 0..4
      PROVE  /\ Goal!validate_predicate(l, half).fp = 0
             /\ Goal!validate_predicate(l, half).fn = 0
  <2>1. {i \in 0 .. (half - 1) : Goal!Passed(l, Goal!generate_satisfying_states(l, i))} = 0 .. (half - 1)
    <3>1. \A i \in 0 .. (half - 1) : Goal!Passed(l, Goal!generate_satisfying_states(l, i))
      BY SatisfyingPass
    <3> QED BY <3>1
  <2>2. {i \in 0 .. (half - 1) : ~Goal!Passed(l, Goal!generate_violating_states(l, i))} = 0 .. (half - 1)
    <3>1. \A i \in 0 .. (half - 1) : ~Goal!Passed(l, Goal!generate_violating_states(l, i))
      BY ViolatingFail
    <3> QED BY <3>1
  <2>3. /\ Goal!validate_predicate(l, half).fp = half - half
        /\ Goal!validate_predicate(l, half).fn = half - half
    BY <1>1, <2>1, <2>2, Zenon DEF Goal!validate_predicate
  <2> QED BY <2>3
<1> QED BY <1>2 DEF Goal!ValidationPasses, Goal!Levels

-----------------------------------------------------------------------------
(* Goals: the index and the decomposition. *)

\* What the steps of a set allow a later one to name as its inputs.
Usable(ids) == ids \union {<<"">>} \union {<<"id of">> \o id : id \in ids}

IdsOf(s, n) == {s[j].id : j \in 1..n}

\* s is a list of n steps of the kinds K with the identifiers I, each another
\* step and each with inputs that are there.
WellBuilt(s, n, K, I) ==
    /\ n \in Nat
    /\ s = [i \in 1..n |-> s[i]]
    /\ \A i \in 1..n : \E k \in K, l \in Nat : s[i].id = <<k, l>>
    /\ \A i, j \in 1..n : s[i].id = s[j].id => i = j
    /\ \A i \in 1..n : s[i].inputs \subseteq Usable({s[j].id : j \in 1..(i - 1)})
    /\ IdsOf(s, n) = I

Block(k, off, in, m) == [i \in 1..m |-> Goal!Step(k, i - 1 + off, in[i])]

BlockIds(k, off, m) == {<<k, l - 1 + off>> : l \in 1..m}

\* The inputs of a block name steps before it or further up in the block.
InputsFit(I, k, off, in, m) ==
    \A i \in 1..m : in[i] \subseteq Usable(I \union BlockIds(k, off, i - 1))

StepInputsFit(I, k, in, m) ==
    \A i \in 1..m : in[i] \subseteq Usable(I \union {<<k, l>> : l \in 1..(i - 1)})

\* A list followed by another.
LEMMA ListAfterList ==
    ASSUME NEW n \in Nat, NEW m \in Nat, NEW s, NEW t,
           s = [i \in 1..n |-> s[i]], t = [i \in 1..m |-> t[i]]
    PROVE  /\ s \o t = [i \in 1..(n + m) |-> (s \o t)[i]]
           /\ \A i \in 1..n : (s \o t)[i] = s[i]
           /\ \A i \in 1..m : (s \o t)[n + i] = t[i]
<1> DEFINE S == {s[i] : i \in 1..n} \union {t[i] : i \in 1..m}
<1>1. (\A i \in 1..n : s[i] \in S) /\ (\A i \in 1..m : t[i] \in S)
  OBVIOUS
<1> HIDE DEF S
<1>2. s \in Seq(S) /\ t \in Seq(S) /\ Len(s) = n /\ Len(t) = m
  BY <1>1
<1>3. /\ s \o t \in Seq(S) /\ Len(s \o t) = n + m
      /\ \A i \in 1..(n + m) : (s \o t)[i] = IF i <= n THEN s[i] ELSE t[i - n]
  BY ZenonT(60), <1>2, ConcatProperties
<1>4. DOMAIN (s \o t) = 1..(n + m) /\ s \o t = [i \in DOMAIN (s \o t) |-> (s \o t)[i]]
  BY <1>3
<1>5. ASSUME NEW i \in 1..n PROVE (s \o t)[i] = s[i]
  BY <1>3
<1>6. ASSUME NEW i \in 1..m PROVE (s \o t)[n + i] = t[i]
  <2>1. n + i \in 1..(n + m) /\ ~(n + i <= n) /\ (n + i) - n = i
    OBVIOUS
  <2> QED BY <1>3, <2>1
<1> QED BY <1>4, <1>5, <1>6, Zenon

\* A list of steps stays well built when steps of a new kind follow.
LEMMA BlockAdded ==
    ASSUME NEW n, NEW K, NEW I, NEW s, WellBuilt(s, n, K, I),
           NEW k, k \notin K, NEW off \in Nat, NEW m \in Nat, NEW in,
           InputsFit(I, k, off, in, m)
    PROVE  WellBuilt(s \o Block(k, off, in, m), n + m, K \union {k}, I \union BlockIds(k, off, m))
<1> DEFINE t == Block(k, off, in, m)
           u == s \o t
<1>1. n \in Nat /\ s = [i \in 1..n |-> s[i]]
  BY DEF WellBuilt
<1>12. IdsOf(s, n) = I
  BY DEF WellBuilt
<1>2. \A i \in 1..m : t[i].id = <<k, i - 1 + off>> /\ t[i].inputs = in[i] /\ i - 1 + off \in Nat
  BY DEF Block, Goal!Step
<1>3. t = [i \in 1..m |-> t[i]]
  BY DEF Block
<1> HIDE DEF t
<1>4. /\ u = [i \in 1..(n + m) |-> u[i]]
      /\ \A i \in 1..n : u[i] = s[i]
      /\ \A i \in 1..m : u[n + i] = t[i]
  BY <1>1, <1>3, ListAfterList
<1> HIDE DEF u
<1>0. n \in Nat
  BY <1>1
<1>20. (\A i \in 1..n : u[i] = s[i]) /\ \A i \in 1..m : u[n + i] = t[i]
  BY <1>4, Zenon
<1>5. \A i \in 1..(n + m) : i \in 1..n \/ \E j \in 1..m : i = n + j
  <2> TAKE i \in 1..(n + m)
  <2>1. CASE i <= n
    BY <1>1, <2>1
  <2>2. CASE i > n
    <3>1. i - n \in 1..m /\ i = n + (i - n)
      BY <1>1, <2>2
    <3> QED BY <3>1
  <2> QED BY <1>1, <2>1, <2>2
<1>6. n + m \in Nat
  BY <1>1
<1>7. ASSUME NEW i \in 1..(n + m)
      PROVE  \E j \in K \union {k}, l \in Nat : u[i].id = <<j, l>>
  <2>1. CASE i \in 1..n
    <3>1. PICK j \in K, l \in Nat : s[i].id = <<j, l>>
      BY <2>1 DEF WellBuilt
    <3> QED BY <1>4, <2>1, <3>1, Zenon
  <2>2. ASSUME NEW j \in 1..m, i = n + j PROVE \E h \in K \union {k}, l \in Nat : u[i].id = <<h, l>>
    BY ZenonT(60), <1>2, <1>4, <2>2
  <2> QED BY <1>5, <2>1, <2>2
<1>8. ASSUME NEW i \in 1..n, NEW j \in 1..m PROVE s[i].id # t[j].id
  <2>1. PICK h \in K, l \in Nat : s[i].id = <<h, l>>
    BY DEF WellBuilt
  <2> QED BY <1>2, <2>1
<1>9. ASSUME NEW i \in 1..(n + m), NEW j \in 1..(n + m), u[i].id = u[j].id
      PROVE  i = j
  <2>1. CASE i \in 1..n /\ j \in 1..n
    BY <1>4, <1>9, <2>1, Zenon DEF WellBuilt
  <2>2. ASSUME NEW x \in 1..m, i = n + x, j \in 1..n PROVE FALSE
    <3>1. u[i] = t[x] /\ u[j] = s[j]
      BY <1>4, <2>2, Zenon
    <3> QED BY <1>8, <1>9, <2>2, <3>1
  <2>3. ASSUME NEW y \in 1..m, i \in 1..n, j = n + y PROVE FALSE
    <3>1. u[i] = s[i] /\ u[j] = t[y]
      BY <1>4, <2>3, Zenon
    <3> QED BY <1>8, <1>9, <2>3, <3>1
  <2>4. ASSUME NEW x \in 1..m, i = n + x, NEW y \in 1..m, j = n + y PROVE i = j
    <3>1. u[i] = t[x] /\ u[j] = t[y]
      BY <1>4, <2>4, Zenon
    <3>2. <<k, x - 1 + off>> = <<k, y - 1 + off>>
      BY <1>2, <1>9, <3>1
    <3>3. x - 1 + off = y - 1 + off
      BY <3>2
    <3> QED BY <2>4, <3>3
  <2> QED BY <1>5, <2>1, <2>2, <2>3, <2>4
<1>10. IdsOf(u, n + m) = IdsOf(s, n) \union BlockIds(k, off, m)
  <2>1. \A i \in 1..n : i \in 1..(n + m) /\ u[i].id = s[i].id
    BY <1>0, <1>20
  <2>2. \A i \in 1..m : n + i \in 1..(n + m) /\ u[n + i].id = <<k, i - 1 + off>>
    BY <1>0, <1>2, <1>20
  <2>3. ASSUME NEW i \in 1..(n + m) PROVE u[i].id \in IdsOf(s, n) \union BlockIds(k, off, m)
    BY <1>5, <2>1, <2>2, Zenon DEF IdsOf, BlockIds
  <2>4. \A x \in IdsOf(s, n) \union BlockIds(k, off, m) : x \in IdsOf(u, n + m)
    BY <2>1, <2>2 DEF IdsOf, BlockIds
  <2> QED BY <2>3, <2>4, Zenon DEF IdsOf
<1>11. ASSUME NEW i \in 1..(n + m)
       PROVE  u[i].inputs \subseteq Usable({u[j].id : j \in 1..(i - 1)})
  <2>1. CASE i \in 1..n
    <3>1. \A j \in 1..(i - 1) : u[j].id = s[j].id
      BY <1>0, <1>20, <2>1
    <3>2. {u[j].id : j \in 1..(i - 1)} = {s[j].id : j \in 1..(i - 1)}
      BY <3>1
    <3> QED BY <1>20, <2>1, <3>2, Zenon DEF WellBuilt
  <2>2. ASSUME NEW x \in 1..m, i = n + x PROVE u[i].inputs \subseteq Usable({u[j].id : j \in 1..(i - 1)})
    <3>1. u[i].inputs = in[x]
      BY <1>2, <1>20, <2>2
    <3>2. ASSUME NEW y \in IdsOf(s, n) PROVE y \in {u[j].id : j \in 1..(i - 1)}
      <4>1. PICK j \in 1..n : y = s[j].id
        BY DEF IdsOf
      <4>2. j \in 1..(i - 1) /\ u[j] = s[j]
        BY <1>0, <1>20, <2>2
      <4> QED BY <4>1, <4>2
    <3>3. ASSUME NEW y \in BlockIds(k, off, x - 1) PROVE y \in {u[j].id : j \in 1..(i - 1)}
      <4>1. PICK l \in 1..(x - 1) : y = <<k, l - 1 + off>>
        BY DEF BlockIds
      <4>2. n + l \in 1..(i - 1) /\ l \in 1..m
        BY <1>0, <2>2
      <4>3. u[n + l].id = y
        BY <1>2, <1>20, <4>1, <4>2
      <4> QED BY <4>2, <4>3
    <3>4. IdsOf(s, n) \union BlockIds(k, off, x - 1) \subseteq {u[j].id : j \in 1..(i - 1)}
      BY <3>2, <3>3
    <3> DEFINE A == IdsOf(s, n) \union BlockIds(k, off, x - 1)
               B == {u[j].id : j \in 1..(i - 1)}
    <3>5. in[x] \subseteq Usable(A) /\ A \subseteq B
      BY <1>12, <3>4 DEF InputsFit
    <3> HIDE DEF A, B
    <3>6. Usable(A) \subseteq Usable(B)
      BY <3>5, Zenon DEF Usable
    <3>7. in[x] \subseteq Usable(B)
      BY <3>5, <3>6
    <3> QED BY <3>1, <3>7 DEF B
  <2> QED BY <1>5, <2>1, <2>2
<1> QED BY <1>4, <1>6, <1>7, <1>9, <1>10, <1>11, <1>12, Zenon DEF WellBuilt, u, t

\* Lists of well-built steps of three kinds follow one another.
LEMMA ThreeInARow ==
    ASSUME NEW x, NEW y, NEW z
    PROVE  <<x>> \o <<y, z>> = <<x, y, z>>
<1> DEFINE s == <<x>>
           t == <<y, z>>
           u == s \o t
           w == <<x, y, z>>
<1>1. s = [i \in 1..1 |-> s[i]] /\ t = [i \in 1..2 |-> t[i]] /\ w = [i \in 1..3 |-> w[i]]
  OBVIOUS
<1>2. s[1] = x /\ t[1] = y /\ t[2] = z /\ w[1] = x /\ w[2] = y /\ w[3] = z
  OBVIOUS
<1>3. 1 \in Nat /\ 2 \in Nat /\ 1 + 2 = 3
  OBVIOUS
<1> HIDE DEF s, t, w
<1>4. /\ u = [i \in 1..(1 + 2) |-> u[i]]
      /\ (\A i \in 1..1 : u[i] = s[i]) /\ \A i \in 1..2 : u[1 + i] = t[i]
  BY <1>1, <1>3, ListAfterList
<1> HIDE DEF u
<1>5. u[1] = x /\ u[2] = y /\ u[3] = z
  BY <1>2, <1>4
<1>6. \A i \in 1..3 : u[i] = w[i]
  BY <1>2, <1>5
<1>7. u = [i \in 1..3 |-> u[i]]
  BY <1>3, <1>4
<1>8. [i \in 1..3 |-> u[i]] = [i \in 1..3 |-> w[i]]
  BY <1>6
<1>9. u = w
  BY <1>1, <1>7, <1>8
<1> QED BY <1>9 DEF u, w, s, t

InTurn(s, x, y) == s \o <<x, y>> = (s \o <<x>>) \o <<y>>

\* Two elements after a list are added one after the other.
LEMMA TwoAfterList ==
    ASSUME NEW n, NEW K, NEW I, NEW s, WellBuilt(s, n, K, I), NEW x, NEW y
    PROVE  InTurn(s, x, y)
<1>0. n \in Nat /\ s = [i \in 1..n |-> s[i]]
  BY DEF WellBuilt
<1> USE <1>0
<1> DEFINE t == <<x, y>>
           a == <<x>>
           b == <<y>>
           u == s \o t
           v == s \o a
           w == v \o b
<1>1. t = [i \in 1..2 |-> t[i]] /\ a = [i \in 1..1 |-> a[i]] /\ b = [i \in 1..1 |-> b[i]]
  OBVIOUS
<1>2. t[1] = x /\ t[2] = y /\ a[1] = x /\ b[1] = y
  OBVIOUS
<1>3. 1 \in Nat /\ 2 \in Nat /\ n + 1 \in Nat /\ (n + 1) + 1 = n + 2
  OBVIOUS
<1> HIDE DEF t, a, b
<1>4. /\ u = [i \in 1..(n + 2) |-> u[i]]
      /\ (\A i \in 1..n : u[i] = s[i]) /\ \A i \in 1..2 : u[n + i] = t[i]
  BY <1>1, <1>3, ListAfterList
<1>5. /\ v = [i \in 1..(n + 1) |-> v[i]]
      /\ (\A i \in 1..n : v[i] = s[i]) /\ \A i \in 1..1 : v[n + i] = a[i]
  BY <1>1, <1>3, ListAfterList
<1> HIDE DEF u, v
<1> DEFINE k == n + 1
<1>16. k \in Nat /\ v = [i \in 1..k |-> v[i]] /\ b = [i \in 1..1 |-> b[i]]
  BY <1>1, <1>3, <1>5
<1> HIDE DEF k
<1>17. /\ w = [i \in 1..(k + 1) |-> w[i]]
       /\ (\A i \in 1..k : w[i] = v[i]) /\ \A i \in 1..1 : w[k + i] = b[i]
  BY <1>3, <1>16, ListAfterList
<1> HIDE DEF w
<1>6. /\ w = [i \in 1..((n + 1) + 1) |-> w[i]]
      /\ (\A i \in 1..(n + 1) : w[i] = v[i]) /\ \A i \in 1..1 : w[(n + 1) + i] = b[i]
  BY <1>17, Zenon DEF k
<1>7. u[n + 1] = x /\ u[n + 2] = y /\ v[n + 1] = x /\ w[n + 2] = y
  BY <1>2, <1>3, <1>4, <1>5, <1>6
<1>8. \A i \in 1..n : u[i] = s[i] /\ v[i] = s[i]
  BY <1>4, <1>5, Zenon
<1>9. \A i \in 1..(n + 1) : w[i] = v[i]
  BY <1>6, Zenon
<1>10. \A i \in 1..(n + 2) : i \in 1..n \/ i = n + 1 \/ i = n + 2
  OBVIOUS
<1>11. \A i \in 1..n : i \in 1..(n + 1)
  OBVIOUS
<1>12. n + 1 \in 1..(n + 1)
  OBVIOUS
<1>13. \A i \in 1..(n + 2) : u[i] = w[i]
  BY <1>7, <1>8, <1>9, <1>10, <1>11, <1>12
<1>14. [i \in 1..(n + 2) |-> u[i]] = [i \in 1..(n + 2) |-> w[i]]
  BY <1>13
<1>15. u = w
  BY <1>3, <1>4, <1>6, <1>14, Zenon
<1> QED BY <1>15, Zenon DEF InTurn, u, v, w, t, a, b

\* A list after the empty one is that list.
LEMMA ListAfterNone ==
    ASSUME NEW n \in Nat, NEW s, s = [i \in 1..n |-> s[i]]
    PROVE  << >> \o s = s
<1> DEFINE S == {s[i] : i \in 1..n}
<1>1. \A i \in 1..n : s[i] \in S
  OBVIOUS
<1> HIDE DEF S
<1>2. s \in Seq(S)
  BY <1>1
<1> QED BY <1>2, ConcatEmptySeq

\* What may be named grows with what is there.
LEMMA UsableGrows ==
    ASSUME NEW A, NEW B, A \subseteq B
    PROVE  A \subseteq Usable(B) /\ Usable(A) \subseteq Usable(B)
BY Zenon DEF Usable

\* One step of a new kind added to a well-built list.
LEMMA StepAdded ==
    ASSUME NEW n, NEW K, NEW I, NEW s, WellBuilt(s, n, K, I), NEW k, k \notin K,
           NEW x, x \subseteq Usable(I)
    PROVE  WellBuilt(s \o <<Goal!Step(k, 0, x)>>, n + 1, K \union {k}, I \union {<<k, 0>>})
<1> DEFINE in == [i \in 1..1 |-> x]
<1>1. Block(k, 0, in, 1) = <<Goal!Step(k, 0, x)>>
  <2>1. \A i \in 1..1 : i = 1 /\ i - 1 + 0 = 0 /\ in[i] = x
    OBVIOUS
  <2>2. Block(k, 0, in, 1) = [i \in 1..1 |-> Goal!Step(k, 0, x)]
    BY <2>1 DEF Block
  <2> QED BY <2>2
<1>2. BlockIds(k, 0, 1) = {<<k, 0>>}
  <2>1. \A i \in 1..1 : i = 1 /\ i - 1 + 0 = 0
    OBVIOUS
  <2> QED BY <2>1 DEF BlockIds
<1>3. InputsFit(I, k, 0, in, 1)
  <2>1. \A i \in 1..1 : in[i] = x
    OBVIOUS
  <2>2. ASSUME NEW E PROVE x \subseteq Usable(I \union E)
    <3>1. Usable(I) \subseteq Usable(I \union E)
      BY UsableGrows
    <3> QED BY <3>1, Zenon
  <2> HIDE DEF in
  <2> QED BY <2>1, <2>2, Zenon DEF InputsFit
<1> HIDE DEF in
<1>4. 0 \in Nat /\ 1 \in Nat
  OBVIOUS
<1>5. WellBuilt(s \o Block(k, 0, in, 1), n + 1, K \union {k}, I \union BlockIds(k, 0, 1))
  BY <1>3, <1>4, BlockAdded
<1> QED BY <1>1, <1>2, <1>5

\* A row of steps of a new kind added to a well-built list.
LEMMA StepsAdded ==
    ASSUME NEW n, NEW K, NEW I, NEW s, WellBuilt(s, n, K, I), NEW k, k \notin K,
           NEW m \in Nat, NEW in, DOMAIN in = 1..m, StepInputsFit(I, k, in, m)
    PROVE  WellBuilt(s \o Goal!Steps(k, in), n + m, K \union {k}, I \union {<<k, l>> : l \in 1..m})
<1>1. Block(k, 1, in, m) = Goal!Steps(k, in)
  <2>1. \A i \in 1..m : i - 1 + 1 = i
    OBVIOUS
  <2> QED BY <2>1 DEF Block, Goal!Steps
<1>2. ASSUME NEW j \in Int PROVE BlockIds(k, 1, j) = {<<k, l>> : l \in 1..j}
  <2>1. \A i \in 1..j : i - 1 + 1 = i
    OBVIOUS
  <2> QED BY <2>1 DEF BlockIds
<1>3. InputsFit(I, k, 1, in, m)
  <2> SUFFICES ASSUME NEW i \in 1..m
               PROVE  in[i] \subseteq Usable(I \union BlockIds(k, 1, i - 1))
    BY DEF InputsFit
  <2>1. i - 1 \in Int
    OBVIOUS
  <2>2. BlockIds(k, 1, i - 1) = {<<k, l>> : l \in 1..(i - 1)}
    BY <1>2, <2>1
  <2> QED BY <2>2 DEF StepInputsFit
<1>4. BlockIds(k, 1, m) = {<<k, l>> : l \in 1..m}
  BY <1>2
<1>5. 1 \in Nat
  OBVIOUS
<1>6. WellBuilt(s \o Block(k, 1, in, m), n + m, K \union {k}, I \union BlockIds(k, 1, m))
  BY <1>3, <1>5, BlockAdded
<1> QED BY <1>1, <1>4, <1>6, Zenon

\* The step before is there, by the id it is named with.
LEMMA BeforeIsUsable ==
    ASSUME NEW k \in {"exec", "differentiate", "steer"}, NEW i \in Nat, i >= 1
    PROVE  Goal!Before(k, i) \subseteq Usable({<<k, l>> : l \in 1..(i - 1)})
<1> DEFINE E == {<<k, l>> : l \in 1..(i - 1)}
<1>1. CASE i = 1
  BY <1>1 DEF Goal!Before, Usable
<1>2. CASE i # 1
  <2>1. <<k, i - 1>> \in E
    BY <1>2
  <2>2. <<"id of">> \o <<k, i - 1>> = <<"id of", k, i - 1>>
    BY ThreeInARow, Zenon
  <2> HIDE DEF E
  <2>3. <<"id of", k, i - 1>> \in Usable(E)
    BY <2>1, <2>2, Zenon DEF Usable
  <2> QED BY <1>2, <2>3, Zenon DEF Goal!Before, E
<1> QED BY <1>1, <1>2

DepIds(c) == {<<"dep", l>> : l \in 1..c.deps}

\* The steps for the dependencies are well built.
LEMMA DependenciesBuilt ==
    ASSUME NEW c \in Goal!Contexts
    PROVE  /\ WellBuilt(Goal!Dependencies(c), c.deps, {"dep"}, DepIds(c))
           /\ Goal!LastDependency(c) \subseteq Usable(DepIds(c))
<1> DEFINE in == [i \in 1..c.deps |-> {}]
<1>1. c.deps \in Nat
  BY DEF Goal!Contexts
<1>2. WellBuilt(<< >>, 0, {}, {})
  <2>1. << >> = [i \in 1..0 |-> << >>[i]]
    OBVIOUS
  <2>2. 1..0 = {}
    OBVIOUS
  <2> QED BY <2>1, <2>2 DEF WellBuilt, IdsOf
<1>3. DOMAIN in = 1..c.deps /\ \A i \in 1..c.deps : in[i] = {}
  OBVIOUS
<1>4. Goal!Dependencies(c) = Goal!Steps("dep", in)
  BY DEF Goal!Dependencies
<1> HIDE DEF in
<1>5. << >> \o Goal!Steps("dep", in) = Goal!Steps("dep", in)
  <2>1. Goal!Steps("dep", in) = [i \in 1..c.deps |-> Goal!Steps("dep", in)[i]]
    BY <1>3 DEF Goal!Steps
  <2> QED BY <1>1, <2>1, ListAfterNone
<1>6. WellBuilt(<< >> \o Goal!Steps("dep", in), 0 + c.deps, {} \union {"dep"},
                {} \union {<<"dep", l>> : l \in 1..c.deps})
  <2>1. StepInputsFit({}, "dep", in, c.deps)
    BY <1>3 DEF StepInputsFit
  <2> DEFINE none == {}
             zero == 0
             list == << >>
             m == c.deps
  <2>2. WellBuilt(list, zero, none, none) /\ "dep" \notin none /\ m \in Nat
           /\ DOMAIN in = 1..m /\ StepInputsFit(none, "dep", in, m)
    BY <1>1, <1>2, <1>3, <2>1
  <2> HIDE DEF none, zero, list, m
  <2>3. WellBuilt(list \o Goal!Steps("dep", in), zero + m, none \union {"dep"},
                  none \union {<<"dep", l>> : l \in 1..m})
    BY <2>2, StepsAdded
  <2> QED BY <2>3 DEF none, zero, list, m
<1>7. Goal!LastDependency(c) \subseteq DepIds(c)
  BY <1>1 DEF Goal!LastDependency, DepIds
<1>8. 0 + c.deps = c.deps /\ {} \union {"dep"} = {"dep"}
      /\ {} \union {<<"dep", l>> : l \in 1..c.deps} = DepIds(c)
  BY <1>1 DEF DepIds
<1>9. Goal!LastDependency(c) \subseteq Usable(DepIds(c))
  BY <1>7, UsableGrows
<1> QED BY <1>4, <1>5, <1>6, <1>8, <1>9

\* AtMost is a minimum.
LEMMA AtMostIs ==
    ASSUME NEW n \in Nat, NEW m \in Nat
    PROVE  /\ Goal!AtMost(n, m) \in Nat /\ Goal!AtMost(n, m) <= m /\ Goal!AtMost(n, m) <= n
           /\ n >= m => Goal!AtMost(n, m) = m
           /\ n <= m => Goal!AtMost(n, m) = n
BY DEF Goal!AtMost

\* The limits on the steps are natural numbers.
LEMMA LimitIsNat ==
    ASSUME NEW c \in Goal!Contexts
    PROVE  /\ Goal!AtMost(c.codim, 3) \in Nat
           /\ Goal!AtMost(c.agents, 4) \in Nat /\ Goal!AtMost(c.agents, 6) \in Nat
BY DEF Goal!AtMost, Goal!Contexts

\* Two steps added at once.
LEMMA PairAdded ==
    ASSUME NEW n, NEW K, NEW I, NEW s, WellBuilt(s, n, K, I),
           NEW k, k \notin K, NEW x, x \subseteq Usable(I),
           NEW h, h \notin K, h # k, NEW y, y \subseteq Usable(I \union {<<k, 0>>})
    PROVE  WellBuilt(s \o <<Goal!Step(k, 0, x), Goal!Step(h, 0, y)>>, (n + 1) + 1,
                     (K \union {k}) \union {h}, (I \union {<<k, 0>>}) \union {<<h, 0>>})
<1>1. n \in Nat /\ s = [i \in 1..n |-> s[i]]
  BY DEF WellBuilt
<1> DEFINE a == Goal!Step(k, 0, x)
           b == Goal!Step(h, 0, y)
<1> HIDE DEF a, b
<1>2. s \o <<a, b>> = (s \o <<a>>) \o <<b>>
  BY TwoAfterList DEF InTurn
<1> USE DEF a, b
<1> DEFINE u == s \o <<Goal!Step(k, 0, x)>>
           m == n + 1
           L == K \union {k}
           J == I \union {<<k, 0>>}
<1>3. WellBuilt(u, m, L, J)
  BY StepAdded
<1>4. h \notin L /\ y \subseteq Usable(J)
  BY Zenon
<1> HIDE DEF u, m, L, J
<1>5. WellBuilt(u \o <<Goal!Step(h, 0, y)>>, m + 1, L \union {h}, J \union {<<h, 0>>})
  BY <1>3, <1>4, StepAdded
<1> QED BY <1>2, <1>5, Zenon DEF u, m, L, J

\* Steps that name one earlier step and the step before them in their row.
LEMMA RowFits ==
    ASSUME NEW k \in {"exec", "differentiate", "steer"}, NEW m \in Nat, NEW I, NEW y \in I
    PROVE  StepInputsFit(I, k, [i \in 1..m |-> {y} \union Goal!Before(k, i)], m)
<1> SUFFICES ASSUME NEW i \in 1..m
             PROVE  {y} \union Goal!Before(k, i) \subseteq Usable(I \union {<<k, l>> : l \in 1..(i - 1)})
  BY Zenon DEF StepInputsFit
<1> DEFINE E == {<<k, l>> : l \in 1..(i - 1)}
<1>1. Goal!Before(k, i) \subseteq Usable(E)
  BY BeforeIsUsable
<1> HIDE DEF E
<1>2. E \subseteq I \union E /\ I \subseteq I \union E
  OBVIOUS
<1>3. Usable(E) \subseteq Usable(I \union E)
  BY <1>2, UsableGrows
<1>4. I \subseteq Usable(I \union E)
  BY <1>2, UsableGrows
<1>5. {y} \union Goal!Before(k, i) \subseteq Usable(I \union E)
  BY <1>1, <1>3, <1>4
<1> QED BY <1>5 DEF E

\* A list of steps that is well built, of whatever kinds.
Sound(s, n) == \E K, I : WellBuilt(s, n, K, I)

\* decompose for a simple goal.
LEMMA T0Built ==
    ASSUME NEW c \in Goal!Contexts
    PROVE  Sound(Goal!decompose_T0(c), c.deps + 1)
<1> DEFINE s == Goal!Dependencies(c)
           K == {"dep"}
           I == DepIds(c)
           x == {<<"dep", i>> : i \in 1..c.deps}
<1>1. WellBuilt(s, c.deps, K, I)
  BY DependenciesBuilt
<1>2. x \subseteq Usable(I) /\ "exec" \notin K
  BY UsableGrows DEF DepIds
<1>3. Goal!decompose_T0(c) = s \o <<Goal!Step("exec", 0, x)>>
  BY DEF Goal!decompose_T0
<1> HIDE DEF s, K, I, x
<1>4. WellBuilt(s \o <<Goal!Step("exec", 0, x)>>, c.deps + 1, K \union {"exec"}, I \union {<<"exec", 0>>})
  BY <1>1, <1>2, StepAdded
<1> QED BY <1>3, <1>4 DEF Sound

\* decompose for a goal of several dimensions.
LEMMA T1Built ==
    ASSUME NEW c \in Goal!Contexts
    PROVE  Sound(Goal!decompose_T1(c), c.deps + 2 + Goal!AtMost(c.codim, 3))
<1> DEFINE s == Goal!Dependencies(c)
           K == {"dep"}
           I == DepIds(c)
           x == Goal!LastDependency(c)
           y == {<<"plan", 0>>}
           m == Goal!AtMost(c.codim, 3)
           in == [i \in 1..m |-> {<<"validate", 0>>} \union Goal!Before("exec", i)]
           t == s \o <<Goal!Step("plan", 0, x), Goal!Step("validate", 0, y)>>
           n == c.deps + 1 + 1
           L == (K \union {"plan"}) \union {"validate"}
           J == (I \union {<<"plan", 0>>}) \union {<<"validate", 0>>}
<1>1. WellBuilt(s, c.deps, K, I) /\ x \subseteq Usable(I) /\ "plan" \notin K /\ "validate" \notin K
  BY DependenciesBuilt
<1>2. Goal!decompose_T1(c) = t \o Goal!Steps("exec", in)
  BY DEF Goal!decompose_T1
<1>3. y \subseteq I \union {<<"plan", 0>>}
  OBVIOUS
<1>4. c.deps \in Nat /\ m \in Nat /\ "exec" \notin L
  BY LimitIsNat DEF Goal!Contexts
<1>5. <<"validate", 0>> \in J /\ DOMAIN in = 1..m
  OBVIOUS
<1>6. StepInputsFit(J, "exec", in, m)
  BY <1>4, <1>5, RowFits, Zenon
<1> HIDE DEF s, K, I, x, y, m, in
<1>7. y \subseteq Usable(I \union {<<"plan", 0>>})
  BY <1>3, UsableGrows
<1>8. WellBuilt(t, n, L, J)
  BY <1>1, <1>7, PairAdded
<1> HIDE DEF t, n, L, J
<1>9. WellBuilt(t \o Goal!Steps("exec", in), n + m, L \union {"exec"}, J \union {<<"exec", l>> : l \in 1..m})
  BY <1>4, <1>5, <1>6, <1>8, StepsAdded
<1>10. n + m = c.deps + 2 + m
  BY <1>4 DEF n
<1> QED BY <1>2, <1>9, <1>10 DEF Sound, m

\* decompose for a goal of several agents.
LEMMA T2Built ==
    ASSUME NEW c \in Goal!Contexts
    PROVE  Sound(Goal!decompose_T2(c), c.deps + 3 + Goal!AtMost(c.agents, 4))
<1> DEFINE s == Goal!Dependencies(c)
           K == {"dep"}
           I == DepIds(c)
           x == Goal!LastDependency(c)
           m == Goal!AtMost(c.agents, 4)
           in == [i \in 1..m |-> {<<"agent_pool", 0>>}]
           contracts == {<<"contract", i>> : i \in 1..m}
           t == s \o <<Goal!Step("agent_pool", 0, x)>>
           n == c.deps + 1
           L == K \union {"agent_pool"}
           J == I \union {<<"agent_pool", 0>>}
           u == t \o Goal!Steps("contract", in)
           M == L \union {"contract"}
           G == J \union contracts
           bound == {<<"bind_topology", 0>>}
<1>1. WellBuilt(s, c.deps, K, I) /\ x \subseteq Usable(I) /\ "agent_pool" \notin K
  BY DependenciesBuilt
<1>2. Goal!decompose_T2(c)
         = u \o <<Goal!Step("bind_topology", 0, contracts), Goal!Step("execute", 0, bound)>>
  BY DEF Goal!decompose_T2
<1>3. c.deps \in Nat /\ m \in Nat
  BY LimitIsNat DEF Goal!Contexts
<1>4. "contract" \notin L /\ "bind_topology" \notin M /\ "execute" \notin M
  OBVIOUS
<1>5. StepInputsFit(J, "contract", in, m) /\ DOMAIN in = 1..m
  <2> SUFFICES ASSUME NEW i \in 1..m
               PROVE  {<<"agent_pool", 0>>} \subseteq Usable(J \union {<<"contract", l>> : l \in 1..(i - 1)})
    BY DEF StepInputsFit
  <2>1. {<<"agent_pool", 0>>} \subseteq J \union {<<"contract", l>> : l \in 1..(i - 1)}
    OBVIOUS
  <2> HIDE DEF J
  <2> QED BY <2>1, UsableGrows
<1>6. contracts \subseteq G /\ bound \subseteq G \union {<<"bind_topology", 0>>}
  OBVIOUS
<1>7. contracts = {<<"contract", l>> : l \in 1..m}
  OBVIOUS
<1> HIDE DEF s, K, I, x, m, in, contracts, bound
<1>8. WellBuilt(t, n, L, J)
  BY <1>1, StepAdded
<1> HIDE DEF t, n, L, J
<1>9. WellBuilt(u, n + m, L \union {"contract"}, J \union {<<"contract", l>> : l \in 1..m})
  BY <1>3, <1>4, <1>5, <1>8, StepsAdded
<1>10. WellBuilt(u, n + m, M, G)
  BY <1>7, <1>9
<1> HIDE DEF u, M, G
<1>11. contracts \subseteq Usable(G) /\ bound \subseteq Usable(G \union {<<"bind_topology", 0>>})
  BY <1>6, UsableGrows
<1>12. "execute" # "bind_topology"
  OBVIOUS
<1>13. WellBuilt(u \o <<Goal!Step("bind_topology", 0, contracts), Goal!Step("execute", 0, bound)>>,
                 ((n + m) + 1) + 1, (M \union {"bind_topology"}) \union {"execute"},
                 (G \union {<<"bind_topology", 0>>}) \union {<<"execute", 0>>})
  BY <1>4, <1>10, <1>11, <1>12, PairAdded
<1>14. ((n + m) + 1) + 1 = c.deps + 3 + m
  BY <1>3 DEF n
<1> QED BY <1>2, <1>13, <1>14 DEF Sound, m

\* decompose for a goal whose agents diverge.
LEMMA T3Built ==
    ASSUME NEW c \in Goal!Contexts
    PROVE  Sound(Goal!decompose_T3(c), c.deps + 6 + Goal!AtMost(c.agents, 6))
<1> DEFINE s == Goal!Dependencies(c)
           K == {"dep"}
           I == DepIds(c)
           x == Goal!LastDependency(c)
           y == {<<"template", 0>>}
           m == Goal!AtMost(c.agents, 6)
           in == [i \in 1..m |-> {<<"field", 0>>} \union Goal!Before("differentiate", i)]
           ways == {<<"differentiate", i>> : i \in 1..m}
           two == [i \in 1..2 |-> {<<"eigenspectrum", 0>>} \union Goal!Before("steer", i)]
           last == {<<"steer", 2>>}
           t == s \o <<Goal!Step("template", 0, x), Goal!Step("field", 0, y)>>
           n == c.deps + 1 + 1
           L == (K \union {"template"}) \union {"field"}
           J == (I \union {<<"template", 0>>}) \union {<<"field", 0>>}
           u == t \o Goal!Steps("differentiate", in)
           M == L \union {"differentiate"}
           G == J \union ways
           v == u \o <<Goal!Step("eigenspectrum", 0, ways)>>
           N == M \union {"eigenspectrum"}
           H == G \union {<<"eigenspectrum", 0>>}
           w == v \o Goal!Steps("steer", two)
           O == N \union {"steer"}
           Q == H \union {<<"steer", l>> : l \in 1..2}
<1>1. WellBuilt(s, c.deps, K, I) /\ x \subseteq Usable(I) /\ "template" \notin K /\ "field" \notin K
  BY DependenciesBuilt
<1>2. Goal!decompose_T3(c) = w \o <<Goal!Step("execute", 0, last)>>
  BY DEF Goal!decompose_T3
<1>3. c.deps \in Nat /\ m \in Nat /\ 2 \in Nat
  BY LimitIsNat DEF Goal!Contexts
<1>4. "differentiate" \notin L /\ "eigenspectrum" \notin M /\ "steer" \notin N /\ "execute" \notin O
  OBVIOUS
<1>5. y \subseteq I \union {<<"template", 0>>}
  OBVIOUS
<1>6. StepInputsFit(J, "differentiate", in, m) /\ DOMAIN in = 1..m
  <2>1. <<"field", 0>> \in J
    OBVIOUS
  <2> QED BY <1>3, <2>1, RowFits, Zenon
<1>7. StepInputsFit(H, "steer", two, 2) /\ DOMAIN two = 1..2
  <2>1. <<"eigenspectrum", 0>> \in H
    OBVIOUS
  <2> QED BY <1>3, <2>1, RowFits, Zenon
<1>8. ways \subseteq G /\ last \subseteq Q /\ "template" # "field"
  OBVIOUS
<1>9. ways = {<<"differentiate", l>> : l \in 1..m}
  OBVIOUS
<1> HIDE DEF s, K, I, x, y, m, in, ways, two, last
<1>10. y \subseteq Usable(I \union {<<"template", 0>>})
  BY <1>5, UsableGrows
<1>11. WellBuilt(t, n, L, J)
  BY <1>1, <1>8, <1>10, PairAdded
<1> HIDE DEF t, n, L, J
<1>12. WellBuilt(u, n + m, L \union {"differentiate"}, J \union {<<"differentiate", l>> : l \in 1..m})
  <2>1. WellBuilt(t, n, L, J) /\ "differentiate" \notin L /\ m \in Nat
          /\ DOMAIN in = 1..m /\ StepInputsFit(J, "differentiate", in, m)
    BY <1>3, <1>4, <1>6, <1>11
  <2> QED BY <2>1, StepsAdded
<1>13. WellBuilt(u, n + m, M, G)
  BY <1>9, <1>12
<1> HIDE DEF u, M, G
<1>14. ways \subseteq Usable(G)
  BY <1>8, UsableGrows
<1>15. WellBuilt(v, (n + m) + 1, N, H)
  BY <1>4, <1>13, <1>14, StepAdded
<1> HIDE DEF v, N, H
<1>16. WellBuilt(w, ((n + m) + 1) + 2, O, Q)
  <2> DEFINE r == (n + m) + 1
             b == 2
  <2>1. WellBuilt(v, r, N, H) /\ "steer" \notin N /\ b \in Nat
          /\ DOMAIN two = 1..b /\ StepInputsFit(H, "steer", two, b)
    BY <1>3, <1>4, <1>7, <1>15
  <2> HIDE DEF r, b
  <2>2. WellBuilt(v \o Goal!Steps("steer", two), r + b, N \union {"steer"},
                  H \union {<<"steer", l>> : l \in 1..b})
    BY <2>1, StepsAdded
  <2> QED BY <2>2 DEF r, b, w, O, Q
<1> HIDE DEF w, O, Q
<1>17. last \subseteq Usable(Q)
  BY <1>8, UsableGrows
<1>18. WellBuilt(w \o <<Goal!Step("execute", 0, last)>>, (((n + m) + 1) + 2) + 1,
                 O \union {"execute"}, Q \union {<<"execute", 0>>})
  BY <1>4, <1>16, <1>17, StepAdded
<1>19. (((n + m) + 1) + 2) + 1 = c.deps + 6 + m
  BY <1>3 DEF n
<1> QED BY <1>2, <1>18, <1>19 DEF Sound, m

\* What follows from a well-built list for its index and its order.
LEMMA SoundIsOrdered ==
    ASSUME NEW s, NEW n, Sound(s, n)
    PROVE  /\ n \in Nat /\ Len(s) = n /\ Goal!compute_assembly_index(s) = n
           /\ DOMAIN s = 1..n
           /\ \A i \in DOMAIN s : s[i].inputs \subseteq Usable({s[j].id : j \in 1..(i - 1)})
<1>1. PICK K, I : WellBuilt(s, n, K, I)
  BY DEF Sound
<1>2. /\ n \in Nat /\ s = [i \in 1..n |-> s[i]]
      /\ \A i, j \in 1..n : s[i].id = s[j].id => i = j
      /\ \A i \in 1..n : s[i].inputs \subseteq Usable({s[j].id : j \in 1..(i - 1)})
  BY <1>1 DEF WellBuilt
<1>3. DOMAIN s = 1..n /\ Len(s) = n
  BY <1>2
<1> DEFINE ids == {s[i].id : i \in DOMAIN s}
           f == [i \in 1..n |-> s[i].id]
<1>4. f \in Bijection(1..n, ids)
  <2>1. f \in [1..n -> ids] /\ \A i \in 1..n : f[i] = s[i].id
    BY <1>3
  <2>2. \A i, j \in 1..n : f[i] = f[j] => i = j
    BY <1>2, <2>1
  <2>3. \A y \in ids : \E i \in 1..n : f[i] = y
    BY <1>3, <2>1
  <2> HIDE DEF f, ids
  <2> QED BY <2>1, <2>2, <2>3 DEF Bijection, Injection, Surjection, IsInjective
<1> HIDE DEF f, ids
<1>5. Cardinality(ids) = n
  <2>1. IsFiniteSet(1..n) /\ Cardinality(1..n) = n
    BY <1>2, FS_Interval
  <2>2. ExistsBijection(1..n, ids)
    BY <1>4 DEF ExistsBijection
  <2> QED BY <2>1, <2>2, FS_Bijection
<1>6. Goal!Cardinality(ids) = n
  BY <1>5 DEF Goal!Cardinality, Cardinality
<1>7. Goal!compute_assembly_index(s) = n
  BY <1>6 DEF Goal!compute_assembly_index, ids
<1> QED BY <1>2, <1>3, <1>7

LevelNames == {"T0", "T1", "T2", "T3"}

\* The levels are four.
LEMMA LevelsDiffer ==
    /\ "T0" # "T1" /\ "T0" # "T2" /\ "T0" # "T3" /\ "T1" # "T2" /\ "T1" # "T3" /\ "T2" # "T3"
    /\ "T1" # "T0" /\ "T2" # "T0" /\ "T3" # "T0" /\ "T2" # "T1" /\ "T3" # "T1" /\ "T3" # "T2"
OBVIOUS

\* What classify says of a goal.
LEMMA LevelOf ==
    ASSUME NEW c \in Goal!Contexts
    PROVE  /\ Goal!classify(c) \in LevelNames
           /\ Goal!classify(c) = "T1" => c.codim >= 2 /\ c.codim <= 4
           /\ Goal!classify(c) \in {"T2", "T3"} => c.agents >= 2
BY DEF Goal!classify, LevelNames, Goal!Contexts

\* decompose by the level it is given.
LEMMA DecompositionOf ==
    ASSUME NEW c
    PROVE  /\ Goal!decompose("T0", c) = Goal!decompose_T0(c)
           /\ Goal!decompose("T1", c) = Goal!decompose_T1(c)
           /\ Goal!decompose("T2", c) = Goal!decompose_T2(c)
           /\ Goal!decompose("T3", c) = Goal!decompose_T3(c)
<1>1. Goal!decompose("T0", c) = Goal!decompose_T0(c)
  BY LevelsDiffer, Zenon DEF Goal!decompose
<1>2. Goal!decompose("T1", c) = Goal!decompose_T1(c)
  BY LevelsDiffer, Zenon DEF Goal!decompose
<1>3. Goal!decompose("T2", c) = Goal!decompose_T2(c)
  BY LevelsDiffer, Zenon DEF Goal!decompose
<1>4. Goal!decompose("T3", c) = Goal!decompose_T3(c)
  BY LevelsDiffer, Zenon DEF Goal!decompose
<1> QED BY <1>1, <1>2, <1>3, <1>4

\* required_checks by level.
LEMMA ChecksOf ==
    /\ Goal!required_checks("T0") = {0}
    /\ Goal!required_checks("T1") = {0, 1}
    /\ Goal!required_checks("T2") = {0, 1, 2}
    /\ Goal!required_checks("T3") = {0, 1, 2, 3, 4}
<1>1. Goal!required_checks("T0") = {0}
  BY LevelsDiffer, Zenon DEF Goal!required_checks
<1>2. Goal!required_checks("T1") = {0, 1}
  BY LevelsDiffer, Zenon DEF Goal!required_checks
<1>3. Goal!required_checks("T2") = {0, 1, 2}
  BY LevelsDiffer, Zenon DEF Goal!required_checks
<1>4. Goal!required_checks("T3") = {0, 1, 2, 3, 4}
  BY LevelsDiffer, Zenon DEF Goal!required_checks
<1> QED BY <1>1, <1>2, <1>3, <1>4

RankOf(x) == CHOOSE i \in 1..4 : Goal!TaskLevels[i] = Goal!classify(x)

\* The rank of a goal is that of its level.
LEMMA RankIs ==
    ASSUME NEW c \in Goal!Contexts
    PROVE  /\ Goal!classify(c) = "T0" => RankOf(c) = 1
           /\ Goal!classify(c) = "T1" => RankOf(c) = 2
           /\ Goal!classify(c) = "T2" => RankOf(c) = 3
           /\ Goal!classify(c) = "T3" => RankOf(c) = 4
<1>1. /\ Goal!TaskLevels[1] = "T0" /\ Goal!TaskLevels[2] = "T1"
      /\ Goal!TaskLevels[3] = "T2" /\ Goal!TaskLevels[4] = "T3"
  BY DEF Goal!TaskLevels
<1>2. \A i \in 1..4 : i = 1 \/ i = 2 \/ i = 3 \/ i = 4
  OBVIOUS
<1>3. \E i \in 1..4 : Goal!TaskLevels[i] = Goal!classify(c)
  <2>1. 1 \in 1..4 /\ 2 \in 1..4 /\ 3 \in 1..4 /\ 4 \in 1..4
    OBVIOUS
  <2> QED BY <1>1, <2>1, LevelOf DEF LevelNames
<1>4. RankOf(c) \in 1..4 /\ Goal!TaskLevels[RankOf(c)] = Goal!classify(c)
  BY <1>3 DEF RankOf
<1> QED BY <1>1, <1>2, <1>4, LevelsDiffer

\* How many steps a goal of each level has.
LEMMA IndexIs ==
    ASSUME NEW c \in Goal!Contexts, NEW n,
           \/ Goal!classify(c) = "T0" /\ n = c.deps + 1
           \/ Goal!classify(c) = "T1" /\ n = c.deps + 2 + Goal!AtMost(c.codim, 3)
           \/ Goal!classify(c) = "T2" /\ n = c.deps + 3 + Goal!AtMost(c.agents, 4)
           \/ Goal!classify(c) = "T3" /\ n = c.deps + 6 + Goal!AtMost(c.agents, 6)
    PROVE  Sound(Goal!decompose(Goal!classify(c), c), n) /\ Goal!Index(c) = n
<1>1. Sound(Goal!decompose(Goal!classify(c), c), n)
  BY T0Built, T1Built, T2Built, T3Built, DecompositionOf
<1>2. Goal!compute_assembly_index(Goal!decompose(Goal!classify(c), c)) = n
  BY <1>1, SoundIsOrdered
<1> QED BY <1>1, <1>2 DEF Goal!Index

\* A decomposition lies within its bounds.
LEMMA SamplesAreFine ==
    Goal!validate_monotonicity(Goal!SampleResults) = {} /\ Goal!validate_bounds(Goal!SampleResults) = {}
<1> DEFINE r == Goal!SampleResults
<1>1. /\ r["T0"] = 2 /\ r["T1"] = 5 /\ r["T2"] = 10 /\ r["T3"] = 15
      /\ DOMAIN r = LevelNames
  BY DEF Goal!SampleResults, LevelNames
<1>2. /\ Goal!AIBounds["T0"] = 1..4 /\ Goal!AIBounds["T1"] = 3..9
      /\ Goal!AIBounds["T2"] = 5..19 /\ Goal!AIBounds["T3"] = 10..999
  BY DEF Goal!AIBounds
<1>3. /\ Goal!TaskLevels[1] = "T0" /\ Goal!TaskLevels[2] = "T1"
      /\ Goal!TaskLevels[3] = "T2" /\ Goal!TaskLevels[4] = "T3"
  BY DEF Goal!TaskLevels
<1> HIDE DEF r
<1>4. ASSUME NEW i \in 1..3 PROVE ~(r[Goal!TaskLevels[i]] > r[Goal!TaskLevels[i + 1]])
  <2>1. i = 1 \/ i = 2 \/ i = 3
    OBVIOUS
  <2> QED BY <2>1, <1>1, <1>3
<1>5. ASSUME NEW l \in DOMAIN r PROVE r[l] \in Goal!AIBounds[l]
  BY <1>1, <1>2 DEF LevelNames
<1>6. Goal!validate_monotonicity(r) = {}
  BY <1>4 DEF Goal!validate_monotonicity
<1>7. Goal!validate_bounds(r) = {}
  BY <1>5 DEF Goal!validate_bounds
<1> QED BY <1>6, <1>7 DEF r

\* The index of a goal grows with its level, for all contexts.
LEMMA IndexAlwaysMonotone ==
    ASSUME NEW c \in Goal!Contexts, NEW d \in Goal!Contexts
    PROVE  Goal!IndexIsMonotone(c, d)
<1> DEFINE Size(x, n) ==
             \/ Goal!classify(x) = "T0" /\ n = x.deps + 1
             \/ Goal!classify(x) = "T1" /\ n = x.deps + 2 + Goal!AtMost(x.codim, 3)
             \/ Goal!classify(x) = "T2" /\ n = x.deps + 3 + Goal!AtMost(x.agents, 4)
             \/ Goal!classify(x) = "T3" /\ n = x.deps + 6 + Goal!AtMost(x.agents, 6)
<1>1. PICK n : Size(c, n)
  BY LevelOf DEF LevelNames
<1>2. PICK m : Size(d, m)
  BY LevelOf DEF LevelNames
<1>3. Sound(Goal!decompose(Goal!classify(c), c), n) /\ Goal!Index(c) = n
  BY <1>1, IndexIs
<1>4. Goal!Index(d) = m
  BY <1>2, IndexIs
<1>5. RankOf(c) < RankOf(d) /\ c.deps = d.deps => n <= m
  <2>1. c.deps \in Nat /\ c.agents \in Nat /\ c.codim \in Nat
        /\ d.deps \in Nat /\ d.agents \in Nat /\ d.codim \in Nat
    BY DEF Goal!Contexts
  <2>2. /\ Goal!classify(c) = "T1" => c.codim >= 2
        /\ Goal!classify(c) \in {"T2", "T3"} => c.agents >= 2
        /\ Goal!classify(d) = "T1" => d.codim >= 2
        /\ Goal!classify(d) \in {"T2", "T3"} => d.agents >= 2
    BY LevelOf
  <2>3. /\ Goal!AtMost(c.codim, 3) = (IF c.codim < 3 THEN c.codim ELSE 3)
        /\ Goal!AtMost(d.codim, 3) = (IF d.codim < 3 THEN d.codim ELSE 3)
        /\ Goal!AtMost(c.agents, 4) = (IF c.agents < 4 THEN c.agents ELSE 4)
        /\ Goal!AtMost(d.agents, 4) = (IF d.agents < 4 THEN d.agents ELSE 4)
        /\ Goal!AtMost(c.agents, 6) = (IF c.agents < 6 THEN c.agents ELSE 6)
        /\ Goal!AtMost(d.agents, 6) = (IF d.agents < 6 THEN d.agents ELSE 6)
    BY DEF Goal!AtMost
  <2>4. /\ Goal!classify(c) = "T0" => RankOf(c) = 1
        /\ Goal!classify(c) = "T1" => RankOf(c) = 2
        /\ Goal!classify(c) = "T2" => RankOf(c) = 3
        /\ Goal!classify(c) = "T3" => RankOf(c) = 4
    BY RankIs
  <2>5. /\ Goal!classify(d) = "T0" => RankOf(d) = 1
        /\ Goal!classify(d) = "T1" => RankOf(d) = 2
        /\ Goal!classify(d) = "T2" => RankOf(d) = 3
        /\ Goal!classify(d) = "T3" => RankOf(d) = 4
    BY RankIs
  <2> QED BY <1>1, <1>2, <2>1, <2>2, <2>3, <2>4, <2>5
<1>6. RankOf(c) <= RankOf(d)
         => Goal!required_checks(Goal!classify(c)) \subseteq Goal!required_checks(Goal!classify(d))
  <2>1. Goal!classify(c) \in LevelNames /\ Goal!classify(d) \in LevelNames
    BY LevelOf
  <2>4. /\ Goal!classify(c) = "T0" => RankOf(c) = 1
        /\ Goal!classify(c) = "T1" => RankOf(c) = 2
        /\ Goal!classify(c) = "T2" => RankOf(c) = 3
        /\ Goal!classify(c) = "T3" => RankOf(c) = 4
    BY RankIs
  <2>5. /\ Goal!classify(d) = "T0" => RankOf(d) = 1
        /\ Goal!classify(d) = "T1" => RankOf(d) = 2
        /\ Goal!classify(d) = "T2" => RankOf(d) = 3
        /\ Goal!classify(d) = "T3" => RankOf(d) = 4
    BY RankIs
  <2>6. \A l \in LevelNames : 0 \in Goal!required_checks(l)
    BY ChecksOf DEF LevelNames
  <2> QED BY <2>1, <2>4, <2>5, ChecksOf DEF LevelNames
<1>7. Goal!_route_to_lane(Goal!classify(c)) = "subagent" => c.agents >= 2
  <2>1. "main" # "subagent"
    OBVIOUS
  <2> QED BY <2>1, LevelOf DEF Goal!_route_to_lane
<1> DEFINE steps == Goal!decompose(Goal!classify(c), c)
<1>8. /\ Len(steps) = Goal!Index(c)
      /\ \A i \in DOMAIN steps : steps[i].inputs \subseteq Usable({steps[j].id : j \in 1..(i - 1)})
  BY <1>3, SoundIsOrdered
<1>9. \A i \in DOMAIN steps :
         LET earlier == {steps[j].id : j \in 1..(i - 1)} IN
         steps[i].inputs \subseteq earlier \union {<<"">>} \union {<<"id of">> \o id : id \in earlier}
  BY <1>8, Zenon DEF Usable
<1>10. RankOf(c) < RankOf(d) /\ c.deps = d.deps => Goal!Index(c) <= Goal!Index(d)
  BY <1>3, <1>4, <1>5
<1> HIDE DEF steps
<1> QED BY <1>6, <1>7, <1>8, <1>9, <1>10, SamplesAreFine, Zenon DEF Goal!IndexIsMonotone, RankOf, steps

-----------------------------------------------------------------------------
(* The redaction of a text. *)

Rule(k) == Text!CanonicalRules[k]

\* The rules are distinct, and listed once each; three are for api keys.
LEMMA RulesAre ==
    /\ DOMAIN Text!CanonicalRules = 1..7 /\ Len(Text!CanonicalRules) = 7
    /\ \A k \in 1..7 : Rule(k) \in Text!Rules
    /\ Text!Clean \notin Text!Rules
    /\ \A r \in Text!Rules : \E k \in 1..7 : r = Rule(k)
    /\ \A j, k \in 1..7 : Rule(j) = Rule(k) => j = k
<1>1. DOMAIN Text!CanonicalRules = 1..7 /\ Len(Text!CanonicalRules) = 7
  BY DEF Text!CanonicalRules
<1>3. Text!Rules = {Rule(k) : k \in 1..7}
  BY <1>1 DEF Text!Rules, Text!ToSet, Rule
<1>4. /\ Rule(1) = "email" /\ Rule(2) = "credit_card" /\ Rule(3) = "openai" /\ Rule(4) = "bearer"
      /\ Rule(5) = "generic" /\ Rule(6) = "ssn" /\ Rule(7) = "phone"
  BY DEF Rule, Text!CanonicalRules
<1>5. \A k \in 1..7 : k = 1 \/ k = 2 \/ k = 3 \/ k = 4 \/ k = 5 \/ k = 6 \/ k = 7
  OBVIOUS
<1>6. \A k \in 1..7 : Rule(k) # Text!Clean
  BY <1>4, <1>5, Zenon DEF Text!Clean
<1>7. \A j, k \in 1..7 : Rule(j) = Rule(k) => j = k
  BY <1>4, <1>5
<1> QED BY <1>1, <1>3, <1>6, <1>7

\* No rule runs before itself or before one that is ahead of it.
LEMMA InOrder ==
    ASSUME NEW j \in 1..7, NEW k \in 1..j
    PROVE  ~Text!Before(Rule(j), Rule(k))
BY RulesAre DEF Text!Before, Rule

\* What a rule replaces.
Hit(v, r) == UNION {m.cells \ m.kept : m \in {l \in v.matches : l.rule = r /\ Text!Shows(v, l)}}

\* A rule replaces its hits, keeps the rule of every other cell, and a text in
\* which it finds nothing.
LEMMA RuleApplied ==
    ASSUME NEW n \in Nat, NEW v \in Text!Texts(n), NEW r \in Text!Rules
    PROVE  LET w == Text!ApplyRule(v, r) IN
           /\ w \in Text!Texts(n) /\ w.matches = v.matches
           /\ \A i \in 1..n : w.cells[i].by = IF i \in Hit(v, r) THEN r ELSE v.cells[i].by
           /\ \A i \in Hit(v, r) : v.cells[i].by = Text!Clean
           /\ ~Text!Found(v, r) => w = v /\ Hit(v, r) = {}
<1> DEFINE hit == UNION {m.cells \ m.kept : m \in {l \in v.matches : l.rule = r /\ Text!Shows(v, l)}}
           Cell(i) == IF i \in hit THEN [by |-> r, brackets |-> 0]
                      ELSE IF r = "generic" /\ i \in Text!Placeholders(v)
                           THEN [by |-> v.cells[i].by, brackets |-> v.cells[i].brackets + 1]
                           ELSE v.cells[i]
           w == Text!ApplyRule(v, r)
<1>1. /\ v.cells \in [1..n -> Text!Cells] /\ DOMAIN v.cells = 1..n
      /\ v.matches \in SUBSET Text!Matches(n) /\ v.injections \in SUBSET Text!Injections
      /\ v = [cells |-> v.cells, matches |-> v.matches, injections |-> v.injections]
  BY DEF Text!Texts
<1>2. w = [v EXCEPT !.cells = [i \in DOMAIN v.cells |-> Cell(i)]]
  BY Zenon DEF Text!ApplyRule
<1>3. \A i \in 1..n : v.cells[i] \in Text!Cells
  BY <1>1
<1>4. \A i \in 1..n : Cell(i) \in Text!Cells
  <2> HIDE DEF hit
  <2> QED BY <1>3 DEF Text!Cells
<1>5. \A i \in 1..n : Cell(i).by = IF i \in hit THEN r ELSE v.cells[i].by
  <2> HIDE DEF hit
  <2> QED OBVIOUS
<1>6. hit = Hit(v, r)
  BY Zenon DEF Hit
<1>7. \A i \in hit : v.cells[i].by = Text!Clean
  BY DEF Text!Shows, Text!Replaced
<1>8. ~Text!Found(v, r) => hit = {} /\ (r = "generic" => Text!Placeholders(v) = {})
  BY DEF Text!Found
<1> HIDE DEF hit, w
<1>9. ~Text!Found(v, r) => \A i \in 1..n : Cell(i) = v.cells[i]
  BY <1>8
<1> HIDE DEF Cell
<1>10. w = [cells |-> [i \in 1..n |-> Cell(i)], matches |-> v.matches, injections |-> v.injections]
  BY <1>1, <1>2
<1>11. [i \in 1..n |-> Cell(i)] \in [1..n -> Text!Cells]
  BY <1>4
<1>12. w \in Text!Texts(n) /\ w.matches = v.matches
  BY <1>1, <1>10, <1>11 DEF Text!Texts
<1>13. \A i \in 1..n : w.cells[i].by = IF i \in hit THEN r ELSE v.cells[i].by
  BY <1>5, <1>10
<1>14. ~Text!Found(v, r) => w = v
  <2> SUFFICES ASSUME ~Text!Found(v, r) PROVE w = v
    OBVIOUS
  <2>1. [i \in 1..n |-> Cell(i)] = v.cells
    BY <1>1, <1>9
  <2> QED BY <1>1, <1>10, <2>1
<1> QED BY <1>6, <1>7, <1>8, <1>12, <1>13, <1>14 DEF w

\* The recursive function that defines what redact returns.
Redactions(iter, text, rules) ==
    iter = [x \in SUBSET (1..Len(rules)) |->
              IF x = {} THEN text ELSE Text!ApplyRule(iter[x \ {Max(x)}], rules[Max(x)])]

\* Redaction is a fold, so the function that defines it exists.
LEMMA RedactionsExist ==
    ASSUME NEW n \in Nat, NEW text \in Text!Texts(n), NEW rules \in Seq(Text!Rules)
    PROVE  \E iter : Redactions(iter, text, rules)
<1> DEFINE V == Text!Texts(n)
           k == Len(rules)
           f == [w \in V \X (1..k) |-> Text!ApplyRule(w[1], rules[w[2]])]
<1>1. k \in Nat /\ \A i \in 1..k : rules[i] \in Text!Rules
  OBVIOUS
<1>2. ASSUME NEW v \in V, NEW i \in 1..k PROVE Text!ApplyRule(v, rules[i]) \in V
  BY <1>1, RuleApplied
<1> HIDE DEF k
<1>3. f \in [V \X (1..k) -> V]
  <2> HIDE DEF V
  <2>1. \A w \in V \X (1..k) : w[1] \in V /\ w[2] \in 1..k
    OBVIOUS
  <2> QED BY <2>1, <1>2
<1>4. \A v \in V, i \in 1..k : f[<<v, i>>] = Text!ApplyRule(v, rules[i])
  <2> HIDE DEF V
  <2> QED OBVIOUS
<1>5. text \in V
  OBVIOUS
<1> HIDE DEF f, V
<1>6. PICK iter : Folds(iter, f, text, k) /\ \A x \in SUBSET (1..k) : iter[x] \in V
  BY <1>1, <1>3, <1>5, FoldsExist, Zenon
<1>7. \A x \in SUBSET (1..k) : x # {} => Max(x) \in 1..k /\ x \ {Max(x)} \in SUBSET (1..k)
  BY <1>1, MaxIsIn, Zenon
<1>8. \A x \in SUBSET (1..k) : x # {} =>
         f[<<iter[x \ {Max(x)}], Max(x)>>] = Text!ApplyRule(iter[x \ {Max(x)}], rules[Max(x)])
  BY <1>4, <1>6, <1>7, Zenon
<1>9. Redactions(iter, text, rules)
  BY <1>6, <1>8, Zenon DEF Folds, Redactions, k
<1> QED BY <1>9

\* The rules are applied one after the other.
LEMMA RedactionRuns ==
    ASSUME NEW n \in Nat, NEW text \in Text!Texts(n), NEW rules \in Seq(Text!Rules)
    PROVE  \E g : /\ g[0] = text
                  /\ \A k \in 1..Len(rules) : g[k] = Text!ApplyRule(g[k - 1], rules[k])
                  /\ Text!redact(text, rules) = g[Len(rules)]
<1> DEFINE it == CHOOSE iter : Redactions(iter, text, rules)
           m == Len(rules)
<1>1. Redactions(it, text, rules)
  BY RedactionsExist
<1>2. m \in Nat /\ DOMAIN rules = 1..m
  OBVIOUS
<1>3. Text!redact(text, rules) = it[1..m]
  BY <1>2 DEF Text!redact, Text!FoldLeft, Text!MapThenFoldSet, Text!Max, Max, Redactions
<1> HIDE DEF it, m
<1> DEFINE g == [i \in 0..m |-> it[1..i]]
<1>4. ASSUME NEW i \in 1..m PROVE it[1..i] = Text!ApplyRule(it[1..(i - 1)], rules[i])
  <2>1. it[1..i] = Text!ApplyRule(it[(1..i) \ {Max(1..i)}], rules[Max(1..i)])
    <3>1. 1..i \in SUBSET (1..m) /\ 1..i # {}
      BY <1>2, SMTT(30), UpTo
    <3> QED BY <1>1, <3>1, Zenon DEF Redactions, m
  <2>2. Max(1..i) = i /\ (1..i) \ {i} = 1..(i - 1)
    BY <1>2, UpTo
  <2> QED BY <2>1, <2>2, Zenon
<1>5. it[1..0] = text
  BY <1>1, 1..0 = {} DEF Redactions
<1>6. g[0] = text /\ \A i \in 1..m : g[i] = Text!ApplyRule(g[i - 1], rules[i])
  BY <1>2, <1>4, <1>5
<1>7. g[m] = it[1..m]
  BY <1>2
<1> HIDE DEF g
<1> QED BY <1>3, <1>6, <1>7 DEF m

\* The texts that the first k rules leave.
Stages(S, text) ==
    S[0] = text /\ \A k \in 1..7 : S[k] = Text!ApplyRule(S[k - 1], Rule(k))

\* One rule more.
Advances(S, n, k) ==
    /\ S[k] \in Text!Texts(n) /\ S[k].matches = S[k - 1].matches
    /\ \A i \in 1..n :
          S[k].cells[i].by = IF i \in Hit(S[k - 1], Rule(k)) THEN Rule(k) ELSE S[k - 1].cells[i].by
    /\ \A i \in Hit(S[k - 1], Rule(k)) : S[k - 1].cells[i].by = Text!Clean
    /\ ~Text!Found(S[k - 1], Rule(k)) => S[k] = S[k - 1] /\ Hit(S[k - 1], Rule(k)) = {}

LEMMA NextStage ==
    ASSUME NEW n \in Nat, NEW text, NEW S, Stages(S, text), NEW k \in 1..7, S[k - 1] \in Text!Texts(n)
    PROVE  Advances(S, n, k)
<1> DEFINE v == S[k - 1]
           r == Rule(k)
           w == Text!ApplyRule(v, r)
<1>1. v \in Text!Texts(n) /\ r \in Text!Rules
  BY RulesAre
<1>2. S[k] = w
  BY DEF Stages
<1> HIDE DEF v, r
<1>3. /\ w \in Text!Texts(n) /\ w.matches = v.matches
      /\ \A i \in 1..n : w.cells[i].by = IF i \in Hit(v, r) THEN r ELSE v.cells[i].by
      /\ \A i \in Hit(v, r) : v.cells[i].by = Text!Clean
      /\ ~Text!Found(v, r) => w = v /\ Hit(v, r) = {}
  BY <1>1, RuleApplied, Zenon
<1> HIDE DEF w
<1> QED BY <1>2, <1>3, Zenon DEF Advances, v, r

\* What redact returns is the last of them, and the others are what it returns
\* for the first rules alone.
LEMMA StagesExist ==
    ASSUME NEW n \in Nat, NEW text \in Text!Texts(n)
    PROVE  \E S : /\ Stages(S, text) /\ S[7] = Text!redact(text, Text!CanonicalRules)
                  /\ \A k \in 1..7 : S[k - 1] = Text!redact(text, SubSeq(Text!CanonicalRules, 1, k - 1))
<1> DEFINE rules == Text!CanonicalRules
           upto(k) == SubSeq(rules, 1, k)
<1>0. rules \in Seq(Text!Rules)
  BY DEF Text!Rules, Text!ToSet, Text!CanonicalRules
<1>1. Len(rules) = 7
  BY RulesAre
<1> HIDE DEF rules
<1>2. PICK S : Stages(S, text) /\ S[7] = Text!redact(text, rules)
  BY <1>0, <1>1, RedactionRuns DEF Stages, Rule, rules
<1>3. ASSUME NEW k \in 0..7 PROVE S[k] = Text!redact(text, upto(k))
  <2>1. /\ upto(k) \in Seq(Text!Rules) /\ Len(upto(k)) = k
        /\ \A i \in 1..k : upto(k)[i] = rules[i]
    <3>1. \A i \in 1..7 : rules[i] \in Text!Rules
      BY RulesAre DEF Rule, rules
    <3>2. upto(k) \in Seq(Text!Rules) /\ Len(upto(k)) = k /\ \A i \in 1..k : upto(k)[i] = rules[i]
      <4> DEFINE R == Text!Rules
      <4> HIDE DEF R
      <4>1. 1 \in Int /\ k \in Int /\ \A i \in 1..k : rules[i] \in R
        BY <3>1 DEF R
      <4>2. /\ upto(k) \in Seq(R) /\ Len(upto(k)) = IF 1 <= k THEN k - 1 + 1 ELSE 0
            /\ \A i \in 1..(k - 1 + 1) : upto(k)[i] = rules[1 + i - 1]
        BY <4>1, SubSeqProperties
      <4> HIDE DEF upto
      <4> QED BY <4>2 DEF R
    <3> QED BY <3>2
  <2> HIDE DEF upto
  <2>2. PICK g : /\ g[0] = text
                 /\ \A i \in 1..k : g[i] = Text!ApplyRule(g[i - 1], upto(k)[i])
                 /\ Text!redact(text, upto(k)) = g[k]
    BY <2>1, RedactionRuns
  <2> DEFINE Q(i) == i <= k => g[i] = S[i]
  <2>3. Q(0)
    BY <1>2, <2>2 DEF Stages
  <2>4. ASSUME NEW i \in 1..7, Q(i - 1) PROVE Q(i)
    <3> SUFFICES ASSUME i <= k PROVE g[i] = S[i]
      OBVIOUS
    <3>1. i \in 1..k /\ g[i - 1] = S[i - 1]
      BY <2>4
    <3>2. g[i] = Text!ApplyRule(g[i - 1], rules[i])
      BY <2>1, <2>2, <3>1
    <3>3. S[i] = Text!ApplyRule(S[i - 1], rules[i])
      BY <1>2 DEF Stages, Rule, rules
    <3> QED BY <3>1, <3>2, <3>3
  <2> HIDE DEF Q
  <2>5. Q(1) /\ Q(2) /\ Q(3) /\ Q(4) /\ Q(5) /\ Q(6) /\ Q(7)
    <3>1. Q(1)
      BY <2>3, <2>4, 1 - 1 = 0
    <3>2. Q(2)
      BY <3>1, <2>4, 2 - 1 = 1
    <3>3. Q(3)
      BY <3>2, <2>4, 3 - 1 = 2
    <3>4. Q(4)
      BY <3>3, <2>4, 4 - 1 = 3
    <3>5. Q(5)
      BY <3>4, <2>4, 5 - 1 = 4
    <3>6. Q(6)
      BY <3>5, <2>4, 6 - 1 = 5
    <3>7. Q(7)
      BY <3>6, <2>4, 7 - 1 = 6
    <3> QED BY <3>1, <3>2, <3>3, <3>4, <3>5, <3>6, <3>7
  <2>6. Q(k)
    BY <2>3, <2>5
  <2> QED BY <2>2, <2>6 DEF Q
<1>4. \A k \in 1..7 : k - 1 \in 0..7
  OBVIOUS
<1> QED BY <1>2, <1>3, <1>4 DEF rules

\* The stages are texts with the same matches; a rule that finds nothing leaves
\* its stage alone, and if none does, or none finds anything at first, all do.
LEMMA StagesKeep ==
    ASSUME NEW n \in Nat, NEW text \in Text!Texts(n), NEW S, Stages(S, text)
    PROVE  /\ \A k \in 0..7 : S[k] \in Text!Texts(n) /\ S[k].matches = text.matches
           /\ (\A k \in 1..7 : ~Text!Found(S[k - 1], Rule(k)))
                 <=> (\A k \in 1..7 : ~Text!Found(text, Rule(k)))
           /\ (\A k \in 1..7 : ~Text!Found(text, Rule(k))) => S[7] = text
<1> DEFINE P(k) == S[k] \in Text!Texts(n) /\ S[k].matches = text.matches
           Still(k) == \A i \in 0..k : S[i] = text
           quiet == \A k \in 1..7 : ~Text!Found(text, Rule(k))
           hushed == \A k \in 1..7 : ~Text!Found(S[k - 1], Rule(k))
<1>1. P(0) /\ Still(0)
  BY DEF Stages
<1>2. ASSUME NEW k \in 1..7, P(k - 1) PROVE P(k)
  BY <1>2, NextStage DEF Advances
<1>3. ASSUME NEW k \in 1..7, P(k - 1), Still(k - 1), quiet \/ hushed PROVE Still(k)
  <2>1. S[k - 1] = text /\ ~Text!Found(S[k - 1], Rule(k))
    BY <1>3
  <2>2. S[k] = S[k - 1]
    BY <1>3, <2>1, NextStage DEF Advances
  <2>3. \A i \in 0..k : i \in 0..(k - 1) \/ i = k
    OBVIOUS
  <2> QED BY <1>3, <2>1, <2>2, <2>3
<1> DEFINE U(k) == P(k) /\ (quiet \/ hushed => Still(k))
<1>4. U(0)
  BY <1>1
<1>5. ASSUME NEW k \in 1..7, U(k - 1) PROVE U(k)
  BY <1>2, <1>3, <1>5, Zenon
<1> HIDE DEF U
<1>6. U(1)
  BY <1>4, <1>5, 1 - 1 = 0
<1>7. U(2)
  BY <1>6, <1>5, 2 - 1 = 1
<1>8. U(3)
  BY <1>7, <1>5, 3 - 1 = 2
<1>9. U(4)
  BY <1>8, <1>5, 4 - 1 = 3
<1>10. U(5)
  BY <1>9, <1>5, 5 - 1 = 4
<1>11. U(6)
  BY <1>10, <1>5, 6 - 1 = 5
<1>12. U(7)
  BY <1>11, <1>5, 7 - 1 = 6
<1>13. \A k \in 0..7 : P(k)
  <2>1. \A k \in 0..7 : U(k)
    BY <1>4, <1>6, <1>7, <1>8, <1>9, <1>10, <1>11, <1>12
  <2> QED BY <2>1 DEF U
<1>14. quiet \/ hushed => \A i \in 0..7 : S[i] = text
  BY <1>12 DEF U
<1>15. \A k \in 1..7 : k - 1 \in 0..7
  OBVIOUS
<1>16. quiet <=> hushed
  BY <1>14, <1>15
<1> QED BY <1>13, <1>14, <1>16

\* The fate of a cell: what it is at a stage it stays, unless it is clean and one
\* of the later rules hits it.
Fated(S, n, k) ==
    \A i \in 1..n :
       \/ S[k].cells[i].by = S[7].cells[i].by
       \/ /\ S[k].cells[i].by = Text!Clean
          /\ \E j \in (k + 1)..7 : S[7].cells[i].by = Rule(j) /\ i \in Hit(S[j - 1], Rule(j))

LEMMA CellsAreFated ==
    ASSUME NEW n \in Nat, NEW text \in Text!Texts(n), NEW S, Stages(S, text)
    PROVE  \A k \in 0..7 : Fated(S, n, k)
<1>1. Fated(S, n, 7)
  BY DEF Fated
<1>2. ASSUME NEW k \in 1..7, Fated(S, n, k) PROVE Fated(S, n, k - 1)
  <2> SUFFICES ASSUME NEW i \in 1..n
               PROVE  \/ S[k - 1].cells[i].by = S[7].cells[i].by
                      \/ /\ S[k - 1].cells[i].by = Text!Clean
                         /\ \E j \in ((k - 1) + 1)..7 :
                               S[7].cells[i].by = Rule(j) /\ i \in Hit(S[j - 1], Rule(j))
    BY DEF Fated
  <2>1. S[k - 1] \in Text!Texts(n) /\ Rule(k) \in Text!Rules /\ Rule(k) # Text!Clean
    BY StagesKeep, RulesAre
  <2>2. /\ S[k].cells[i].by = IF i \in Hit(S[k - 1], Rule(k)) THEN Rule(k) ELSE S[k - 1].cells[i].by
        /\ i \in Hit(S[k - 1], Rule(k)) => S[k - 1].cells[i].by = Text!Clean
    <3>1. Advances(S, n, k)
      BY <2>1, NextStage
    <3> QED BY <3>1, Zenon DEF Advances
  <2>3. \A j \in (k + 1)..7 : j \in ((k - 1) + 1)..7
    OBVIOUS
  <2>4. k \in ((k - 1) + 1)..7
    OBVIOUS
  <2>5. \/ S[k].cells[i].by = S[7].cells[i].by
        \/ /\ S[k].cells[i].by = Text!Clean
           /\ \E j \in (k + 1)..7 : S[7].cells[i].by = Rule(j) /\ i \in Hit(S[j - 1], Rule(j))
    BY <1>2 DEF Fated
  <2> QED BY <2>1, <2>2, <2>3, <2>4, <2>5, Zenon
<1>3. Fated(S, n, 6)
  BY <1>1, <1>2, 7 - 1 = 6
<1>4. Fated(S, n, 5)
  BY <1>3, <1>2, 6 - 1 = 5
<1>5. Fated(S, n, 4)
  BY <1>4, <1>2, 5 - 1 = 4
<1>6. Fated(S, n, 3)
  BY <1>5, <1>2, 4 - 1 = 3
<1>7. Fated(S, n, 2)
  BY <1>6, <1>2, 3 - 1 = 2
<1>8. Fated(S, n, 1)
  BY <1>7, <1>2, 2 - 1 = 1
<1>9. Fated(S, n, 0)
  BY <1>8, <1>2, 1 - 1 = 0
<1> QED BY <1>1, <1>3, <1>4, <1>5, <1>6, <1>7, <1>8, <1>9

\* What the scanner gives back.
LEMMA ScanGives ==
    ASSUME NEW payload, NEW config, NEW fails \in BOOLEAN, config.failOpen \in BOOLEAN
    PROVE  Text!scan(payload, config, fails).payload =
             IF fails THEN IF config.failOpen THEN payload ELSE Text!NoText
             ELSE IF config.redact THEN Text!redact(payload, Text!CanonicalRules) ELSE payload
<1> DEFINE reported == {f \in Text!Findings(payload) :
                          /\ config.enabled = {} \/ f \in config.enabled
                          /\ Text!Confidence(f) >= config.min}
           back == IF config.redact THEN Text!redact(payload, Text!CanonicalRules) ELSE payload
<1>1. CASE fails /\ config.failOpen
  <2>1. Text!scan(payload, config, fails) = [findings |-> {}, payload |-> payload]
    BY <1>1, Zenon DEF Text!scan
  <2>2. Text!scan(payload, config, fails).payload = payload
    BY <2>1
  <2> HIDE DEF reported, back
  <2> QED BY <1>1, <2>2, Zenon
<1>2. CASE fails /\ ~config.failOpen
  <2>1. Text!scan(payload, config, fails) = [findings |-> {"ScannerError"}, payload |-> Text!NoText]
    BY <1>2, Zenon DEF Text!scan
  <2>2. Text!scan(payload, config, fails).payload = Text!NoText
    BY <2>1
  <2> HIDE DEF reported, back
  <2> QED BY <1>2, <2>2, Zenon
<1>3. CASE ~fails
  <2>1. Text!scan(payload, config, fails) = [findings |-> reported, payload |-> back]
    BY <1>3, Zenon DEF Text!scan
  <2> HIDE DEF reported, back
  <2>2. Text!scan(payload, config, fails).payload = back
    BY <2>1
  <2> QED BY <1>3, <2>2 DEF back
<1> QED BY <1>1, <1>2, <1>3

\* Nothing that matched from the start is left of a text, whatever its matches are.
LEMMA NothingIsLeft ==
    ASSUME NEW n \in Nat, NEW text \in Text!Texts(n),
           \A i \in 1..n : text.cells[i].by = Text!Clean
    PROVE  LET done == Text!redact(text, Text!CanonicalRules)
               named == Text!RulesApplied(text, Text!CanonicalRules) IN
           /\ \A m \in text.matches : Text!Shows(done, m) =>
                 \E i \in m.behind : ~Text!Before(done.cells[i].by, m.rule)
           /\ \A i \in 1..n : Text!Replaced(done, i) =>
                 \E m \in text.matches :
                    /\ m.rule = done.cells[i].by /\ i \in m.cells \ m.kept
                    /\ \A j \in m.cells : Text!Replaced(done, j) => ~Text!Before(done.cells[j].by, m.rule)
           /\ done \in Text!Texts(n) /\ done.matches = text.matches
           /\ named = {} <=> ~Text!detect_pii(text, Text!CanonicalRules)
           /\ "api_key" \notin named => Text!Placeholders(done) = {}
<1> DEFINE rules == Text!CanonicalRules
           done == Text!redact(text, rules)
           named == Text!RulesApplied(text, rules)
<1>1. PICK S : /\ Stages(S, text) /\ S[7] = done
               /\ \A k \in 1..7 : S[k - 1] = Text!redact(text, SubSeq(rules, 1, k - 1))
  BY StagesExist
<1>2. DOMAIN rules = 1..7 /\ \A k \in 1..7 : rules[k] = Rule(k)
  BY RulesAre DEF Rule
<1>3. named = {Text!NameOf(Rule(k)) : k \in {j \in 1..7 : Text!Found(S[j - 1], Rule(j))}}
  BY <1>1, <1>2 DEF Text!RulesApplied
<1>4. Text!detect_pii(text, rules) <=> \E k \in 1..7 : Text!Found(text, Rule(k))
  BY <1>2 DEF Text!detect_pii
<1> HIDE DEF rules, done, named
<1>5. /\ \A k \in 0..7 : S[k] \in Text!Texts(n) /\ S[k].matches = text.matches
      /\ (\A k \in 1..7 : ~Text!Found(S[k - 1], Rule(k))) <=> (\A k \in 1..7 : ~Text!Found(text, Rule(k)))
  BY <1>1, StagesKeep
<1>6. \A k \in 0..7 : Fated(S, n, k)
  BY <1>1, CellsAreFated
<1>7. \A m \in text.matches : /\ m.cells \in SUBSET (1..n) /\ m.behind \in SUBSET (1..n)
                              /\ m.rule \in Text!Rules /\ m.cells \ m.kept # {}
  BY DEF Text!Texts, Text!Matches
<1>8. \A k \in 1..7 : k - 1 \in 0..7
  OBVIOUS
<1>9. ASSUME NEW i \in 1..n, Text!Replaced(done, i)
      PROVE  \E j \in 1..7 : done.cells[i].by = Rule(j) /\ i \in Hit(S[j - 1], Rule(j))
  <2>1. S[0].cells[i].by = Text!Clean
    BY <1>1 DEF Stages
  <2>2. S[0].cells[i].by # done.cells[i].by
    BY <1>9, <2>1 DEF Text!Replaced
  <2> QED BY <1>1, <1>6, <2>2, 0 + 1 = 1 DEF Fated
<1>10. ASSUME NEW i \in 1..n, NEW k \in 1..7, ~Text!Replaced(S[k - 1], i), Text!Replaced(done, i)
       PROVE  ~Text!Before(done.cells[i].by, Rule(k))
  <2>1. S[k - 1].cells[i].by # done.cells[i].by
    BY <1>10 DEF Text!Replaced
  <2>2. PICK j \in ((k - 1) + 1)..7 : done.cells[i].by = Rule(j)
    BY <1>1, <1>6, <1>8, <2>1 DEF Fated
  <2>3. j \in 1..7 /\ k \in 1..j
    BY <2>2
  <2> QED BY <2>2, <2>3, InOrder
<1>11. ASSUME NEW m \in text.matches, Text!Shows(done, m)
       PROVE  \E i \in m.behind : ~Text!Before(done.cells[i].by, m.rule)
  <2>1. PICK k \in 1..7 : m.rule = Rule(k)
    BY <1>7, RulesAre
  <2>2. \A i \in m.cells : ~Text!Replaced(S[k - 1], i)
    <3>1. \A i \in m.cells : i \in 1..n /\ done.cells[i].by = Text!Clean
      BY <1>7, <1>11 DEF Text!Shows, Text!Replaced
    <3>2. Fated(S, n, k - 1)
      BY <1>6, <1>8
    <3> QED BY <1>1, <3>1, <3>2 DEF Fated, Text!Replaced
  <2>3. ~Text!Shows(S[k - 1], m)
    <3> SUFFICES ASSUME Text!Shows(S[k - 1], m) PROVE FALSE
      OBVIOUS
    <3>1. PICK i \in m.cells \ m.kept : TRUE
      BY <1>7
    <3>2. i \in Hit(S[k - 1], Rule(k)) /\ i \in 1..n
      BY <1>5, <1>7, <1>8, <2>1, <3>1 DEF Hit
    <3>3. S[k].cells[i].by = Rule(k) /\ Rule(k) # Text!Clean
      BY <1>1, <1>5, <1>8, <3>2, NextStage, RulesAre DEF Advances
    <3>4. done.cells[i].by = Rule(k)
      BY <1>1, <1>6, <3>2, <3>3 DEF Fated
    <3> QED BY <1>11, <3>1, <3>3, <3>4 DEF Text!Shows, Text!Replaced
  <2>4. PICK i \in m.behind : ~Text!Replaced(S[k - 1], i)
    BY <2>2, <2>3 DEF Text!Shows
  <2>5. i \in 1..n /\ Text!Replaced(done, i)
    BY <1>7, <1>11 DEF Text!Shows
  <2>6. ~Text!Before(done.cells[i].by, m.rule)
    BY <1>10, <2>1, <2>4, <2>5
  <2> QED BY <2>6
<1>12. ASSUME NEW i \in 1..n, Text!Replaced(done, i)
       PROVE  \E m \in text.matches :
                 /\ m.rule = done.cells[i].by /\ i \in m.cells \ m.kept
                 /\ \A j \in m.cells : Text!Replaced(done, j) => ~Text!Before(done.cells[j].by, m.rule)
  <2>1. PICK k \in 1..7 : done.cells[i].by = Rule(k) /\ i \in Hit(S[k - 1], Rule(k))
    BY <1>9, <1>12
  <2>2. PICK m \in text.matches : m.rule = Rule(k) /\ Text!Shows(S[k - 1], m) /\ i \in m.cells \ m.kept
    BY <1>5, <1>8, <2>1 DEF Hit
  <2>3. \A j \in m.cells : j \in 1..n /\ ~Text!Replaced(S[k - 1], j)
    BY <1>7, <2>2 DEF Text!Shows
  <2>4. \A j \in m.cells : Text!Replaced(done, j) => ~Text!Before(done.cells[j].by, m.rule)
    BY <1>10, <2>2, <2>3
  <2> QED BY <2>1, <2>2, <2>4
<1>13. done \in Text!Texts(n) /\ done.matches = text.matches
  BY <1>1, <1>5
<1>14. named = {} <=> ~Text!detect_pii(text, rules)
  BY <1>3, <1>4, <1>5
<1>15. "api_key" \notin named => Text!Placeholders(done) = {}
  <2> SUFFICES ASSUME NEW i \in 1..n, done.cells[i].by \in Text!ApiKeys
               PROVE  "api_key" \in named
    BY <1>13 DEF Text!Placeholders, Text!Texts
  <2>1. Text!Replaced(done, i)
    BY DEF Text!Replaced, Text!ApiKeys, Text!Clean
  <2>2. PICK k \in 1..7 : done.cells[i].by = Rule(k) /\ i \in Hit(S[k - 1], Rule(k))
    BY <1>9, <2>1
  <2>3. Text!Found(S[k - 1], Rule(k))
    BY <2>2 DEF Hit, Text!Found
  <2>4. Text!NameOf(Rule(k)) = "api_key"
    BY <2>2 DEF Text!NameOf
  <2> QED BY <1>3, <2>3, <2>4
<1> QED BY <1>11, <1>12, <1>13, <1>14, <1>15 DEF done, named, rules

\* Redaction is complete for every text, however its matches overlap.
LEMMA RedactionAlwaysComplete ==
    ASSUME NEW text, Text!IsText(text), NEW config, config.redact \in BOOLEAN,
           config.failOpen \in BOOLEAN, NEW fails \in BOOLEAN
    PROVE  Text!RedactionIsComplete(text, config, fails)
<1> DEFINE n == Len(text.cells)
           rules == Text!CanonicalRules
           done == Text!redact(text, rules)
           named == Text!RulesApplied(text, rules)
           san == Text!sanitize_input(text)
           trip == Text!guard_roundtrip(text, text, rules, fails)
<1>0. /\ n \in Nat /\ text \in Text!Texts(n) /\ DOMAIN text.cells = 1..n
      /\ \A i \in 1..n : text.cells[i].by = Text!Clean
  <2>1. text \in Text!Texts(n) /\ text.cells \in Seq({[by |-> Text!Clean, brackets |-> 0]})
    BY DEF Text!IsText
  <2>2. \A i \in 1..n : text.cells[i] = [by |-> Text!Clean, brackets |-> 0]
    BY <2>1
  <2> QED BY <2>1, <2>2
<1> HIDE DEF n
<1>1. /\ \A m \in text.matches : Text!Shows(done, m) =>
            \E i \in m.behind : ~Text!Before(done.cells[i].by, m.rule)
      /\ \A i \in 1..n : Text!Replaced(done, i) =>
            \E m \in text.matches :
               /\ m.rule = done.cells[i].by /\ i \in m.cells \ m.kept
               /\ \A j \in m.cells : Text!Replaced(done, j) => ~Text!Before(done.cells[j].by, m.rule)
      /\ done \in Text!Texts(n) /\ done.matches = text.matches
      /\ named = {} <=> ~Text!detect_pii(text, rules)
      /\ "api_key" \notin named => Text!Placeholders(done) = {}
  BY <1>0, NothingIsLeft, Zenon
<1>2. DOMAIN rules = 1..7 /\ \A k \in 1..7 : rules[k] = Rule(k)
  BY RulesAre DEF Rule
<1> HIDE DEF rules, done, named
<1>3. ASSUME "api_key" \notin named, \A m \in text.matches : m.behind = {}
      PROVE  ~Text!detect_pii(done, rules) /\ Text!redact(done, rules) = done
  <2>1. \A k \in 1..7 : ~Text!Found(done, Rule(k))
    <3>1. \A m \in done.matches : ~Text!Shows(done, m)
      BY <1>1, <1>3
    <3> QED BY <1>1, <1>3, <3>1 DEF Text!Found
  <2>2. ~Text!detect_pii(done, rules)
    BY <1>2, <2>1 DEF Text!detect_pii
  <2>3. PICK S : Stages(S, done) /\ S[7] = Text!redact(done, rules)
    BY <1>0, <1>1, StagesExist DEF rules
  <2>4. S[7] = done
    BY <1>0, <1>1, <2>1, <2>3, StagesKeep
  <2> QED BY <2>2, <2>3, <2>4
<1>4. ~Text!Leaks(done) /\ ~Text!Leaks(Text!NoText)
  <2>1. ~Text!Leaks(done)
    BY <1>1 DEF Text!Leaks
  <2>2. ~Text!Leaks(Text!NoText)
    BY DEF Text!Leaks, Text!NoText
  <2> QED BY <2>1, <2>2
<1>5. Text!Leaks(Text!scan(text, config, fails).payload) => ~config.redact \/ fails
  <2> SUFFICES ASSUME config.redact, ~fails
               PROVE  ~Text!Leaks(Text!scan(text, config, fails).payload)
    OBVIOUS
  <2>1. Text!scan(text, config, fails).payload = done
    BY ScanGives DEF done, rules
  <2> QED BY <1>4, <2>1
<1>6. Text!detect_injections(san) = {} <=> text.injections = {}
  <2>1. san.injections = {[kind |-> j.kind, nul |-> FALSE] : j \in text.injections}
    BY <1>0 DEF Text!sanitize_input, Text!Texts
  <2> HIDE DEF san
  <2>2. \A i \in san.injections : ~i.nul
    BY <2>1
  <2>3. Text!detect_injections(san) = {i.kind : i \in san.injections}
    BY <2>2 DEF Text!detect_injections
  <2> QED BY <2>1, <2>3
<1> DEFINE first == [passed |-> Text!detect_injections(san) = {}, input |-> san, output |-> Text!NoText]
           second == IF fails THEN [passed |-> FALSE, input |-> text, output |-> Text!NoText]
                     ELSE [passed |-> TRUE, input |-> text, output |-> done]
<1>7. trip = IF ~first.passed THEN first ELSE [second EXCEPT !.input = first.input]
  BY DEF Text!guard_roundtrip, Text!guard_input, Text!guard_output, done
<1>8. first.passed <=> text.injections = {}
  BY <1>6, Zenon
<1>9. first.output = Text!NoText /\ second.output = (IF fails THEN Text!NoText ELSE done)
  OBVIOUS
<1>10. second.passed <=> ~fails
  OBVIOUS
<1>11. DOMAIN second = {"passed", "input", "output"}
  OBVIOUS
<1> HIDE DEF first, second, trip, san
<1>12. trip.output = IF ~first.passed THEN Text!NoText ELSE second.output
  BY <1>7, <1>9, <1>11
<1>13. trip.passed => first.passed /\ ~fails
  BY <1>7, <1>10, <1>11
<1>14. trip.passed => text.injections = {} /\ trip.output = done
  BY <1>8, <1>9, <1>12, <1>13
<1>15. ~Text!Leaks(trip.output)
  BY <1>4, <1>9, <1>12
<1> QED
  BY <1>0, <1>1, <1>3, <1>5, <1>14, <1>15 DEF Text!RedactionIsComplete, done, named, trip, rules

-----------------------------------------------------------------------------
(* The audit and the gates. *)

\* The checks of an audit by their numbers.
LEMMA AuditIs ==
    ASSUME NEW r
    PROVE  /\ Gate!run_audit(r)[1] = Gate!_check_c001_component_count(r)
           /\ Gate!run_audit(r)[2] = Gate!_check_c002_connection_count(r)
           /\ Gate!run_audit(r)[3] = Gate!_check_c003_task_count(r)
           /\ Gate!run_audit(r)[4] = Gate!_check_c004_critical_path_count(r)
           /\ Gate!run_audit(r)[5] = Gate!_check_c005_done_task_count(r)
           /\ Gate!run_audit(r)[7] = Gate!_check_c007_version_refs(r)
           /\ Gate!run_audit(r)[8] = Gate!_check_c008_sil_count(r)
           /\ Gate!run_audit(r)[9] = Gate!_check_c009_ruff_lint(r)
           /\ Gate!run_audit(r)[10] = Gate!_check_c010_pytest_pass(r)
           /\ Gate!run_audit(r)[12] = Gate!_check_c012_genealogy_component_count(r)
BY DEF Gate!run_audit

\* A tool that ends with another code than zero fails its check.
LEMMA ToolFails ==
    /\ Gate!ToolVerdict("nonzero") = "FAIL"
<1>1. "zero" # "nonzero"
  OBVIOUS
<1> QED BY <1>1, Zenon DEF Gate!ToolVerdict

\* A statement that differs from its source keeps its check from passing.
LEMMA DifferenceIsSeen ==
    ASSUME NEW r, NEW st \in Gate!Statements(r), Gate!Found(st[2]), Gate!Found(st[3]), st[2] # st[3]
    PROVE  Gate!run_audit(r)[st[1]] # "PASS"
<1> USE DEF Gate!Found, Gate!Verdict, Gate!Guarded
<1>1. CASE r.genealogy.present /\ st \in
           {<<1, r.genealogy.mermaid, r.components>>, <<1, r.genealogy.narrative, r.components>>}
  BY <1>1, AuditIs DEF Gate!_check_c001_component_count
<1>2. CASE r.genealogy.present /\ st = <<2, r.genealogy.edges, r.connections>>
  BY <1>2, AuditIs DEF Gate!_check_c002_connection_count
<1>3. CASE r.genealogy.present /\ st = <<8, r.genealogy.sil, r.sil.count>>
  BY <1>3, AuditIs DEF Gate!_check_c008_sil_count
<1>4. CASE r.genealogy.present /\ st = <<12, r.genealogy.sad, r.archText.components>>
  BY <1>4, AuditIs, Zenon DEF Gate!_check_c012_genealogy_component_count
<1>5. CASE /\ r.genealogy.present
           /\ st = <<7, r.genealogy.version, IF r.archText.present THEN r.archText.version ELSE 0>>
  BY <1>5, AuditIs DEF Gate!_check_c007_version_refs
<1>6. CASE r.readme.present /\ st = <<3, r.readme.tasks, r.manifest.tasks>>
  BY <1>6, AuditIs DEF Gate!_check_c003_task_count
<1>7. CASE r.readme.present /\ st = <<4, r.readme.critical, r.manifest.critical>>
  BY <1>7, AuditIs DEF Gate!_check_c004_critical_path_count
<1>8. CASE r.readme.present /\ st = <<5, r.readme.done, r.status.done>>
  BY <1>8, AuditIs, Zenon DEF Gate!_check_c005_done_task_count
<1>9. CASE /\ r.readme.present
           /\ st = <<7, r.readme.version, IF r.archText.present THEN r.archText.version ELSE 0>>
  BY <1>9, AuditIs DEF Gate!_check_c007_version_refs
<1>10. CASE r.progress.present /\ st = <<5, r.progress.done, r.status.done>>
  BY <1>10, AuditIs, Zenon DEF Gate!_check_c005_done_task_count
<1> QED
  BY <1>1, <1>2, <1>3, <1>4, <1>5, <1>6, <1>7, <1>8, <1>9, <1>10 DEF Gate!Statements

\* What loads and is there but does not agree fails the first three checks.
LEMMA DifferenceFails ==
    ASSUME NEW r, r.arch = "ok", r.manifestLoad = "ok",
           NEW st \in Gate!Statements(r), st[1] \in {1, 2, 3}, st[1] = 3 => r.manifest.present,
           Gate!Found(st[2]), Gate!Found(st[3]), st[2] # st[3]
    PROVE  Gate!run_audit(r)[st[1]] = "FAIL"
<1> USE DEF Gate!Found, Gate!Verdict, Gate!Guarded
<1>1. CASE r.genealogy.present /\ st \in
           {<<1, r.genealogy.mermaid, r.components>>, <<1, r.genealogy.narrative, r.components>>}
  BY <1>1, AuditIs DEF Gate!_check_c001_component_count
<1>2. CASE r.genealogy.present /\ st = <<2, r.genealogy.edges, r.connections>>
  BY <1>2, AuditIs DEF Gate!_check_c002_connection_count
<1>3. CASE r.readme.present /\ st = <<3, r.readme.tasks, r.manifest.tasks>>
  BY <1>3, AuditIs DEF Gate!_check_c003_task_count
<1> QED BY <1>1, <1>2, <1>3 DEF Gate!Statements

\* The audit is honest about every repository.
LEMMA AuditAlwaysHonest ==
    ASSUME NEW r
    PROVE  Gate!AuditIsHonest(r)
<1>1. ASSUME Gate!ExitCode(r) = 0 PROVE \A i \in 1..12 : Gate!run_audit(r)[i] # "FAIL"
  BY <1>1 DEF Gate!ExitCode
<1>2. ASSUME Gate!ExitCode(r) = 0
      PROVE  \A i \in {9, 10} : <<r.ruff, r.pytest>>[i - 8] # "nonzero"
  <2>1. r.ruff # "nonzero"
    BY <1>1, <1>2, AuditIs, ToolFails DEF Gate!_check_c009_ruff_lint
  <2>2. r.pytest # "nonzero"
    BY <1>1, <1>2, AuditIs, ToolFails DEF Gate!_check_c010_pytest_pass
  <2>3. <<r.ruff, r.pytest>>[9 - 8] = r.ruff /\ <<r.ruff, r.pytest>>[10 - 8] = r.pytest
    OBVIOUS
  <2> QED BY <2>1, <2>2, <2>3
<1>3. ASSUME Gate!ExitCode(r) = 0, r.arch = "ok", r.manifestLoad = "ok",
             NEW st \in Gate!Statements(r), st[1] \in {1, 2, 3}, Gate!Found(st[2]), Gate!Found(st[3]),
             st[1] = 3 => r.manifest.present
      PROVE  st[2] = st[3]
  <2>1. st[1] \in 1..12
    BY <1>3
  <2> QED BY <1>1, <1>3, <2>1, DifferenceFails
<1>4. \A st \in Gate!Statements(r) : Gate!Found(st[2]) /\ Gate!Found(st[3]) /\ st[2] # st[3] =>
          Gate!run_audit(r)[st[1]] # "PASS"
  BY DifferenceIsSeen
<1> QED BY <1>2, <1>3, <1>4 DEF Gate!AuditIsHonest

\* When each of the gates opens.
LEMMA SpiralOpens ==
    ASSUME NEW done, NEW tests, NEW audit \in BOOLEAN
    PROVE  Gate!all_pass(Gate!evaluate_gate(done, tests, audit, Gate!CriticalPath))
             <=> audit /\ "3a.8" \in done /\ "3a.10" \in done /\ tests > 0
<1> DEFINE items == Gate!evaluate_gate(done, tests, audit, Gate!CriticalPath)
           S == Gate!GATE_ITEMS_3A
<1>1. DOMAIN items = S
  BY DEF Gate!evaluate_gate
<1>2. /\ "3a.8" \in S /\ "3a.10" \in S /\ "3a.12" \in S
      /\ "3a.8" # "3a.12" /\ "3a.10" # "3a.12"
      /\ "PASS" # "FAIL" /\ "WAIVED" # "FAIL"
  BY DEF Gate!GATE_ITEMS_3A
<1>3. items["3a.12"] = IF audit THEN "PASS" ELSE "FAIL"
  BY <1>2, Zenon DEF Gate!evaluate_gate
<1>4. items["3a.8"] = IF "3a.8" \in done /\ tests > 0 THEN "PASS" ELSE "FAIL"
  BY <1>2, Zenon DEF Gate!evaluate_gate
<1>5. items["3a.10"] = IF "3a.10" \in done /\ tests > 0 THEN "PASS" ELSE "FAIL"
  BY <1>2, Zenon DEF Gate!evaluate_gate
<1>6. ASSUME NEW i \in S, i \notin {"3a.8", "3a.10", "3a.12"} PROVE items[i] # "FAIL"
  <2>1. i # "3a.12" /\ i \notin {"3a.8", "3a.10"} /\ i \notin Gate!CriticalPath
    BY <1>6 DEF Gate!CriticalPath
  <2>2. items[i] = IF i \in done THEN "PASS" ELSE IF i \in Gate!CriticalPath THEN "FAIL" ELSE "WAIVED"
    BY <2>1, Zenon DEF Gate!evaluate_gate
  <2> QED BY <2>1, <2>2
<1> HIDE DEF items, S
<1>7. Gate!all_pass(items) <=> \A i \in S : items[i] # "FAIL"
  BY <1>1 DEF Gate!all_pass
<1>8. (\A i \in S : items[i] # "FAIL")
         <=> items["3a.8"] # "FAIL" /\ items["3a.10"] # "FAIL" /\ items["3a.12"] # "FAIL"
  BY <1>2, <1>6
<1>9. Gate!all_pass(items) <=> audit /\ "3a.8" \in done /\ "3a.10" \in done /\ tests > 0
  BY <1>2, <1>3, <1>4, <1>5, <1>7, <1>8
<1> QED BY <1>9 DEF items

\* When the gate of phase A opens.
LEMMA PhaseAOpens ==
    ASSUME NEW done, NEW tests, NEW audit \in BOOLEAN, NEW gatePass \in BOOLEAN
    PROVE  Gate!all_pass(Gate!evaluate_phase_a_gate(done, tests, audit, gatePass))
             <=> /\ audit /\ gatePass /\ tests > 0
                 /\ \A i \in Gate!GATE_ITEMS_PHASE_A : i # "11.3" => i \in done
<1> DEFINE items == Gate!evaluate_phase_a_gate(done, tests, audit, gatePass)
           S == Gate!GATE_ITEMS_PHASE_A
<1>1. DOMAIN items = S
  BY DEF Gate!evaluate_phase_a_gate
<1>2. /\ "9.2" \in S /\ "10.2" \in S /\ "11.1" \in S /\ "11.3" \in S
      /\ "9.2" # "11.3" /\ "10.2" # "11.3" /\ "11.1" # "11.3" /\ "11.1" # "9.2" /\ "11.1" # "10.2"
      /\ "PASS" # "FAIL"
  BY DEF Gate!GATE_ITEMS_PHASE_A
<1>3. items["11.3"] = IF audit THEN "PASS" ELSE "FAIL"
  BY <1>2, Zenon DEF Gate!evaluate_phase_a_gate
<1>4. items["9.2"] = IF "9.2" \in done /\ tests > 0 THEN "PASS" ELSE "FAIL"
  BY <1>2, Zenon DEF Gate!evaluate_phase_a_gate
<1>5. items["10.2"] = IF "10.2" \in done /\ tests > 0 THEN "PASS" ELSE "FAIL"
  BY <1>2, Zenon DEF Gate!evaluate_phase_a_gate
<1>6. items["11.1"] = IF "11.1" \in done /\ gatePass THEN "PASS" ELSE "FAIL"
  BY <1>2, Zenon DEF Gate!evaluate_phase_a_gate
<1>7. ASSUME NEW i \in S, i \notin {"9.2", "10.2", "11.1", "11.3"}
      PROVE  items[i] = IF i \in done THEN "PASS" ELSE "FAIL"
  <2>1. i # "11.3" /\ i \notin {"9.2", "10.2"} /\ i # "11.1"
    BY <1>7
  <2> QED BY <2>1, Zenon DEF Gate!evaluate_phase_a_gate
<1> HIDE DEF items, S
<1>8. Gate!all_pass(items) <=> \A i \in S : items[i] # "FAIL"
  BY <1>1 DEF Gate!all_pass
<1>9. (\A i \in S : items[i] # "FAIL")
         <=> /\ items["9.2"] # "FAIL" /\ items["10.2"] # "FAIL"
             /\ items["11.1"] # "FAIL" /\ items["11.3"] # "FAIL"
             /\ \A i \in S : i \notin {"9.2", "10.2", "11.1", "11.3"} => i \in done
  BY <1>2, <1>7
<1>10. Gate!all_pass(items) <=> audit /\ gatePass /\ tests > 0 /\ \A i \in S : i # "11.3" => i \in done
  BY <1>2, <1>3, <1>4, <1>5, <1>6, <1>8, <1>9
<1> QED BY <1>10 DEF items, S

\* When the gate of phase B opens.
LEMMA PhaseBOpens ==
    ASSUME NEW done, NEW tests, NEW audit
    PROVE  Gate!all_pass(Gate!evaluate_phase_b_gate(done, tests, audit))
             <=> Gate!GATE_ITEMS_PHASE_B \subseteq done /\ tests > 0
<1> DEFINE S == Gate!GATE_ITEMS_PHASE_B
<1>1. "21.2" \in S
  BY DEF Gate!GATE_ITEMS_PHASE_B
<1> HIDE DEF S
<1>2. Gate!all_pass(Gate!evaluate_phase_b_gate(done, tests, audit))
        <=> \A i \in S : i \in done /\ (i = "21.2" => tests > 0)
  BY DEF Gate!all_pass, Gate!evaluate_phase_b_gate, S
<1>3. (\A i \in S : i \in done /\ (i = "21.2" => tests > 0)) <=> S \subseteq done /\ tests > 0
  BY <1>1
<1> QED BY <1>2, <1>3 DEF S

\* No gate opens on less than what is done, audited and tested.
LEMMA GatesAlwaysEarned ==
    ASSUME NEW repo, NEW done, NEW tests, NEW gatePass \in BOOLEAN, NEW files
    PROVE  Gate!GatesAreEarned(repo, done, tests, gatePass, files)
<1> DEFINE audit == Gate!ExitCode(repo) = 0
           Spiral(d) == Gate!all_pass(Gate!evaluate_gate(d, tests, audit, Gate!CriticalPath))
           A(d) == Gate!all_pass(Gate!evaluate_phase_a_gate(d, tests, audit, gatePass))
           B(d) == Gate!all_pass(Gate!evaluate_phase_b_gate(d, tests, audit))
           result == Gate!cmd_gate(repo, done, tests)
           All == Gate!GATE_ITEMS_3A \union Gate!GATE_ITEMS_PHASE_A \union Gate!GATE_ITEMS_PHASE_B
<1>0. audit \in BOOLEAN
  OBVIOUS
<1>1. ASSUME NEW d PROVE Spiral(d) <=> audit /\ "3a.8" \in d /\ "3a.10" \in d /\ tests > 0
  BY <1>0, SpiralOpens, Zenon
<1>2. ASSUME NEW d
      PROVE  A(d) <=> /\ audit /\ gatePass /\ tests > 0
                      /\ \A i \in Gate!GATE_ITEMS_PHASE_A : i # "11.3" => i \in d
  BY <1>0, PhaseAOpens, Zenon
<1>3. ASSUME NEW d PROVE B(d) <=> Gate!GATE_ITEMS_PHASE_B \subseteq d /\ tests > 0
  BY PhaseBOpens
<1>4. result.exit = 0 <=> Spiral(done)
  BY DEF Gate!cmd_gate
<1>5. result.written = "unlocked" <=> Spiral(done)
  BY DEF Gate!cmd_gate, Gate!Decision
<1>6. audit => "FAIL" \notin {Gate!run_audit(repo)[i] : i \in 1..12}
  BY DEF Gate!ExitCode
<1>7. Gate!evaluate_phase_f_gate(files).verdict = "PASS" => \A t \in Gate!PhaseFTasks : files[t] = "complete"
  BY DEF Gate!evaluate_phase_f_gate, Gate!check
<1> HIDE DEF Spiral, A, B, result, audit
<1>8. Spiral(done) => Gate!CriticalPath \ done \subseteq {"3a.12"} /\ audit /\ tests > 0
  BY <1>1 DEF Gate!CriticalPath
<1>9. A(done) => Gate!GATE_ITEMS_PHASE_A \ done \subseteq {"11.3"} /\ audit /\ gatePass /\ tests > 0
  BY <1>2
<1>10. ASSUME NEW t \in All
       PROVE  /\ Spiral(done) => Spiral(done \union {t})
              /\ A(done) => A(done \union {t})
              /\ B(done) => B(done \union {t})
              /\ t \notin Gate!CriticalPath => (Spiral(done) <=> Spiral(done \union {t}))
  <2>1. Spiral(done) => Spiral(done \union {t})
    BY <1>1
  <2>2. A(done) => A(done \union {t})
    BY <1>2
  <2>3. B(done) => B(done \union {t})
    BY <1>3
  <2>4. t \notin Gate!CriticalPath => (Spiral(done) <=> Spiral(done \union {t}))
    BY <1>1 DEF Gate!CriticalPath
  <2> QED BY <2>1, <2>2, <2>3, <2>4
<1>11. Spiral(done) \in BOOLEAN /\ \A t \in All : Spiral(done \union {t}) \in BOOLEAN
  BY DEF Spiral, Gate!all_pass
<1>12. \A t \in All : t \notin Gate!CriticalPath => Spiral(done) = Spiral(done \union {t})
  BY <1>10, <1>11
<1>13. result.exit = 0 => "FAIL" \notin {Gate!run_audit(repo)[i] : i \in 1..12}
  BY <1>1, <1>4, <1>6
<1> QED
  BY <1>3, <1>4, <1>5, <1>7, <1>8, <1>9, <1>10, <1>12, <1>13
     DEF Gate!GatesAreEarned, Spiral, A, B, result, audit

-----------------------------------------------------------------------------
(* The verification of a log. *)

\* A check reports nothing exactly if none of its conditions holds.
LEMMA FirstIs ==
    ASSUME NEW n \in Nat, NEW pairs, DOMAIN pairs = 1..n, \A i \in 1..n : pairs[i][2] # "none"
    PROVE  Log!First(pairs) = "none" <=> \A i \in 1..n : ~pairs[i][1]
<1> DEFINE hits == {i \in DOMAIN pairs : pairs[i][1]}
           least == CHOOSE i \in hits : \A j \in hits : i <= j
<1>1. hits \in SUBSET Nat
  OBVIOUS
<1>2. CASE hits = {}
  BY <1>2 DEF Log!First
<1>3. CASE hits # {}
  <2>1. least \in hits
    <3> HIDE DEF hits
    <3> QED BY <1>1, <1>3, NatMin, Zenon
  <2>2. Log!First(pairs) = pairs[least][2]
    BY <1>3 DEF Log!First
  <2> HIDE DEF least
  <2> QED BY <2>1, <2>2
<1> QED BY <1>2, <1>3

\* A check of one condition.
LEMMA OneCondition ==
    ASSUME NEW c \in BOOLEAN, NEW a, a # "none"
    PROVE  Log!First(<< <<c, a>> >>) = "none" <=> ~c
<1> DEFINE pairs == << <<c, a>> >>
<1>1. 1 \in Nat /\ DOMAIN pairs = 1..1 /\ pairs[1][1] = c /\ pairs[1][2] = a
  OBVIOUS
<1>2. \A i \in 1..1 : i = 1
  OBVIOUS
<1> HIDE DEF pairs
<1>3. Log!First(pairs) = "none" <=> \A i \in 1..1 : ~pairs[i][1]
  BY <1>1, <1>2, FirstIs, Zenon
<1>4. Log!First(pairs) = "none" <=> ~c
  BY <1>1, <1>2, <1>3
<1> QED BY <1>4 DEF pairs

\* A check of two.
LEMMA TwoConditions ==
    ASSUME NEW c \in BOOLEAN, NEW d \in BOOLEAN, NEW a, a # "none", NEW b, b # "none"
    PROVE  Log!First(<< <<c, a>>, <<d, b>> >>) = "none" <=> ~c /\ ~d
<1> DEFINE pairs == << <<c, a>>, <<d, b>> >>
<1>1. /\ 2 \in Nat /\ DOMAIN pairs = 1..2
      /\ pairs[1][1] = c /\ pairs[1][2] = a /\ pairs[2][1] = d /\ pairs[2][2] = b
  OBVIOUS
<1>2. \A i \in 1..2 : i = 1 \/ i = 2
  OBVIOUS
<1> HIDE DEF pairs
<1>3. Log!First(pairs) = "none" <=> \A i \in 1..2 : ~pairs[i][1]
  BY <1>1, <1>2, FirstIs, Zenon
<1>4. Log!First(pairs) = "none" <=> ~c /\ ~d
  BY <1>1, <1>2, <1>3
<1> QED BY <1>4 DEF pairs

\* A check of three.
LEMMA ThreeConditions ==
    ASSUME NEW c \in BOOLEAN, NEW d \in BOOLEAN, NEW e \in BOOLEAN,
           NEW x, x # "none", NEW y, y # "none", NEW z, z # "none"
    PROVE  Log!First(<< <<c, x>>, <<d, y>>, <<e, z>> >>) = "none" <=> ~c /\ ~d /\ ~e
<1> DEFINE pairs == << <<c, x>>, <<d, y>>, <<e, z>> >>
<1>1. /\ 3 \in Nat /\ DOMAIN pairs = 1..3
      /\ pairs[1][1] = c /\ pairs[1][2] = x /\ pairs[2][1] = d /\ pairs[2][2] = y
      /\ pairs[3][1] = e /\ pairs[3][2] = z
  OBVIOUS
<1>2. \A i \in 1..3 : i = 1 \/ i = 2 \/ i = 3
  OBVIOUS
<1> HIDE DEF pairs
<1>3. Log!First(pairs) = "none" <=> \A i \in 1..3 : ~pairs[i][1]
  BY <1>1, <1>2, FirstIs, Zenon
<1>4. Log!First(pairs) = "none" <=> ~c /\ ~d /\ ~e
  BY <1>1, <1>2, <1>3
<1> QED BY <1>4 DEF pairs

\* An entry with which no check finds fault.
Faultless(e) ==
    /\ e.exit = 0 => e.k1 /\ e.k2 /\ e.k3 /\ e.approved # "no" /\ e.eval # "no"
    /\ e.budget # << >> => (e.k3 <=> e.budget[2] + e.budget[3] <= e.budget[1])
    /\ e.id # "" /\ e.tenant # "" /\ e.corr # "" /\ e.boundary # "" /\ e.user # ""
    /\ e.aware /\ e.roles = "list" /\ ~(e.exit < 0)
    /\ e.key # "blank" /\ e.score # "out of range"

\* The eight checks of an entry find nothing exactly if it is faultless.
LEMMA ChecksAre ==
    ASSUME NEW e \in Log!Entries
    PROVE  (\A k \in 1..8 : Log!Checks(e)[k] = "none") <=> Faultless(e)
<1>0. /\ e.k1 \in BOOLEAN /\ e.k2 \in BOOLEAN /\ e.k3 \in BOOLEAN /\ e.aware \in BOOLEAN
      /\ e.exit \in Int
  BY Zenon DEF Log!Entries
<1>1. Log!check_k1(e) = "none" <=> ~(e.exit = 0 /\ ~e.k1)
  <2> DEFINE c == e.exit = 0 /\ ~e.k1
  <2>1. c \in BOOLEAN /\ "K1_schema_validation" # "none"
    OBVIOUS
  <2> HIDE DEF c
  <2>2. Log!First(<< <<c, "K1_schema_validation">> >>) = "none" <=> ~c
    BY <2>1, OneCondition
  <2> QED BY <2>2 DEF Log!check_k1, c
<1>2. Log!check_k2(e) = "none" <=> ~(e.exit = 0 /\ ~e.k2)
  <2> DEFINE c == e.exit = 0 /\ ~e.k2
  <2>1. c \in BOOLEAN /\ "K2_permission" # "none"
    OBVIOUS
  <2> HIDE DEF c
  <2>2. Log!First(<< <<c, "K2_permission">> >>) = "none" <=> ~c
    BY <2>1, OneCondition
  <2> QED BY <2>2 DEF Log!check_k2, c
<1> DEFINE Within == e.budget[2] + e.budget[3] <= e.budget[1]
           wrong == IF e.budget = << >> THEN FALSE ELSE e.k3 # Within
<1>3. Log!check_k3(e) = "none" <=> ~(e.exit = 0 /\ ~e.k3) /\ ~wrong
  <2> DEFINE c == e.exit = 0 /\ ~e.k3
  <2>1. c \in BOOLEAN /\ wrong \in BOOLEAN /\ "K3_bounds" # "none" /\ "K3_bounds_arithmetic" # "none"
    BY Zenon
  <2>2. Log!check_k3(e) = Log!First(<< <<c, "K3_bounds">>, <<wrong, "K3_bounds_arithmetic">> >>)
    BY DEF Log!check_k3
  <2> HIDE DEF c, wrong
  <2>3. Log!First(<< <<c, "K3_bounds">>, <<wrong, "K3_bounds_arithmetic">> >>) = "none" <=> ~c /\ ~wrong
    BY <2>1, TwoConditions
  <2> QED BY <2>2, <2>3 DEF c
<1>4. Log!check_k4(e) = "none" <=> e.tenant # "" /\ e.corr # "" /\ e.aware
  <2> DEFINE c == e.tenant = ""
             d == e.corr = ""
             b == ~e.aware
  <2>1. /\ c \in BOOLEAN /\ d \in BOOLEAN /\ b \in BOOLEAN
        /\ "K4_trace_tenant_id" # "none" /\ "K4_trace_correlation_id" # "none" /\ "K4_trace_timestamp_tz" # "none"
    OBVIOUS
  <2>2. Log!check_k4(e) = Log!First(<< <<c, "K4_trace_tenant_id">>, <<d, "K4_trace_correlation_id">>,
                                       <<b, "K4_trace_timestamp_tz">> >>)
    BY DEF Log!check_k4
  <2> HIDE DEF c, d, b
  <2>3. Log!First(<< <<c, "K4_trace_tenant_id">>, <<d, "K4_trace_correlation_id">>,
                     <<b, "K4_trace_timestamp_tz">> >>) = "none" <=> ~c /\ ~d /\ ~b
    BY <2>1, ThreeConditions
  <2> QED BY <1>0, <2>2, <2>3, Zenon DEF c, d, b
<1>5. Log!check_k5(e) = "none" <=> e.key # "blank"
  <2> DEFINE c == e.key = "blank"
  <2>1. c \in BOOLEAN /\ "K5_idempotency_key" # "none"
    OBVIOUS
  <2> HIDE DEF c
  <2>2. Log!First(<< <<c, "K5_idempotency_key">> >>) = "none" <=> ~c
    BY <2>1, OneCondition
  <2> QED BY <2>2 DEF Log!check_k5, c
<1>6. Log!check_k6(e) = "none" <=> /\ "" \notin {e.id, e.tenant, e.corr, e.boundary, e.user}
                                   /\ e.roles = "list" /\ ~(e.exit < 0)
  <2> DEFINE c == "" \in {e.id, e.tenant, e.corr, e.boundary, e.user}
             d == e.roles # "list"
             b == e.exit < 0
  <2>1. /\ c \in BOOLEAN /\ d \in BOOLEAN /\ b \in BOOLEAN
        /\ "K6_wal_required_field" # "none" /\ "K6_wal_caller_roles" # "none" /\ "K6_wal_exit_code" # "none"
    OBVIOUS
  <2>2. Log!check_k6(e) = Log!First(<< <<c, "K6_wal_required_field">>, <<d, "K6_wal_caller_roles">>,
                                       <<b, "K6_wal_exit_code">> >>)
    BY DEF Log!check_k6
  <2> HIDE DEF c, d, b
  <2>3. Log!First(<< <<c, "K6_wal_required_field">>, <<d, "K6_wal_caller_roles">>,
                     <<b, "K6_wal_exit_code">> >>) = "none" <=> ~c /\ ~d /\ ~b
    BY <2>1, ThreeConditions
  <2> QED BY <2>2, <2>3, Zenon DEF c, d, b
<1>7. Log!check_k7(e) = "none" <=> e.score # "out of range" /\ ~(e.approved = "no" /\ e.exit = 0)
  <2> DEFINE c == e.score = "out of range"
             d == e.approved = "no" /\ e.exit = 0
  <2>1. c \in BOOLEAN /\ d \in BOOLEAN /\ "K7_hitl_confidence_range" # "none" /\ "K7_hitl_approval" # "none"
    OBVIOUS
  <2>2. Log!check_k7(e) = Log!First(<< <<c, "K7_hitl_confidence_range">>, <<d, "K7_hitl_approval">> >>)
    BY DEF Log!check_k7
  <2> HIDE DEF c, d
  <2>3. Log!First(<< <<c, "K7_hitl_confidence_range">>, <<d, "K7_hitl_approval">> >>) = "none" <=> ~c /\ ~d
    BY <2>1, TwoConditions
  <2> QED BY <2>2, <2>3, Zenon DEF c, d
<1>8. Log!check_k8(e) = "none" <=> ~(e.eval = "no" /\ e.exit = 0)
  <2> DEFINE c == e.eval = "no" /\ e.exit = 0
  <2>1. c \in BOOLEAN /\ "K8_eval" # "none"
    OBVIOUS
  <2> HIDE DEF c
  <2>2. Log!First(<< <<c, "K8_eval">> >>) = "none" <=> ~c
    BY <2>1, OneCondition
  <2> QED BY <2>2 DEF Log!check_k8, c
<1>9. wrong <=> e.budget # << >> /\ ~(e.k3 <=> Within)
  <2>1. Within \in BOOLEAN
    OBVIOUS
  <2> HIDE DEF Within
  <2> QED BY <1>0, <2>1
<1> HIDE DEF wrong
<1> DEFINE ch == Log!Checks(e)
<1>10. /\ ch[1] = Log!check_k1(e) /\ ch[2] = Log!check_k2(e) /\ ch[3] = Log!check_k3(e)
       /\ ch[4] = Log!check_k4(e) /\ ch[5] = Log!check_k5(e) /\ ch[6] = Log!check_k6(e)
       /\ ch[7] = Log!check_k7(e) /\ ch[8] = Log!check_k8(e)
  BY DEF Log!Checks
<1>11. \A k \in 1..8 : k = 1 \/ k = 2 \/ k = 3 \/ k = 4 \/ k = 5 \/ k = 6 \/ k = 7 \/ k = 8
  OBVIOUS
<1> HIDE DEF ch
<1>12. (\A k \in 1..8 : ch[k] = "none") <=>
          /\ ch[1] = "none" /\ ch[2] = "none" /\ ch[3] = "none" /\ ch[4] = "none"
          /\ ch[5] = "none" /\ ch[6] = "none" /\ ch[7] = "none" /\ ch[8] = "none"
  BY <1>11
<1>13. (\A k \in 1..8 : ch[k] = "none") <=> Faultless(e)
  BY <1>1, <1>2, <1>3, <1>4, <1>5, <1>6, <1>7, <1>8, <1>9, <1>10, <1>12, Zenon DEF Faultless
<1> QED BY <1>13 DEF ch

\* The recursive functions that define what the two loops have found.
Reports(iter, found, checks) ==
    iter = [x \in SUBSET (1..8) |->
              IF x = {} THEN found ELSE Log!Report(iter[x \ {Max(x)}], checks[Max(x)])]

Scans(iter, log, n) ==
    iter = [x \in SUBSET (1..n) |->
              IF x = {} THEN << >> ELSE Log!EntryViolations(iter[x \ {Max(x)}], log[Max(x)])]

\* A report of one check, and the reports of all the checks of an entry.
LEMMA ReportIs ==
    ASSUME NEW S, "none" \notin S, NEW found \in Seq(S), NEW v \in S \union {"none"}
    PROVE  /\ Log!Report(found, v) \in Seq(S)
           /\ Log!Report(found, v) = << >> <=> found = << >> /\ v = "none"
<1>1. CASE v = "none"
  BY <1>1 DEF Log!Report
<1>2. CASE v # "none"
  <2>1. v \in S /\ Log!Report(found, v) = Append(found, v)
    BY <1>2 DEF Log!Report
  <2>2. Append(found, v) \in Seq(S) /\ Len(Append(found, v)) = Len(found) + 1
    BY <2>1
  <2>3. Append(found, v) # << >>
    BY <2>2
  <2> QED BY <1>2, <2>1, <2>2, <2>3
<1> QED BY <1>1, <1>2

\* The reports of an entry are a fold, so the function that defines it exists.
LEMMA ReportsExist ==
    ASSUME NEW S, "none" \notin S, NEW found \in Seq(S), NEW checks,
           \A k \in 1..8 : checks[k] \in S \union {"none"}
    PROVE  \E iter : Reports(iter, found, checks)
<1> DEFINE V == Seq(S)
           f == [w \in V \X (1..8) |-> Log!Report(w[1], checks[w[2]])]
<1>1. ASSUME NEW v \in V, NEW k \in 1..8 PROVE Log!Report(v, checks[k]) \in V
  BY ReportIs, Zenon
<1> HIDE DEF V
<1>2. \A w \in V \X (1..8) : w[1] \in V /\ w[2] \in 1..8
  OBVIOUS
<1>3. f \in [V \X (1..8) -> V]
  BY <1>1, <1>2
<1>4. \A v \in V, i \in 1..8 : f[<<v, i>>] = Log!Report(v, checks[i])
  OBVIOUS
<1>5. found \in V
  BY DEF V
<1> HIDE DEF f
<1>6. PICK iter : Folds(iter, f, found, 8) /\ \A x \in SUBSET (1..8) : iter[x] \in V
  BY <1>3, <1>5, FoldsExist, Zenon
<1>7. \A x \in SUBSET (1..8) : x # {} => Max(x) \in 1..8 /\ x \ {Max(x)} \in SUBSET (1..8)
  BY MaxIsIn, Zenon
<1>8. \A x \in SUBSET (1..8) : x # {} =>
         f[<<iter[x \ {Max(x)}], Max(x)>>] = Log!Report(iter[x \ {Max(x)}], checks[Max(x)])
  BY <1>4, <1>6, <1>7, Zenon
<1>9. Reports(iter, found, checks)
  BY <1>6, <1>8, Zenon DEF Folds, Reports
<1> QED BY <1>9

\* The sets that a fold over eight elements comes by.
LEMMA UpToEight ==
    ASSUME NEW i \in 1..8
    PROVE  /\ 1..i \in SUBSET (1..8) /\ 1..i # {} /\ (1..i) \ {i} = 1..(i - 1)
           /\ Max(1..i) = i
BY UpTo

\* An entry adds to what was found exactly if a check finds fault with it.
LEMMA EntryAdds ==
    ASSUME NEW S, "none" \notin S, NEW found \in Seq(S), NEW e,
           \A k \in 1..8 : Log!Checks(e)[k] \in S \union {"none"}
    PROVE  /\ Log!EntryViolations(found, e) \in Seq(S)
           /\ Log!EntryViolations(found, e) = << >>
                <=> found = << >> /\ \A k \in 1..8 : Log!Checks(e)[k] = "none"
<1> DEFINE checks == Log!Checks(e)
           it == CHOOSE iter : Reports(iter, found, checks)
<1>0. DOMAIN checks = 1..8
  BY DEF Log!Checks
<1>1. Reports(it, found, checks)
  BY ReportsExist
<1>2. Log!EntryViolations(found, e) = it[1..8]
  BY <1>0 DEF Log!EntryViolations, Log!FoldLeft, Log!MapThenFoldSet, Log!Max, Max, Reports
<1> HIDE DEF it, checks
<1>3. ASSUME NEW i \in 1..8 PROVE it[1..i] = Log!Report(it[1..(i - 1)], checks[i])
  <2>1. 1..i \in SUBSET (1..8) /\ 1..i # {}
    BY UpToEight, Zenon
  <2>2. it[1..i] = Log!Report(it[(1..i) \ {Max(1..i)}], checks[Max(1..i)])
    BY <1>1, <2>1, Zenon DEF Reports
  <2>3. Max(1..i) = i /\ (1..i) \ {i} = 1..(i - 1)
    BY UpToEight, Zenon
  <2> QED BY <2>2, <2>3, Zenon
<1>4. it[1..0] = found
  BY <1>1, 1..0 = {} DEF Reports
<1> DEFINE P(k) == /\ it[1..k] \in Seq(S)
                   /\ it[1..k] = << >> <=> found = << >> /\ \A j \in 1..k : checks[j] = "none"
<1>5. P(0)
  BY <1>4
<1>6. ASSUME NEW k \in 1..8, P(k - 1) PROVE P(k)
  <2>1. checks[k] \in S \union {"none"}
    BY DEF checks
  <2>2. /\ it[1..k] \in Seq(S)
        /\ it[1..k] = << >> <=> it[1..(k - 1)] = << >> /\ checks[k] = "none"
    <3> DEFINE before == it[1..(k - 1)]
               verdict == checks[k]
    <3>1. before \in Seq(S) /\ verdict \in S \union {"none"} /\ it[1..k] = Log!Report(before, verdict)
      BY <1>3, <1>6, <2>1, Zenon
    <3> HIDE DEF before, verdict
    <3>2. /\ Log!Report(before, verdict) \in Seq(S)
          /\ Log!Report(before, verdict) = << >> <=> before = << >> /\ verdict = "none"
      BY <3>1, ReportIs
    <3> QED BY <3>1, <3>2 DEF before, verdict
  <2>3. (\A j \in 1..k : checks[j] = "none")
           <=> (\A j \in 1..(k - 1) : checks[j] = "none") /\ checks[k] = "none"
    <3>1. k \in 1..k /\ \A j \in 1..k : j \in 1..(k - 1) \/ j = k
      OBVIOUS
    <3>2. \A j \in 1..(k - 1) : j \in 1..k
      OBVIOUS
    <3> QED BY <3>1, <3>2
  <2> QED BY <1>6, <2>2, <2>3
<1> HIDE DEF P
<1>7. P(1)
  BY <1>5, <1>6, 1 - 1 = 0
<1>8. P(2)
  BY <1>7, <1>6, 2 - 1 = 1
<1>9. P(3)
  BY <1>8, <1>6, 3 - 1 = 2
<1>10. P(4)
  BY <1>9, <1>6, 4 - 1 = 3
<1>11. P(5)
  BY <1>10, <1>6, 5 - 1 = 4
<1>12. P(6)
  BY <1>11, <1>6, 6 - 1 = 5
<1>13. P(7)
  BY <1>12, <1>6, 7 - 1 = 6
<1>14. P(8)
  BY <1>13, <1>6, 8 - 1 = 7
<1> QED BY <1>2, <1>14 DEF P, checks

\* So is the scan of a log.
LEMMA ScansExist ==
    ASSUME NEW S, "none" \notin S, NEW n \in Nat, NEW log,
           \A i \in 1..n, k \in 1..8 : Log!Checks(log[i])[k] \in S \union {"none"}
    PROVE  \E iter : Scans(iter, log, n)
<1> DEFINE V == Seq(S)
           f == [w \in V \X (1..n) |-> Log!EntryViolations(w[1], log[w[2]])]
<1>1. ASSUME NEW v \in V, NEW i \in 1..n PROVE Log!EntryViolations(v, log[i]) \in V
  <2>1. \A k \in 1..8 : Log!Checks(log[i])[k] \in S \union {"none"}
    OBVIOUS
  <2> QED BY <2>1, EntryAdds
<1>5. << >> \in V
  OBVIOUS
<1> HIDE DEF V
<1>2. \A w \in V \X (1..n) : w[1] \in V /\ w[2] \in 1..n
  OBVIOUS
<1>3. f \in [V \X (1..n) -> V]
  BY <1>1, <1>2
<1>4. \A v \in V, i \in 1..n : f[<<v, i>>] = Log!EntryViolations(v, log[i])
  OBVIOUS
<1> HIDE DEF f
<1>6. PICK iter : Folds(iter, f, << >>, n) /\ \A x \in SUBSET (1..n) : iter[x] \in V
  BY <1>3, <1>5, FoldsExist, Zenon
<1>7. \A x \in SUBSET (1..n) : x # {} => Max(x) \in 1..n /\ x \ {Max(x)} \in SUBSET (1..n)
  BY MaxIsIn, Zenon
<1>8. \A x \in SUBSET (1..n) : x # {} =>
         f[<<iter[x \ {Max(x)}], Max(x)>>] = Log!EntryViolations(iter[x \ {Max(x)}], log[Max(x)])
  BY <1>4, <1>6, <1>7
<1>9. Scans(iter, log, n)
  BY <1>6, <1>8, Zenon DEF Folds, Scans
<1> QED BY <1>9

\* What the checks of the entries find in a log.
Findings(log) == Log!FoldLeft(Log!EntryViolations, << >>, log)

FaultlessUpTo(log, n) == \A i \in 1..n : \A k \in 1..8 : Log!Checks(log[i])[k] = "none"

FindsFault(log, n, S) ==
    Findings(log) \in Seq(S) /\ (Findings(log) = << >> <=> FaultlessUpTo(log, n))

\* The scan of a log finds nothing exactly if no check of any entry does.
LEMMA ScanFinds ==
    ASSUME NEW S, "none" \notin S, NEW n \in Nat, NEW log, DOMAIN log = 1..n,
           \A i \in 1..n, k \in 1..8 : Log!Checks(log[i])[k] \in S \union {"none"}
    PROVE  FindsFault(log, n, S)
<1> DEFINE it == CHOOSE iter : Scans(iter, log, n)
           Fine(i) == \A k \in 1..8 : Log!Checks(log[i])[k] = "none"
<1>1. Scans(it, log, n)
  BY ScansExist
<1>2. Findings(log) = it[1..n]
  BY DEF Findings, Log!FoldLeft, Log!MapThenFoldSet, Log!Max, Max, Scans
<1> HIDE DEF it
<1>3. ASSUME NEW i \in 1..n PROVE it[1..i] = Log!EntryViolations(it[1..(i - 1)], log[i])
  <2>1. 1..i \in SUBSET (1..n) /\ 1..i # {}
    BY UpTo, Zenon
  <2>2. it[1..i] = Log!EntryViolations(it[(1..i) \ {Max(1..i)}], log[Max(1..i)])
    BY <1>1, <2>1, Zenon DEF Scans
  <2>3. Max(1..i) = i /\ (1..i) \ {i} = 1..(i - 1)
    BY UpTo
  <2> QED BY <2>2, <2>3, Zenon
<1>4. it[1..0] = << >>
  <2>1. 1..0 = {} /\ {} \in SUBSET (1..n)
    OBVIOUS
  <2> QED BY <1>1, <2>1 DEF Scans
<1> DEFINE P(k) == /\ it[1..k] \in Seq(S)
                   /\ it[1..k] = << >> <=> \A j \in 1..k : Fine(j)
           Bad == {k \in 0..n : ~P(k)}
<1>5. P(0)
  BY <1>4
<1>6. ASSUME NEW k \in 1..n, P(k - 1) PROVE P(k)
  <2>1. \A j \in 1..8 : Log!Checks(log[k])[j] \in S \union {"none"}
    OBVIOUS
  <2>2. /\ it[1..k] \in Seq(S)
        /\ it[1..k] = << >> <=> it[1..(k - 1)] = << >> /\ Fine(k)
    <3> DEFINE before == it[1..(k - 1)]
               e == log[k]
    <3>1. /\ before \in Seq(S) /\ it[1..k] = Log!EntryViolations(before, e)
          /\ \A j \in 1..8 : Log!Checks(e)[j] \in S \union {"none"}
      BY <1>3, <1>6, <2>1
    <3> HIDE DEF before, e
    <3>2. /\ Log!EntryViolations(before, e) \in Seq(S)
          /\ Log!EntryViolations(before, e) = << >>
                <=> before = << >> /\ \A j \in 1..8 : Log!Checks(e)[j] = "none"
      BY <3>1, EntryAdds
    <3> QED BY <3>1, <3>2 DEF before, e
  <2> HIDE DEF Fine
  <2>3. (\A j \in 1..k : Fine(j)) <=> (\A j \in 1..(k - 1) : Fine(j)) /\ Fine(k)
    <3>1. k \in 1..k /\ \A j \in 1..k : j \in 1..(k - 1) \/ j = k
      OBVIOUS
    <3>2. \A j \in 1..(k - 1) : j \in 1..k
      OBVIOUS
    <3> QED BY <3>1, <3>2
  <2> QED BY <1>6, <2>2, <2>3
<1> HIDE DEF P
<1>7. Bad = {}
  <2> SUFFICES ASSUME Bad # {} PROVE FALSE
    OBVIOUS
  <2>1. Bad \in SUBSET Nat
    OBVIOUS
  <2>2. PICK k \in Bad : \A j \in Bad : k <= j
    <3> HIDE DEF Bad
    <3> QED BY <2>1, NatMin
  <2>3. k # 0 /\ k \in 0..n /\ ~P(k)
    BY <1>5, <2>2
  <2>4. k \in 1..n /\ k - 1 \in 0..n
    BY <2>3
  <2>5. P(k - 1)
    BY <2>2, <2>4
  <2> QED BY <1>6, <2>3, <2>4, <2>5
<1>8. P(n)
  BY <1>7
<1> QED BY <1>2, <1>8 DEF P, FindsFault, FaultlessUpTo

\* As many reports of one name as a set has elements.
OnePerEntry(a, B) == [i \in 1..Log!Cardinality(B) |-> a]

\* It is empty exactly if the set is.
LEMMA NamedOnceEach ==
    ASSUME NEW S, NEW a \in S, NEW n \in Nat, NEW B \in SUBSET (1..n)
    PROVE  OnePerEntry(a, B) \in Seq(S) /\ (OnePerEntry(a, B) = << >> <=> B = {})
<1>1. Log!Cardinality(B) = Cardinality(B)
  BY DEF Log!Cardinality, Cardinality
<1>2. IsFiniteSet(B) /\ Cardinality(B) \in Nat
  <2>1. IsFiniteSet(1..n)
    BY FS_Interval
  <2> QED BY <2>1, FS_Subset, FS_CardinalityType, Zenon
<1>3. Cardinality(B) = 0 <=> B = {}
  BY <1>2, FS_EmptySet, Zenon
<1> DEFINE m == Cardinality(B)
           s == [i \in 1..m |-> a]
<1>4. m \in Nat
  BY <1>2
<1> HIDE DEF m
<1>5. s \in Seq(S) /\ Len(s) = m
  BY <1>4
<1>6. s = << >> <=> m = 0
  BY <1>4, <1>5
<1>7. OnePerEntry(a, B) = s
  BY <1>1 DEF OnePerEntry, m
<1> HIDE DEF s
<1> QED BY <1>3, <1>5, <1>6, <1>7 DEF m

\* Three lists in a row are empty exactly if each is.
LEMMA NoneAtAll ==
    ASSUME NEW S, NEW a \in Seq(S), NEW b \in Seq(S), NEW c \in Seq(S)
    PROVE  /\ a \o b \o c \in Seq(S)
           /\ a \o b \o c = << >> <=> a = << >> /\ b = << >> /\ c = << >>
<1>1. a \o b \in Seq(S) /\ Len(a \o b) = Len(a) + Len(b)
  BY ConcatProperties
<1>2. (a \o b) \o c \in Seq(S) /\ Len((a \o b) \o c) = Len(a \o b) + Len(c)
  BY <1>1, ConcatProperties
<1>3. \A s \in Seq(S) : Len(s) \in Nat /\ (s = << >> <=> Len(s) = 0)
  OBVIOUS
<1> QED BY <1>1, <1>2, <1>3

\* The entries that the two checks across the log report.
OtherTenant(log) ==
    LET FirstWith(c) == CHOOSE i \in DOMAIN log : log[i].corr = c /\ \A j \in 1..(i - 1) : log[j].corr # c IN
    {i \in DOMAIN log : log[i].corr # "" /\ log[FirstWith(log[i].corr)].tenant # log[i].tenant}

IdAgain(log) ==
    {i \in DOMAIN log : log[i].id # "" /\ \E j \in 1..(i - 1) : log[j].id = log[i].id}

\* When a report has no violations.
LEMMA ViolationsFound ==
    ASSUME NEW n \in Nat, NEW log, DOMAIN log = 1..n
    PROVE  /\ Log!Violations(log) # << >> => Head(Log!Violations(log)) # "none"
           /\ Log!Violations(log) = << >>
                <=> /\ \A i \in 1..n : \A k \in 1..8 : Log!Checks(log[i])[k] = "none"
                    /\ OtherTenant(log) = {} /\ IdAgain(log) = {}
<1> DEFINE S == ({Log!Checks(log[w[1]])[w[2]] : w \in (1..n) \X (1..8)}
                    \union {"K4_tenant_isolation", "K6_wal_duplicate_id"}) \ {"none"}
           a == Findings(log)
           b == Log!check_tenant_isolation(log)
           c == Log!check_no_duplicate_ids(log)
<1>1. /\ "none" \notin S /\ "K4_tenant_isolation" \in S /\ "K6_wal_duplicate_id" \in S
      /\ \A i \in 1..n, k \in 1..8 : Log!Checks(log[i])[k] \in S \union {"none"}
  <2>1. "K4_tenant_isolation" # "none" /\ "K6_wal_duplicate_id" # "none"
    OBVIOUS
  <2>2. ASSUME NEW i \in 1..n, NEW k \in 1..8 PROVE Log!Checks(log[i])[k] \in S \union {"none"}
    <3>1. <<i, k>> \in (1..n) \X (1..8)
      OBVIOUS
    <3> QED BY <3>1
  <2> QED BY <2>1, <2>2
<1> HIDE DEF S
<1>2. /\ a \in Seq(S)
      /\ a = << >> <=> \A i \in 1..n : \A k \in 1..8 : Log!Checks(log[i])[k] = "none"
  <2>1. FindsFault(log, n, S)
    BY <1>1, ScanFinds, Zenon
  <2> QED BY <2>1 DEF FindsFault, FaultlessUpTo
<1>3. b \in Seq(S) /\ (b = << >> <=> OtherTenant(log) = {})
  <2>1. b = OnePerEntry("K4_tenant_isolation", OtherTenant(log))
    BY DEF Log!check_tenant_isolation, OtherTenant, OnePerEntry
  <2>2. OtherTenant(log) \in SUBSET (1..n)
    BY Zenon DEF OtherTenant
  <2> DEFINE B == OtherTenant(log)
  <2>3. B \in SUBSET (1..n)
    BY <2>2
  <2> HIDE DEF B
  <2>4. /\ OnePerEntry("K4_tenant_isolation", B) \in Seq(S)
        /\ OnePerEntry("K4_tenant_isolation", B) = << >> <=> B = {}
    BY <1>1, <2>3, NamedOnceEach, Zenon
  <2> HIDE DEF b
  <2> QED BY <2>1, <2>4 DEF B
<1>4. c \in Seq(S) /\ (c = << >> <=> IdAgain(log) = {})
  <2>1. c = OnePerEntry("K6_wal_duplicate_id", IdAgain(log))
    BY DEF Log!check_no_duplicate_ids, IdAgain, OnePerEntry
  <2>2. IdAgain(log) \in SUBSET (1..n)
    BY Zenon DEF IdAgain
  <2> DEFINE B == IdAgain(log)
  <2>3. B \in SUBSET (1..n)
    BY <2>2
  <2> HIDE DEF B
  <2>4. /\ OnePerEntry("K6_wal_duplicate_id", B) \in Seq(S)
        /\ OnePerEntry("K6_wal_duplicate_id", B) = << >> <=> B = {}
    BY <1>1, <2>3, NamedOnceEach, Zenon
  <2> HIDE DEF c
  <2> QED BY <2>1, <2>4 DEF B
<1>5. Log!Violations(log) = a \o b \o c
  BY DEF Log!Violations, Findings
<1> HIDE DEF a, b, c
<1>6. a \o b \o c \in Seq(S) /\ (a \o b \o c = << >> <=> a = << >> /\ b = << >> /\ c = << >>)
  BY <1>2, <1>3, <1>4, NoneAtAll
<1>7. \A s \in Seq(S) : s # << >> => Head(s) \in S
  OBVIOUS
<1> QED BY <1>1, <1>2, <1>3, <1>4, <1>5, <1>6, <1>7, Zenon

\* An earlier position is another one.
LEMMA Earlier ==
    ASSUME NEW n \in Nat, NEW i \in 1..n, NEW j \in 1..(i - 1)
    PROVE  j \in 1..n /\ j # i /\ ~(i <= j)
OBVIOUS

\* Of two positions one is the earlier.
LEMMA EitherEarlier ==
    ASSUME NEW n \in Nat, NEW i \in 1..n, NEW j \in 1..n
    PROVE  i = j \/ j \in 1..(i - 1) \/ i \in 1..(j - 1)
OBVIOUS

\* A set of positions has a first.
LEMMA LeastAmong ==
    ASSUME NEW n \in Nat, NEW T \in SUBSET (1..n), T # {}
    PROVE  \E m \in T : \A j \in T : m <= j
BY 1..n \in SUBSET Nat, NatMin

\* Nobody shares an id, and nobody a correlation id with another tenant.
Apart(log) ==
    \A i, j \in DOMAIN log :
       /\ log[i].id = log[j].id => i = j
       /\ log[i].corr = log[j].corr => log[i].tenant = log[j].tenant

NoneClash(log) == OtherTenant(log) = {} /\ IdAgain(log) = {}

LogOf(log, n) == n \in Nat /\ DOMAIN log = 1..n

\* When no two entries clash.
LEMMA AcrossTheLog ==
    ASSUME NEW n, NEW log, LogOf(log, n), \A i \in 1..n : log[i].id # "" /\ log[i].corr # ""
    PROVE  NoneClash(log) <=> Apart(log)
<1>0. n \in Nat /\ DOMAIN log = 1..n
  BY Zenon DEF LogOf
<1>1. IdAgain(log) = {} <=> \A i, j \in 1..n : log[i].id = log[j].id => i = j
  <2>1. IdAgain(log) = {} <=> \A i \in 1..n : \A j \in 1..(i - 1) : log[j].id # log[i].id
    BY <1>0, Zenon DEF IdAgain
  <2>2. ASSUME \A i \in 1..n : \A j \in 1..(i - 1) : log[j].id # log[i].id,
               NEW i \in 1..n, NEW j \in 1..n, log[i].id = log[j].id
        PROVE  i = j
    <3>1. j \notin 1..(i - 1) /\ i \notin 1..(j - 1)
      BY <2>2, Zenon
    <3> QED BY <1>0, <3>1, EitherEarlier, Zenon
  <2>3. ASSUME \A i, j \in 1..n : log[i].id = log[j].id => i = j, NEW i \in 1..n, NEW j \in 1..(i - 1)
        PROVE  log[j].id # log[i].id
    <3>1. j \in 1..n /\ j # i
      BY <1>0, Earlier, Zenon
    <3> QED BY <2>3, <3>1, Zenon
  <2> QED BY <2>1, <2>2, <2>3, Zenon
<1> DEFINE F(c) == CHOOSE i \in DOMAIN log : log[i].corr = c /\ \A j \in 1..(i - 1) : log[j].corr # c
<1>2. ASSUME NEW i \in 1..n PROVE F(log[i].corr) \in 1..n /\ log[F(log[i].corr)].corr = log[i].corr
  <2> DEFINE c == log[i].corr
             T == {j \in 1..n : log[j].corr = c}
  <2>1. T \in SUBSET (1..n) /\ T # {}
    <3>1. i \in T
      BY Zenon
    <3> QED BY <3>1, Zenon
  <2>2. PICK m \in T : \A j \in T : m <= j
    <3> HIDE DEF T
    <3> QED BY <1>0, <2>1, LeastAmong, Zenon
  <2>3. m \in 1..n /\ log[m].corr = c /\ \A j \in 1..(m - 1) : log[j].corr # c
    <3>1. m \in 1..n /\ log[m].corr = c
      BY Zenon
    <3>2. ASSUME NEW j \in 1..(m - 1) PROVE log[j].corr # c
      <4>1. j \in 1..n /\ ~(m <= j)
        BY <1>0, <3>1, Earlier, Zenon
      <4> QED BY <2>2, <4>1, Zenon
    <3> QED BY <3>1, <3>2, Zenon
  <2> HIDE DEF c, T
  <2>4. F(c) \in DOMAIN log /\ log[F(c)].corr = c
    BY <1>0, <2>3, Zenon
  <2> QED BY <1>0, <2>4, Zenon DEF c, F
<1>3. OtherTenant(log) = {} <=> \A i \in 1..n : log[F(log[i].corr)].tenant = log[i].tenant
  BY <1>0, Zenon DEF OtherTenant
<1> HIDE DEF F
<1>4. (\A i \in 1..n : log[F(log[i].corr)].tenant = log[i].tenant)
        <=> \A i, j \in 1..n : log[i].corr = log[j].corr => log[i].tenant = log[j].tenant
  <2>1. ASSUME \A i \in 1..n : log[F(log[i].corr)].tenant = log[i].tenant,
               NEW i \in 1..n, NEW j \in 1..n, log[i].corr = log[j].corr
        PROVE  log[i].tenant = log[j].tenant
    <3>1. log[F(log[i].corr)].tenant = log[i].tenant /\ log[F(log[j].corr)].tenant = log[j].tenant
      BY <2>1, Zenon
    <3> QED BY <2>1, <3>1, Zenon
  <2>2. ASSUME \A i, j \in 1..n : log[i].corr = log[j].corr => log[i].tenant = log[j].tenant,
               NEW i \in 1..n
        PROVE  log[F(log[i].corr)].tenant = log[i].tenant
    BY <1>2, <2>2, Zenon
  <2> QED BY <2>1, <2>2, Zenon
<1> QED BY <1>0, <1>1, <1>3, <1>4, Zenon DEF NoneClash, Apart

\* A log of any length is accepted exactly if it is consistent.
LEMMA AcceptedAlwaysConsistent ==
    ASSUME NEW n \in Nat, NEW log \in [1..n -> Log!Entries]
    PROVE  Log!AcceptedIsConsistent(log)
<1> DEFINE v == Log!Violations(log)
           strict == Log!verify_wal_entries(log, TRUE)
           all == Log!verify_wal_entries(log, FALSE)
           Alone(e) == /\ e.exit = 0 => e.k1 /\ e.k2 /\ e.k3 /\ "no" \notin {e.approved, e.eval}
                       /\ e.budget # << >> => (e.k3 <=> e.budget[1] - e.budget[2] >= e.budget[3])
                       /\ \A name \in {e.id, e.tenant, e.corr, e.boundary, e.user} : name # ""
                       /\ e.aware /\ e.roles = "list" /\ e.exit >= 0
                       /\ e.key # "blank" /\ e.score # "out of range"
           Across == Apart(log)
<1>1. DOMAIN log = 1..n /\ \A i \in 1..n : log[i] \in Log!Entries
  OBVIOUS
<1>2. /\ v # << >> => Head(v) # "none"
      /\ v = << >> <=> /\ \A i \in 1..n : \A k \in 1..8 : Log!Checks(log[i])[k] = "none"
                       /\ OtherTenant(log) = {} /\ IdAgain(log) = {}
  BY <1>1, ViolationsFound, Zenon
<1>3. ASSUME NEW e \in Log!Entries PROVE (\A k \in 1..8 : Log!Checks(e)[k] = "none") <=> Alone(e)
  <2>1. e.exit \in Int /\ (e.budget # << >> => e.budget \in Int \X Int \X Int)
    BY Zenon DEF Log!Entries
  <2>2. e.budget # << >> =>
           (e.budget[2] + e.budget[3] <= e.budget[1] <=> e.budget[1] - e.budget[2] >= e.budget[3])
    <3> SUFFICES ASSUME NEW x \in Int, NEW y \in Int, NEW z \in Int
                 PROVE  y + z <= x <=> x - y >= z
      BY <2>1
    <3> QED OBVIOUS
  <2>3. ~(e.exit < 0) <=> e.exit >= 0
    BY <2>1
  <2>4. /\ "no" \notin {e.approved, e.eval} <=> e.approved # "no" /\ e.eval # "no"
        /\ (\A name \in {e.id, e.tenant, e.corr, e.boundary, e.user} : name # "")
              <=> e.id # "" /\ e.tenant # "" /\ e.corr # "" /\ e.boundary # "" /\ e.user # ""
    OBVIOUS
  <2>5. Faultless(e) <=> Alone(e)
    <3>1. e.budget # << >> =>
             ((e.k3 <=> e.budget[2] + e.budget[3] <= e.budget[1])
                <=> (e.k3 <=> e.budget[1] - e.budget[2] >= e.budget[3]))
      BY <2>2
    <3> QED BY <2>3, <2>4, <3>1, Zenon DEF Faultless
  <2> QED BY <2>5, ChecksAre, Zenon
<1>4. (\A i \in 1..n : \A k \in 1..8 : Log!Checks(log[i])[k] = "none") <=> \A i \in 1..n : Alone(log[i])
  BY <1>1, <1>3, Zenon
<1>5. (\A i \in 1..n : Alone(log[i])) => \A i \in 1..n : log[i].id # "" /\ log[i].corr # ""
  BY Zenon
<1> HIDE DEF Alone, Across
<1>6. v = << >> <=> (\A i \in 1..n : Alone(log[i])) /\ Across
  <2>1. CASE ~ \A i \in 1..n : Alone(log[i])
    BY <1>2, <1>4, <2>1
  <2>2. CASE \A i \in 1..n : Alone(log[i])
    <3>1. \A i \in 1..n : log[i].id # "" /\ log[i].corr # ""
      BY <1>5, <2>2, Zenon
    <3>2. LogOf(log, n)
      BY <1>1 DEF LogOf
    <3>3. NoneClash(log) <=> Apart(log)
      BY <3>1, <3>2, AcrossTheLog, Zenon
    <3> QED BY <1>2, <1>4, <2>2, <3>3 DEF NoneClash, Across
  <2> QED BY <2>1, <2>2
<1>7. /\ strict.passed <=> v = << >>
      /\ all.passed <=> v = << >>
      /\ strict.raised = "none" <=> v = << >>
  <2>1. CASE v = << >>
    BY <2>1, Zenon DEF Log!verify_wal_entries
  <2>2. CASE v # << >>
    <3>1. strict = [raised |-> Head(v), passed |-> FALSE]
      BY <2>2 DEF Log!verify_wal_entries
    <3>2. all = [raised |-> "none", passed |-> v = << >>]
      BY DEF Log!verify_wal_entries
    <3> HIDE DEF v, strict, all
    <3>3. strict.passed = FALSE /\ strict.raised = Head(v) /\ (all.passed <=> v = << >>)
      BY <3>1, <3>2, Zenon
    <3> QED BY <1>2, <2>2, <3>3
  <2> QED BY <2>1, <2>2, Zenon
<1> HIDE DEF v, strict, all
<1>8. all.passed <=> (\A i \in DOMAIN log : Alone(log[i])) /\ Across
  BY <1>1, <1>6, <1>7
<1> QED BY <1>7, <1>8, Zenon DEF Log!AcceptedIsConsistent, Alone, Across, Apart, strict, all

-----------------------------------------------------------------------------
(* The depth of the imports, a walk that remembers what it found, and the  *)
(* merge. *)

\* What the proofs use of an import graph: it is finite, a module imports a
\* sequence of names, and a name is resolved to a module or to none.
Resolved(graph, name) == Gate!_resolve_to_graph(name, graph)

Imported(graph) ==
    \A m \in DOMAIN graph :
       /\ Len(graph[m]) \in Nat /\ DOMAIN graph[m] = 1..Len(graph[m])
       /\ \A i \in 1..Len(graph[m]) : Resolved(graph, graph[m][i]) \in (DOMAIN graph) \union {<< >>}

GraphFits(graph) ==
    /\ IsFiniteSet(DOMAIN graph) /\ << >> \notin DOMAIN graph
    /\ Imported(graph)

\* The calls of the walk and what they return.
Calls(D) == D \X (SUBSET D) \X [D -> Int]
Walks(D) == [depth : Int, cache : [D -> Int]]

\* The modules that the calls of a call have behind them.
PathOf(w) == w[2] \union {w[1]}

\* A call of the walk, its visit of one import and the whole of its body, g
\* answering the calls it makes.
VisitBy(graph, g, onPath, acc, name) ==
    LET m == Gate!_resolve_to_graph(name, graph) IN
    IF m = << >> \/ m \in onPath THEN acc
    ELSE LET child == g[<<m, onPath, acc.cache>>] IN
         [depth |-> Gate!Max({acc.depth, child.depth + 1}), cache |-> child.cache]

AllBy(graph, g, w) ==
    LET Gather(acc, name) == VisitBy(graph, g, PathOf(w), acc, name)
    IN  Gate!FoldLeft(Gather, [depth |-> 0, cache |-> w[3]], graph[w[1]])

BodyBy(graph, g, w) ==
    IF w[3][w[1]] >= 0 THEN [depth |-> w[3][w[1]], cache |-> w[3]]
    ELSE [depth |-> AllBy(graph, g, w).depth,
          cache |-> [AllBy(graph, g, w).cache EXCEPT ![w[1]] = AllBy(graph, g, w).depth]]

WalkIs(graph, g) == g = [w \in Calls(DOMAIN graph) |-> BodyBy(graph, g, w)]

\* The walk is the function chosen by this equation.
LEMMA WalkChosen ==
    ASSUME NEW graph, NEW start, NEW found
    PROVE  Gate!_dfs(graph, start, found) = (CHOOSE g : WalkIs(graph, g))[<<start, {}, found>>]
BY Zenon DEF Gate!_dfs, WalkIs, BodyBy, AllBy, VisitBy, Calls, PathOf

\* The larger of two numbers.
LEMMA LargerOfTwo ==
    ASSUME NEW a \in Int, NEW b \in Int
    PROVE  Gate!Max({a, b}) = IF a >= b THEN a ELSE b
<1>1. \E x \in {a, b} : \A y \in {a, b} : x >= y
  OBVIOUS
<1>2. /\ Gate!Max({a, b}) \in {a, b}
      /\ \A y \in {a, b} : Gate!Max({a, b}) >= y
  BY <1>1, Zenon DEF Gate!Max
<1> QED BY <1>2

\* A depth and a cache make a walk.
LEMMA WalkMade ==
    ASSUME NEW D, NEW d \in Int, NEW c \in [D -> Int]
    PROVE  [depth |-> d, cache |-> c] \in Walks(D)
BY Zenon DEF Walks

\* The calls made from a path return walks.
Answers(graph, g, onPath) ==
    \A m \in (DOMAIN graph) \ onPath, cache \in [DOMAIN graph -> Int] :
       g[<<m, onPath, cache>>] \in Walks(DOMAIN graph)

\* A visit returns a walk if the calls do.
LEMMA VisitTyped ==
    ASSUME NEW graph, NEW g, NEW onPath, Answers(graph, g, onPath), NEW acc \in Walks(DOMAIN graph), NEW name,
           Resolved(graph, name) \in (DOMAIN graph) \union {<< >>}
    PROVE  VisitBy(graph, g, onPath, acc, name) \in Walks(DOMAIN graph)
<1> DEFINE D == DOMAIN graph
           m == Resolved(graph, name)
           w == <<m, onPath, acc.cache>>
<1>1. CASE m = << >> \/ m \in onPath
  BY <1>1, Zenon DEF VisitBy, Resolved
<1>2. CASE ~(m = << >> \/ m \in onPath)
  <2>1. m \in D /\ acc.cache \in [D -> Int] /\ acc.depth \in Int
    BY <1>2, Zenon DEF Walks
  <2>3. g[w].depth \in Int /\ g[w].cache \in [D -> Int]
    <3>1. g[w] \in Walks(D)
      BY <1>2, <2>1, Zenon DEF Answers
    <3> HIDE DEF w, D
    <3> QED BY <3>1, Zenon DEF Walks
  <2>4. VisitBy(graph, g, onPath, acc, name)
          = [depth |-> Gate!Max({acc.depth, g[w].depth + 1}), cache |-> g[w].cache]
    BY <1>2, Zenon DEF VisitBy, Resolved
  <2> HIDE DEF w, m
  <2>5. Gate!Max({acc.depth, g[w].depth + 1}) \in Int
    <3> DEFINE a == acc.depth
               b == g[w].depth + 1
    <3>1. a \in Int /\ b \in Int
      BY <2>1, <2>3
    <3> HIDE DEF a, b
    <3>2. Gate!Max({a, b}) \in Int
      BY <3>1, LargerOfTwo
    <3> QED BY <3>2 DEF a, b
  <2> DEFINE d == Gate!Max({acc.depth, g[w].depth + 1})
             c == g[w].cache
  <2>6. d \in Int /\ c \in [DOMAIN graph -> Int]
    BY <2>3, <2>5, Zenon
  <2> HIDE DEF d, c
  <2>7. [depth |-> d, cache |-> c] \in Walks(DOMAIN graph)
    BY <2>6, WalkMade, Zenon
  <2> QED BY <2>4, <2>7, Zenon DEF d, c
<1> QED BY <1>1, <1>2

\* The fold by which a call visits its imports.
Visits(iter, graph, g, w, n) ==
    iter = [x \in SUBSET (1..n) |->
              IF x = {} THEN [depth |-> 0, cache |-> w[3]]
              ELSE VisitBy(graph, g, PathOf(w), iter[x \ {Max(x)}], graph[w[1]][Max(x)])]

\* That fold exists, and it returns walks.
LEMMA VisitsExist ==
    ASSUME NEW graph, GraphFits(graph), NEW w \in Calls(DOMAIN graph), NEW g, Answers(graph, g, PathOf(w))
    PROVE  \E iter : /\ Visits(iter, graph, g, w, Len(graph[w[1]]))
                     /\ \A x \in SUBSET (1..Len(graph[w[1]])) : iter[x] \in Walks(DOMAIN graph)
<1> DEFINE D == DOMAIN graph
           n == Len(graph[w[1]])
           onPath == PathOf(w)
           seq == graph[w[1]]
           V == Walks(D)
           v == [depth |-> 0, cache |-> w[3]]
           f == [u \in V \X (1..n) |-> VisitBy(graph, g, onPath, u[1], seq[u[2]])]
<1>1. /\ w[1] \in D /\ w[2] \in SUBSET D /\ w[3] \in [D -> Int]
      /\ onPath \in SUBSET D
  BY DEF Calls, PathOf, PathOf
<1>2. n \in Nat /\ \A i \in 1..n : Resolved(graph, seq[i]) \in D \union {<< >>}
  BY <1>1, Zenon DEF GraphFits, Imported
<1>3. v \in V
  <2>1. 0 \in Int
    OBVIOUS
  <2> QED BY <1>1, <2>1, Zenon DEF Walks
<1> HIDE DEF v, V, seq, n, onPath
<1>4. ASSUME NEW a \in V, NEW i \in 1..n PROVE VisitBy(graph, g, onPath, a, seq[i]) \in V
  BY <1>2, VisitTyped, Zenon DEF V, onPath
<1>5. f \in [V \X (1..n) -> V] /\ \A a \in V, i \in 1..n : f[<<a, i>>] = VisitBy(graph, g, onPath, a, seq[i])
  <2>1. \A u \in V \X (1..n) : u[1] \in V /\ u[2] \in 1..n
    OBVIOUS
  <2>2. f \in [V \X (1..n) -> V]
    BY <1>4, <2>1
  <2> QED BY <2>2
<1> HIDE DEF f
<1>6. PICK iter : Folds(iter, f, v, n) /\ \A x \in SUBSET (1..n) : iter[x] \in V
  BY <1>2, <1>3, <1>5, FoldsExist, Zenon
<1>7. \A x \in SUBSET (1..n) : x # {} => Max(x) \in 1..n /\ x \ {Max(x)} \in SUBSET (1..n)
  BY <1>2, MaxIsIn, Zenon
<1>8. \A x \in SUBSET (1..n) : x # {} =>
         f[<<iter[x \ {Max(x)}], Max(x)>>] = VisitBy(graph, g, onPath, iter[x \ {Max(x)}], seq[Max(x)])
  BY <1>5, <1>6, <1>7, Zenon
<1>9. iter = [x \in SUBSET (1..n) |-> IF x = {} THEN v ELSE VisitBy(graph, g, onPath, iter[x \ {Max(x)}], seq[Max(x)])]
  BY <1>6, <1>8, Zenon DEF Folds
<1>10. Visits(iter, graph, g, w, n)
  BY <1>9, Zenon DEF Visits, v, onPath, seq
<1> QED BY <1>6, <1>10, Zenon DEF n, V

\* r lists what a call has found after each of its imports.
RunOf(graph, g, w, r) ==
    LET n == Len(graph[w[1]]) IN
    /\ r \in [0..n -> Walks(DOMAIN graph)]
    /\ r[0] = [depth |-> 0, cache |-> w[3]]
    /\ \A i \in 1..n : r[i] = VisitBy(graph, g, PathOf(w), r[i - 1], graph[w[1]][i])

\* The visits of a call are such a run, and the call ends with its last.
LEMMA AllRuns ==
    ASSUME NEW graph, GraphFits(graph), NEW w \in Calls(DOMAIN graph), NEW g, Answers(graph, g, PathOf(w))
    PROVE  \E r : RunOf(graph, g, w, r) /\ AllBy(graph, g, w) = r[Len(graph[w[1]])]
<1> DEFINE n == Len(graph[w[1]])
           V == Walks(DOMAIN graph)
           it == CHOOSE iter : Visits(iter, graph, g, w, n)
<1>1. w[1] \in DOMAIN graph /\ n \in Nat /\ DOMAIN graph[w[1]] = 1..n
  <2>1. w[1] \in DOMAIN graph
    BY DEF Calls
  <2> QED BY <2>1, Zenon DEF GraphFits, Imported
<1>2. Visits(it, graph, g, w, n)
  BY VisitsExist, Zenon
<1>3. AllBy(graph, g, w) = it[1..n]
  BY <1>1, Zenon DEF AllBy, Gate!FoldLeft, Gate!MapThenFoldSet, Gate!Max, Max, Visits
<1> HIDE DEF it
<1> DEFINE onPath == PathOf(w)
           seq == graph[w[1]]
           v == [depth |-> 0, cache |-> w[3]]
<1>4. ASSUME NEW i \in 1..n PROVE it[1..i] = VisitBy(graph, g, onPath, it[1..(i - 1)], seq[i])
  <2>1. 1..i \in SUBSET (1..n) /\ 1..i # {} /\ Max(1..i) = i /\ (1..i) \ {i} = 1..(i - 1)
    <3> HIDE DEF n
    <3> QED BY <1>1, UpTo
  <2>2. it[1..i] = VisitBy(graph, g, onPath, it[(1..i) \ {Max(1..i)}], seq[Max(1..i)])
    BY <1>2, <2>1, Zenon DEF Visits
  <2> QED BY <2>1, <2>2, Zenon
<1>5. it[1..0] = v /\ v \in V
  <2>1. 1..0 = {} /\ {} \in SUBSET (1..n) /\ 0 \in Int /\ w[3] \in [DOMAIN graph -> Int]
    BY DEF Calls
  <2>2. it[{}] = v
    BY <1>2, <2>1, Zenon DEF Visits
  <2> QED BY <2>1, <2>2, Zenon DEF Walks
<1>6. onPath \in SUBSET DOMAIN graph /\ \A i \in 1..n : Resolved(graph, seq[i]) \in (DOMAIN graph) \union {<< >>}
  <2>1. onPath \in SUBSET DOMAIN graph
    BY DEF Calls, PathOf
  <2> QED BY <1>1, <2>1, Zenon DEF GraphFits, Imported
<1>7. ASSUME NEW i \in 1..n, it[1..(i - 1)] \in V PROVE it[1..i] \in V
  <2> DEFINE before == it[1..(i - 1)]
             name == seq[i]
  <2>1. Resolved(graph, name) \in (DOMAIN graph) \union {<< >>} /\ it[1..i] = VisitBy(graph, g, onPath, before, name)
    BY <1>4, <1>6, Zenon
  <2>2. before \in V /\ Answers(graph, g, onPath)
    BY <1>7, Zenon
  <2> HIDE DEF before, name, onPath, n, seq
  <2>3. VisitBy(graph, g, onPath, before, name) \in V
    BY <2>1, <2>2, VisitTyped, Zenon
  <2> QED BY <2>1, <2>3, Zenon
<1> DEFINE r == [i \in 0..n |-> it[1..i]]
<1> HIDE DEF n, V, v, onPath, seq
<1> DEFINE Bad == {k \in 0..n : it[1..k] \notin V}
<1>8. Bad = {}
  <2> SUFFICES ASSUME Bad # {} PROVE FALSE
    OBVIOUS
  <2>1. Bad \in SUBSET Nat
    BY <1>1
  <2>2. PICK k \in Bad : \A j \in Bad : k <= j
    <3> HIDE DEF Bad
    <3> QED BY <2>1, NatMin
  <2>3. k \in 0..n /\ k # 0 /\ it[1..k] \notin V
    BY <1>5, <2>2
  <2>4. k \in 1..n /\ k - 1 \in 0..n /\ ~(k <= k - 1)
    BY <1>1, <2>3
  <2>5. it[1..(k - 1)] \in V
    BY <2>2, <2>4, Zenon
  <2> QED BY <1>7, <2>3, <2>4, <2>5, Zenon
<1>9. \A i \in 0..n : it[1..i] \in V
  BY <1>8, Zenon
<1>10. \A i \in 1..n : i \in 0..n /\ i - 1 \in 0..n
  BY <1>1
<1>11. 0 \in 0..n /\ n \in 0..n
  BY <1>1
<1>12. r \in [0..n -> V] /\ r[0] = v /\ r[n] = it[1..n]
  BY <1>5, <1>9, <1>11, Zenon
<1>13. \A i \in 1..n : r[i] = VisitBy(graph, g, onPath, r[i - 1], seq[i])
  BY <1>4, <1>10, Zenon
<1> HIDE DEF r
<1>14. RunOf(graph, g, w, r)
  BY <1>12, <1>13, Zenon DEF RunOf, n, V, v, onPath, seq
<1> QED BY <1>3, <1>12, <1>14, Zenon DEF n

\* A call returns a walk if the calls it makes do.
LEMMA BodyTyped ==
    ASSUME NEW graph, GraphFits(graph), NEW w \in Calls(DOMAIN graph), NEW g, Answers(graph, g, PathOf(w))
    PROVE  BodyBy(graph, g, w) \in Walks(DOMAIN graph)
<1> DEFINE D == DOMAIN graph
           n == Len(graph[w[1]])
           all == AllBy(graph, g, w)
<1>1. w[1] \in D /\ w[3] \in [D -> Int] /\ w[3][w[1]] \in Int
  BY DEF Calls
<1>2. n \in Nat
  BY <1>1, Zenon DEF GraphFits, Imported
<1>3. PICK r : RunOf(graph, g, w, r) /\ all = r[n]
  BY AllRuns, Zenon
<1>4. all \in Walks(D)
  <2>1. n \in 0..n /\ r \in [0..n -> Walks(D)]
    BY <1>2, <1>3 DEF RunOf
  <2> QED BY <1>3, <2>1, Zenon
<1> HIDE DEF all, D
<1>5. all.depth \in Int /\ all.cache \in [D -> Int]
  BY <1>4, Zenon DEF Walks
<1>6. [all.cache EXCEPT ![w[1]] = all.depth] \in [D -> Int]
  BY <1>1, <1>5
<1>7. BodyBy(graph, g, w) = IF w[3][w[1]] >= 0 THEN [depth |-> w[3][w[1]], cache |-> w[3]]
                            ELSE [depth |-> all.depth, cache |-> [all.cache EXCEPT ![w[1]] = all.depth]]
  BY Zenon DEF BodyBy, all
<1> DEFINE d == all.depth
           c == [all.cache EXCEPT ![w[1]] = all.depth]
<1>8. d \in Int /\ c \in [D -> Int]
  BY <1>5, <1>6
<1>9. CASE w[3][w[1]] >= 0
  <2> DEFINE k == w[3][w[1]]
             e == w[3]
  <2>1. k \in Int /\ e \in [D -> Int] /\ BodyBy(graph, g, w) = [depth |-> k, cache |-> e]
    BY <1>1, <1>7, <1>9, Zenon
  <2> HIDE DEF k, e
  <2> QED BY <2>1, WalkMade, Zenon DEF D
<1>10. CASE ~(w[3][w[1]] >= 0)
  <2>1. BodyBy(graph, g, w) = [depth |-> d, cache |-> c]
    BY <1>7, <1>10, Zenon
  <2> HIDE DEF d, c
  <2> QED BY <1>8, <2>1, WalkMade, Zenon DEF D
<1> QED BY <1>9, <1>10, Zenon

\* How many modules are off the path of a call.
OffPath(graph, w) == Cardinality((DOMAIN graph) \ (PathOf(w)))

\* The calls that are made to visit have fewer modules off their path.
LEMMA FewerOffPath ==
    ASSUME NEW graph, IsFiniteSet(DOMAIN graph), NEW w \in Calls(DOMAIN graph), NEW onPath, onPath = PathOf(w),
           NEW m \in DOMAIN graph, m \notin onPath, NEW cache
    PROVE  /\ OffPath(graph, <<m, onPath, cache>>) \in Nat /\ OffPath(graph, w) \in Nat
           /\ OffPath(graph, <<m, onPath, cache>>) < OffPath(graph, w)
<1> DEFINE S == (DOMAIN graph) \ onPath
           T == (DOMAIN graph) \ (onPath \union {m})
<1>1. OffPath(graph, w) = Cardinality(S) /\ OffPath(graph, <<m, onPath, cache>>) = Cardinality(T)
  BY DEF OffPath, PathOf
<1>2. S \in SUBSET DOMAIN graph /\ T = S \ {m} /\ m \in S
  OBVIOUS
<1> HIDE DEF S, T
<1>3. IsFiniteSet(S)
  BY <1>2, FS_Subset
<1>4. IsFiniteSet(T) /\ Cardinality(T) = Cardinality(S) - 1 /\ Cardinality(S) \in Nat /\ Cardinality(T) \in Nat
  BY <1>2, <1>3, FS_RemoveElement, FS_CardinalityType
<1> QED BY <1>1, <1>4

\* What a call returns is settled by what the calls it makes return.
LEMMA BodiesAgree ==
    ASSUME NEW graph, GraphFits(graph), NEW w \in Calls(DOMAIN graph), NEW g, NEW h,
           Answers(graph, g, PathOf(w)),
           \A m \in (DOMAIN graph) \ PathOf(w), cache \in [DOMAIN graph -> Int] :
              g[<<m, PathOf(w), cache>>] = h[<<m, PathOf(w), cache>>]
    PROVE  BodyBy(graph, g, w) = BodyBy(graph, h, w)
<1>0. Answers(graph, h, PathOf(w))
  BY Zenon DEF Answers
<1> DEFINE D == DOMAIN graph
           V == Walks(D)
           n == Len(graph[w[1]])
           onPath == PathOf(w)
           seq == graph[w[1]]
<1>1. w[1] \in D /\ onPath \in SUBSET D
  BY DEF Calls, PathOf
<1>2. n \in Nat /\ \A i \in 1..n : Resolved(graph, seq[i]) \in D \union {<< >>}
  BY <1>1, Zenon DEF GraphFits, Imported
<1>3. ASSUME NEW a \in V, NEW i \in 1..n
      PROVE  VisitBy(graph, g, onPath, a, seq[i]) = VisitBy(graph, h, onPath, a, seq[i])
  <2> DEFINE m == Resolved(graph, seq[i])
             u == <<m, onPath, a.cache>>
  <2>1. CASE m = << >> \/ m \in onPath
    BY <2>1, Zenon DEF VisitBy, Resolved
  <2>2. CASE ~(m = << >> \/ m \in onPath)
    <3>1. m \in D /\ m \notin onPath /\ a.cache \in [D -> Int]
      BY <1>2, <2>2, Zenon DEF Walks
    <3>2. g[u] = h[u]
      BY <3>1, Zenon
    <3> QED BY <2>2, <3>2, Zenon DEF VisitBy, Resolved
  <2> QED BY <2>1, <2>2, Zenon
<1>4. PICK r : RunOf(graph, g, w, r) /\ AllBy(graph, g, w) = r[n]
  BY AllRuns, Zenon
<1>5. PICK q : RunOf(graph, h, w, q) /\ AllBy(graph, h, w) = q[n]
  BY <1>0, AllRuns, Zenon
<1> HIDE DEF V, n, onPath, seq
<1>6. /\ r \in [0..n -> V] /\ r[0] = q[0]
      /\ \A i \in 1..n : r[i] = VisitBy(graph, g, onPath, r[i - 1], seq[i])
      /\ \A i \in 1..n : q[i] = VisitBy(graph, h, onPath, q[i - 1], seq[i])
  BY <1>4, <1>5, Zenon DEF RunOf, V, n, onPath, seq
<1> DEFINE Bad == {k \in 0..n : r[k] # q[k]}
<1>7. Bad = {}
  <2> SUFFICES ASSUME Bad # {} PROVE FALSE
    OBVIOUS
  <2>1. Bad \in SUBSET Nat
    BY <1>2
  <2>2. PICK k \in Bad : \A j \in Bad : k <= j
    <3> HIDE DEF Bad
    <3> QED BY <2>1, NatMin
  <2>3. k \in 0..n /\ k # 0 /\ r[k] # q[k]
    BY <1>6, <2>2
  <2>4. k \in 1..n /\ k - 1 \in 0..n /\ ~(k <= k - 1)
    BY <1>2, <2>3
  <2>5. r[k - 1] = q[k - 1] /\ r[k - 1] \in V
    BY <1>6, <2>2, <2>4, Zenon
  <2> QED BY <1>3, <1>6, <2>3, <2>4, <2>5, Zenon
<1>8. r[n] = q[n]
  <2>1. n \in 0..n
    BY <1>2
  <2> QED BY <1>7, <2>1, Zenon
<1>9. AllBy(graph, g, w) = AllBy(graph, h, w)
  BY <1>4, <1>5, <1>8, Zenon
<1> QED BY <1>9, Zenon DEF BodyBy

\* The path of a call, and the calls that can follow it.
LEMMA CallsFollow ==
    ASSUME NEW graph, GraphFits(graph), NEW w \in Calls(DOMAIN graph),
           NEW m \in (DOMAIN graph) \ PathOf(w), NEW cache \in [DOMAIN graph -> Int]
    PROVE  /\ <<m, PathOf(w), cache>> \in Calls(DOMAIN graph)
           /\ OffPath(graph, <<m, PathOf(w), cache>>) \in Nat /\ OffPath(graph, w) \in Nat
           /\ OffPath(graph, <<m, PathOf(w), cache>>) < OffPath(graph, w)
<1>1. PathOf(w) \in SUBSET DOMAIN graph
  BY DEF Calls, PathOf
<1>2. <<m, PathOf(w), cache>> \in Calls(DOMAIN graph)
  BY <1>1, Zenon DEF Calls
<1>3. IsFiniteSet(DOMAIN graph) /\ m \in DOMAIN graph /\ m \notin PathOf(w)
  BY DEF GraphFits
<1> QED BY <1>2, <1>3, FewerOffPath, Zenon

\* The number of modules off a path is one of at most all.
LEMMA OffPathCounted ==
    ASSUME NEW graph, GraphFits(graph), NEW w \in Calls(DOMAIN graph)
    PROVE  OffPath(graph, w) \in Nat /\ OffPath(graph, w) <= Cardinality(DOMAIN graph)
<1> DEFINE S == (DOMAIN graph) \ PathOf(w)
<1>1. S \in SUBSET DOMAIN graph /\ IsFiniteSet(DOMAIN graph)
  BY Zenon DEF GraphFits
<1> HIDE DEF S
<1>2. IsFiniteSet(S) /\ Cardinality(S) <= Cardinality(DOMAIN graph)
  BY <1>1, FS_Subset, Zenon
<1>3. Cardinality(S) \in Nat
  BY <1>2, FS_CardinalityType, Zenon
<1> QED BY <1>2, <1>3, Zenon DEF OffPath, S

\* The equation holds of g for the calls with less than k modules off their path.
WalkUpTo(graph, g, k) ==
    /\ g \in [Calls(DOMAIN graph) -> Walks(DOMAIN graph)]
    /\ \A w \in Calls(DOMAIN graph) : OffPath(graph, w) < k => g[w] = BodyBy(graph, g, w)

\* One more module off the path.
LEMMA WalkOneMore ==
    ASSUME NEW graph, GraphFits(graph), NEW g, NEW k \in Nat, WalkUpTo(graph, g, k)
    PROVE  \E h : WalkUpTo(graph, h, k + 1)
<1> DEFINE C == Calls(DOMAIN graph)
           V == Walks(DOMAIN graph)
           h == [w \in C |-> BodyBy(graph, g, w)]
<1>1. g \in [C -> V]
  BY Zenon DEF WalkUpTo
<1>2. ASSUME NEW w \in C PROVE Answers(graph, g, PathOf(w))
  BY <1>1, CallsFollow, Zenon DEF Answers
<1>3. h \in [C -> V]
  BY <1>2, BodyTyped, Zenon
<1>4. ASSUME NEW w \in C, OffPath(graph, w) < k + 1 PROVE h[w] = BodyBy(graph, h, w)
  <2>1. ASSUME NEW m \in (DOMAIN graph) \ PathOf(w), NEW cache \in [DOMAIN graph -> Int]
        PROVE  g[<<m, PathOf(w), cache>>] = h[<<m, PathOf(w), cache>>]
    <3> DEFINE u == <<m, PathOf(w), cache>>
    <3>1. /\ u \in C
          /\ OffPath(graph, u) \in Nat /\ OffPath(graph, w) \in Nat
          /\ OffPath(graph, u) < OffPath(graph, w)
      BY CallsFollow, Zenon
    <3> HIDE DEF u
    <3>2. OffPath(graph, u) < k
      BY <1>4, <3>1
    <3> QED BY <3>1, <3>2, Zenon DEF WalkUpTo, u
  <2>2. h[w] = BodyBy(graph, g, w)
    BY Zenon
  <2> HIDE DEF h
  <2>3. BodyBy(graph, g, w) = BodyBy(graph, h, w)
    BY <1>2, <2>1, BodiesAgree, Zenon
  <2> QED BY <2>2, <2>3, Zenon
<1> HIDE DEF h
<1>5. WalkUpTo(graph, h, k + 1)
  BY <1>3, <1>4, Zenon DEF WalkUpTo
<1> QED BY <1>5

\* The walk exists.
LEMMA WalkExists ==
    ASSUME NEW graph, GraphFits(graph)
    PROVE  \E g : WalkIs(graph, g)
<1> DEFINE C == Calls(DOMAIN graph)
           V == Walks(DOMAIN graph)
           Bad == {k \in Nat : ~ \E g : WalkUpTo(graph, g, k)}
<1>1. Bad = {}
  <2> SUFFICES ASSUME Bad # {} PROVE FALSE
    OBVIOUS
  <2>1. Bad \in SUBSET Nat
    OBVIOUS
  <2>2. PICK k \in Bad : \A j \in Bad : k <= j
    <3> HIDE DEF Bad
    <3> QED BY <2>1, NatMin
  <2>3. k \in Nat /\ ~ \E g : WalkUpTo(graph, g, k)
    BY <2>2, Zenon
  <2>4. k # 0
    <3> DEFINE v == [depth |-> 0, cache |-> [m \in DOMAIN graph |-> 0]]
               g == [w \in C |-> v]
    <3>1. 0 \in Int
      OBVIOUS
    <3>2. v \in V
      BY <3>1, Zenon DEF Walks
    <3>3. g \in [C -> V]
      BY <3>2, Zenon
    <3> HIDE DEF g, v
    <3>4. \A w \in C : ~(OffPath(graph, w) < 0)
      <4>1. \A n \in Nat : ~(n < 0)
        OBVIOUS
      <4> QED BY <4>1, OffPathCounted, Zenon
    <3> QED BY <2>3, <3>3, <3>4, Zenon DEF WalkUpTo
  <2>5. k - 1 \in Nat /\ ~(k <= k - 1) /\ (k - 1) + 1 = k
    BY <2>3, <2>4
  <2>6. PICK g : WalkUpTo(graph, g, k - 1)
    BY <2>2, <2>5, Zenon
  <2>7. \E h : WalkUpTo(graph, h, (k - 1) + 1)
    BY <2>5, <2>6, WalkOneMore, Zenon
  <2> QED BY <2>3, <2>5, <2>7, Zenon
<1> DEFINE N == Cardinality(DOMAIN graph)
<1>2. N \in Nat
  BY FS_CardinalityType DEF GraphFits
<1> HIDE DEF N
<1>3. N + 1 \in Nat /\ \A n \in Nat : n <= N => n < N + 1
  BY <1>2
<1>4. PICK g : WalkUpTo(graph, g, N + 1)
  BY <1>1, <1>3, Zenon
<1>5. \A w \in C : OffPath(graph, w) < N + 1
  BY <1>3, OffPathCounted, Zenon DEF N
<1>6. g \in [C -> V] /\ \A w \in C : g[w] = BodyBy(graph, g, w)
  BY <1>4, <1>5, Zenon DEF WalkUpTo
<1>7. g = [w \in C |-> BodyBy(graph, g, w)]
  BY <1>6, Zenon
<1> QED BY <1>7, Zenon DEF WalkIs

\* What satisfies the equation returns walks.
LEMMA WalkTyped ==
    ASSUME NEW graph, GraphFits(graph), NEW g, WalkIs(graph, g)
    PROVE  g \in [Calls(DOMAIN graph) -> Walks(DOMAIN graph)]
<1> DEFINE C == Calls(DOMAIN graph)
           V == Walks(DOMAIN graph)
           Bad == {k \in Nat : \E w \in C : OffPath(graph, w) = k /\ g[w] \notin V}
<1>1. \A w \in C : g[w] = BodyBy(graph, g, w)
  BY Zenon DEF WalkIs
<1>2. g = [w \in C |-> g[w]]
  BY Zenon DEF WalkIs
<1>3. Bad = {}
  <2> SUFFICES ASSUME Bad # {} PROVE FALSE
    OBVIOUS
  <2>1. Bad \in SUBSET Nat
    OBVIOUS
  <2>2. PICK k \in Bad : \A j \in Bad : k <= j
    <3> HIDE DEF Bad
    <3> QED BY <2>1, NatMin
  <2>3. PICK w \in C : OffPath(graph, w) = k /\ g[w] \notin V
    BY <2>2, Zenon
  <2>4. ASSUME NEW m \in (DOMAIN graph) \ PathOf(w), NEW cache \in [DOMAIN graph -> Int]
        PROVE  g[<<m, PathOf(w), cache>>] \in V
    <3> DEFINE u == <<m, PathOf(w), cache>>
    <3>1. /\ u \in C
          /\ OffPath(graph, u) \in Nat /\ OffPath(graph, w) \in Nat
          /\ OffPath(graph, u) < OffPath(graph, w)
      BY CallsFollow, Zenon
    <3> HIDE DEF u
    <3>2. ~(k <= OffPath(graph, u))
      BY <2>3, <3>1
    <3> QED BY <2>2, <3>1, <3>2, Zenon DEF u
  <2>5. Answers(graph, g, PathOf(w))
    BY <2>4, Zenon DEF Answers
  <2> QED BY <1>1, <2>3, <2>5, BodyTyped, Zenon
<1>4. \A w \in C : g[w] \in V
  BY <1>3, OffPathCounted, Zenon
<1> QED BY <1>2, <1>4, Zenon

\* g answers every call of the walk.
WalkOf(graph, g) ==
    /\ g \in [Calls(DOMAIN graph) -> Walks(DOMAIN graph)]
    /\ \A w \in Calls(DOMAIN graph) : g[w] = BodyBy(graph, g, w)
    /\ \A start, found : Gate!_dfs(graph, start, found) = g[<<start, {}, found>>]

\* There is a function that answers every call of the walk.
LEMMA WalkFound ==
    ASSUME NEW graph, GraphFits(graph)
    PROVE  \E g : WalkOf(graph, g)
<1> DEFINE g == CHOOSE h : WalkIs(graph, h)
<1>1. WalkIs(graph, g)
  BY WalkExists, Zenon
<1>2. \A start, found : Gate!_dfs(graph, start, found) = g[<<start, {}, found>>]
  BY WalkChosen, Zenon
<1> HIDE DEF g
<1>3. g \in [Calls(DOMAIN graph) -> Walks(DOMAIN graph)]
  BY <1>1, WalkTyped, Zenon
<1>4. \A w \in Calls(DOMAIN graph) : g[w] = BodyBy(graph, g, w)
  BY <1>1, Zenon DEF WalkIs
<1>5. WalkOf(graph, g)
  BY <1>2, <1>3, <1>4, Zenon DEF WalkOf
<1> QED BY <1>5

\* A chain of n modules, each imported by the one before it.
IsChain(graph, c, n) ==
    /\ n \in Nat \ {0} /\ c \in [1..n -> DOMAIN graph]
    /\ \A i, j \in 1..n : c[i] = c[j] => i = j
    /\ \A i \in 2..n : c[i] \in Gate!Targets(graph, c[i - 1])

\* The imports that are resolved.
LEMMA TargetsAre ==
    ASSUME NEW graph, GraphFits(graph), NEW m \in DOMAIN graph
    PROVE  /\ Gate!Targets(graph, m) \subseteq DOMAIN graph
           /\ \A t \in DOMAIN graph : t \in Gate!Targets(graph, m)
                 <=> \E i \in 1..Len(graph[m]) : t = Resolved(graph, graph[m][i])
<1>1. /\ DOMAIN graph[m] = 1..Len(graph[m])
      /\ \A i \in 1..Len(graph[m]) : Resolved(graph, graph[m][i]) \in (DOMAIN graph) \union {<< >>}
      /\ << >> \notin DOMAIN graph
  BY Zenon DEF GraphFits, Imported
<1>2. Gate!Targets(graph, m) = {Resolved(graph, graph[m][i]) : i \in DOMAIN graph[m]} \ {<< >>}
  BY Zenon DEF Gate!Targets, Resolved
<1>3. \A t \in Gate!Targets(graph, m) : t \in DOMAIN graph
  BY <1>1, <1>2, Zenon
<1>4. \A t \in DOMAIN graph : t \in Gate!Targets(graph, m)
                 <=> \E i \in 1..Len(graph[m]) : t = Resolved(graph, graph[m][i])
  BY <1>1, <1>2, Zenon
<1> QED BY <1>3, <1>4, Zenon

\* A chain has no more modules than there are.
LEMMA ChainsAreShort ==
    ASSUME NEW graph, IsFiniteSet(DOMAIN graph), NEW n, NEW c, IsChain(graph, c, n)
    PROVE  n <= Cardinality(DOMAIN graph)
<1> DEFINE D == DOMAIN graph
<1>1. n \in Nat /\ c \in [1..n -> D] /\ \A i, j \in 1..n : c[i] = c[j] => i = j
  BY DEF IsChain
<1>2. IsFiniteSet(1..n) /\ Cardinality(1..n) = n /\ Cardinality(D) \in Nat
  BY <1>1, FS_Interval, FS_CardinalityType
<1>3. SUFFICES ASSUME Cardinality(D) < n PROVE FALSE
  BY <1>1, <1>2
<1> DEFINE I == 1..n
<1>4. IsFiniteSet(I) /\ IsFiniteSet(D) /\ Cardinality(D) < Cardinality(I) /\ c \in [I -> D]
  BY <1>1, <1>2, <1>3
<1> HIDE DEF I, D
<1>5. \E x, y \in I : x # y /\ c[x] = c[y]
  BY <1>4, FS_PigeonHole
<1> QED BY <1>1, <1>5 DEF I

\* The chains of the property are these.
LEMMA ChainsAre ==
    ASSUME NEW graph, GraphFits(graph)
    PROVE  /\ \A n, c : IsChain(graph, c, n) => c \in Gate!Chains(graph) /\ Len(c) = n
           /\ \A c \in Gate!Chains(graph) : IsChain(graph, c, Len(c))
<1> DEFINE D == DOMAIN graph
           N == Cardinality(D)
<1>1. N \in Nat /\ IsFiniteSet(D) /\ Gate!Cardinality(D) = N
  <2>1. Gate!Cardinality(D) = N
    BY Zenon DEF Gate!Cardinality, Cardinality
  <2> QED BY <2>1, FS_CardinalityType DEF GraphFits
<1>2. ASSUME NEW n, NEW c, IsChain(graph, c, n) PROVE c \in Gate!Chains(graph) /\ Len(c) = n
  <2>1. n <= N
    BY <1>1, <1>2, ChainsAreShort, Zenon
  <2>2. n \in 1..N /\ c \in [1..n -> D] /\ DOMAIN c = 1..n
    BY <1>1, <1>2, <2>1 DEF IsChain
  <2>3. Len(c) = n
    BY <2>2
  <2>4. (1..n) \ {1} = 2..n
    BY <2>2
  <2>5. c \in UNION {[1..k -> D] : k \in 1..N}
    BY <2>2, Zenon
  <2> QED BY <1>1, <1>2, <2>2, <2>3, <2>4, <2>5, Zenon DEF IsChain, Gate!Chains
<1>3. ASSUME NEW c \in Gate!Chains(graph) PROVE IsChain(graph, c, Len(c))
  <2>1. PICK n \in 1..N : c \in [1..n -> D]
    BY <1>1, Zenon DEF Gate!Chains
  <2>2. n \in Nat \ {0} /\ DOMAIN c = 1..n /\ Len(c) = n /\ (1..n) \ {1} = 2..n
    BY <1>1, <2>1
  <2>3. /\ \A i, j \in DOMAIN c : c[i] = c[j] => i = j
        /\ \A i \in DOMAIN c \ {1} : c[i] \in Gate!Targets(graph, c[i - 1])
    BY Zenon DEF Gate!Chains
  <2> QED BY <2>1, <2>2, <2>3, Zenon DEF IsChain
<1> QED BY <1>2, <1>3, Zenon

\* The chain from one of its modules on.
LEMMA ChainFrom ==
    ASSUME NEW graph, NEW n, NEW c, IsChain(graph, c, n), NEW i \in 1..n
    PROVE  \E d : IsChain(graph, d, n - i + 1) /\ d[1] = c[i] /\ d[n - i + 1] = c[n]
<1> DEFINE k == n - i + 1
           d == [j \in 1..k |-> c[j + i - 1]]
<1>1. n \in Nat \ {0} /\ i \in 1..n /\ k \in Nat \ {0}
  BY DEF IsChain
<1>2. \A j \in 1..k : j + i - 1 \in 1..n
  BY <1>1
<1>3. d \in [1..k -> DOMAIN graph] /\ \A j \in 1..k : d[j] = c[j + i - 1]
  BY <1>2, Zenon DEF IsChain
<1>4. d[1] = c[i] /\ d[k] = c[n]
  <2>1. 1 \in 1..k /\ k \in 1..k /\ 1 + i - 1 = i /\ k + i - 1 = n
    BY <1>1
  <2> HIDE DEF d, k
  <2>2. d[1] = c[1 + i - 1] /\ d[k] = c[k + i - 1]
    BY <1>3, <2>1, Zenon
  <2> QED BY <2>1, <2>2, Zenon
<1> HIDE DEF d
<1>5. ASSUME NEW a \in 1..k, NEW b \in 1..k, d[a] = d[b] PROVE a = b
  <2>1. a + i - 1 = b + i - 1
    BY <1>2, <1>3, <1>5, Zenon DEF IsChain
  <2> QED BY <1>1, <2>1
<1>6. ASSUME NEW j \in 2..k PROVE d[j] \in Gate!Targets(graph, d[j - 1])
  <2>1. j \in 1..k /\ j - 1 \in 1..k /\ j + i - 1 \in 2..n /\ (j - 1) + i - 1 = (j + i - 1) - 1
    BY <1>1
  <2> QED BY <1>3, <2>1, Zenon DEF IsChain
<1>7. IsChain(graph, d, k)
  BY <1>1, <1>3, <1>5, <1>6, Zenon DEF IsChain
<1> QED BY <1>4, <1>7, Zenon DEF k

\* A module on its own.
LEMMA ChainOfOne ==
    ASSUME NEW graph, NEW m \in DOMAIN graph
    PROVE  \E c : IsChain(graph, c, 1) /\ c[1] = m /\ {c[i] : i \in 1..1} = {m}
<1> DEFINE c == [i \in 1..1 |-> m]
<1>1. c \in [1..1 -> DOMAIN graph] /\ c[1] = m /\ \A i \in 1..1 : i = 1
  OBVIOUS
<1>2. 1 \in Nat \ {0} /\ 2..1 = {} /\ 1 \in 1..1
  OBVIOUS
<1> HIDE DEF c
<1>3. IsChain(graph, c, 1)
  BY <1>1, <1>2, Zenon DEF IsChain
<1>4. {c[i] : i \in 1..1} = {m}
  BY <1>1, <1>2, Zenon
<1> QED BY <1>1, <1>3, <1>4, Zenon

\* One module more in front of a chain.
LEMMA ChainInFront ==
    ASSUME NEW graph, NEW n, NEW c, IsChain(graph, c, n), NEW m \in DOMAIN graph,
           \A i \in 1..n : c[i] # m, c[1] \in Gate!Targets(graph, m)
    PROVE  \E d : /\ IsChain(graph, d, n + 1) /\ d[1] = m
                  /\ \A i \in 1..(n + 1) : d[i] = m \/ \E j \in 1..n : d[i] = c[j]
<1> DEFINE k == n + 1
           d == [i \in 1..k |-> IF i = 1 THEN m ELSE c[i - 1]]
<1>1. n \in Nat \ {0} /\ k \in Nat \ {0}
  BY DEF IsChain
<1>2. \A i \in 1..k : i # 1 => i - 1 \in 1..n
  BY <1>1
<1>3. \A i \in 1..n : c[i] \in DOMAIN graph
  BY Zenon DEF IsChain
<1>4. d \in [1..k -> DOMAIN graph]
  BY <1>2, <1>3, Zenon
<1>5. d[1] = m /\ \A i \in 1..k : i # 1 => d[i] = c[i - 1]
  <2>1. 1 \in 1..k
    BY <1>1
  <2> QED BY <2>1, Zenon
<1> HIDE DEF d
<1>6. ASSUME NEW a \in 1..k, NEW b \in 1..k, d[a] = d[b] PROVE a = b
  <2>1. CASE a = 1 \/ b = 1
    BY <1>2, <1>5, <1>6, <2>1, Zenon
  <2>2. CASE a # 1 /\ b # 1
    <3>1. a - 1 = b - 1
      BY <1>2, <1>5, <1>6, <2>2, Zenon DEF IsChain
    <3> QED BY <1>1, <3>1
  <2> QED BY <2>1, <2>2, Zenon
<1>7. ASSUME NEW j \in 2..k PROVE d[j] \in Gate!Targets(graph, d[j - 1])
  <2>1. j \in 1..k /\ j # 1 /\ j - 1 \in 1..k
    BY <1>1
  <2>2. d[j] = c[j - 1]
    BY <1>5, <2>1, Zenon
  <2>3. CASE j = 2
    <3>1. j - 1 = 1
      BY <2>3
    <3> QED BY <1>5, <2>2, <3>1, Zenon
  <2>4. CASE j # 2
    <3>1. j - 1 # 1 /\ j - 1 \in 2..n
      BY <1>1, <2>4
    <3>2. d[j - 1] = c[j - 1 - 1]
      BY <1>5, <2>1, <3>1, Zenon
    <3> QED BY <2>2, <3>1, <3>2, Zenon DEF IsChain
  <2> QED BY <2>3, <2>4, Zenon
<1>8. IsChain(graph, d, k)
  BY <1>1, <1>4, <1>6, <1>7, Zenon DEF IsChain
<1>9. \A i \in 1..k : d[i] = m \/ \E j \in 1..n : d[i] = c[j]
  BY <1>2, <1>5, Zenon
<1> QED BY <1>5, <1>8, <1>9, Zenon DEF k

\* One module more at the end of a chain.
LEMMA ChainGoesOn ==
    ASSUME NEW graph, NEW n, NEW c, IsChain(graph, c, n), NEW m \in DOMAIN graph,
           \A i \in 1..n : c[i] # m, m \in Gate!Targets(graph, c[n])
    PROVE  \E d : /\ IsChain(graph, d, n + 1) /\ d[n + 1] = m
                  /\ {d[i] : i \in 1..(n + 1)} = {c[i] : i \in 1..n} \union {m}
<1> DEFINE k == n + 1
           d == [i \in 1..k |-> IF i = k THEN m ELSE c[i]]
<1>1. n \in Nat \ {0} /\ k \in Nat \ {0}
  BY DEF IsChain
<1>2. /\ \A i \in 1..k : i # k => i \in 1..n
      /\ \A i \in 1..n : i \in 1..k /\ i # k
      /\ k \in 1..k
  BY <1>1
<1>3. \A i \in 1..n : c[i] \in DOMAIN graph
  BY Zenon DEF IsChain
<1>4. d \in [1..k -> DOMAIN graph]
  BY <1>2, <1>3, Zenon
<1>5. d[k] = m /\ \A i \in 1..n : d[i] = c[i]
  BY <1>2, Zenon
<1> HIDE DEF d
<1>6. ASSUME NEW a \in 1..k, NEW b \in 1..k, d[a] = d[b] PROVE a = b
  <2> HIDE DEF k
  <2>1. CASE a = k \/ b = k
    BY <1>2, <1>5, <1>6, <2>1, Zenon
  <2>2. CASE a # k /\ b # k
    BY <1>2, <1>5, <1>6, <2>2, Zenon DEF IsChain
  <2> QED BY <2>1, <2>2, Zenon
<1>7. ASSUME NEW j \in 2..k PROVE d[j] \in Gate!Targets(graph, d[j - 1])
  <2>1. j - 1 \in 1..n /\ (j # k => j \in 2..n /\ j \in 1..n) /\ k - 1 = n
    BY <1>1
  <2>2. d[j - 1] = c[j - 1]
    BY <1>5, <2>1, Zenon
  <2> HIDE DEF k
  <2>3. CASE j = k
    BY <1>5, <2>1, <2>2, <2>3, Zenon
  <2>4. CASE j # k
    BY <1>5, <2>1, <2>2, <2>4, Zenon DEF IsChain
  <2> QED BY <2>3, <2>4, Zenon
<1>8. IsChain(graph, d, k)
  BY <1>1, <1>4, <1>6, <1>7, Zenon DEF IsChain
<1>9. {d[i] : i \in 1..k} = {c[i] : i \in 1..n} \union {m}
  <2> HIDE DEF k
  <2>1. \A x : x \in {d[i] : i \in 1..k} <=> x \in {c[i] : i \in 1..n} \union {m}
    BY <1>2, <1>5, Zenon
  <2> QED BY <2>1, Zenon
<1> QED BY <1>5, <1>8, <1>9, Zenon DEF k

\* A path comes from a chain that ends in the module it leads to.
OnChain(graph, path, m) ==
    \E n, c : IsChain(graph, c, n) /\ c[n] = m /\ path \union {m} = {c[i] : i \in 1..n}

\* Without a cycle a module imports none of the path that leads to it.
LEMMA NoWayUp ==
    ASSUME NEW graph, GraphFits(graph), Gate!Acyclic(graph), NEW path, NEW m, OnChain(graph, path, m),
           NEW t \in path \union {m}, t \in Gate!Targets(graph, m)
    PROVE  t = m
<1> SUFFICES ASSUME t # m PROVE FALSE
  OBVIOUS
<1>1. PICK n, c : IsChain(graph, c, n) /\ c[n] = m /\ path \union {m} = {c[i] : i \in 1..n}
  BY Zenon DEF OnChain
<1>2. PICK i \in 1..n : t = c[i]
  BY <1>1, Zenon
<1>3. n \in Nat \ {0} /\ i # n
  BY <1>1, <1>2, Zenon DEF IsChain
<1>4. PICK d : IsChain(graph, d, n - i + 1) /\ d[1] = t /\ d[n - i + 1] = m
  <2>1. \E d : IsChain(graph, d, n - i + 1) /\ d[1] = c[i] /\ d[n - i + 1] = c[n]
    BY <1>1, <1>2, ChainFrom
  <2> QED BY <1>1, <1>2, <2>1, Zenon
<1> DEFINE k == n - i + 1
<1>5. k \in Nat /\ k > 1 /\ IsChain(graph, d, k) /\ d[1] = t /\ d[k] = m
  BY <1>2, <1>3, <1>4
<1> HIDE DEF k
<1>6. d \in Gate!Chains(graph) /\ Len(d) = k
  BY <1>5, ChainsAre, Zenon
<1>7. Gate!Last(d) = m
  BY <1>5, <1>6, Zenon DEF Gate!Last
<1> QED BY <1>5, <1>6, <1>7, Zenon DEF Gate!Acyclic

\* The path of a call leads to each call that follows it.
LEMMA PathGoesOn ==
    ASSUME NEW graph, NEW path, NEW m, OnChain(graph, path, m),
           NEW t \in DOMAIN graph, t \notin path \union {m}, t \in Gate!Targets(graph, m)
    PROVE  OnChain(graph, path \union {m}, t)
<1>1. PICK n, c : IsChain(graph, c, n) /\ c[n] = m /\ path \union {m} = {c[i] : i \in 1..n}
  BY Zenon DEF OnChain
<1>2. IsChain(graph, c, n) /\ t \in Gate!Targets(graph, c[n]) /\ \A i \in 1..n : c[i] # t
  BY <1>1, Zenon
<1>3. PICK d : /\ IsChain(graph, d, n + 1) /\ d[n + 1] = t
               /\ {d[i] : i \in 1..(n + 1)} = {c[i] : i \in 1..n} \union {t}
  <2> HIDE <1>1
  <2> QED BY <1>2, ChainGoesOn
<1>4. (path \union {m}) \union {t} = {d[i] : i \in 1..(n + 1)}
  BY <1>1, <1>3, Zenon
<1> HIDE <1>1
<1> DEFINE k == n + 1
<1>5. IsChain(graph, d, k) /\ d[k] = t /\ (path \union {m}) \union {t} = {d[i] : i \in 1..k}
  BY <1>3, <1>4
<1> HIDE DEF k
<1> SUFFICES \E l, e : IsChain(graph, e, l) /\ e[l] = t /\ (path \union {m}) \union {t} = {e[i] : i \in 1..l}
  BY DEF OnChain
<1> WITNESS k, d
<1> QED BY <1>5

\* What is remembered is the length of a chain through modules that are.
Backed(graph, cache) ==
    \A m \in DOMAIN graph : cache[m] >= 0 =>
       \E n, c : /\ IsChain(graph, c, n) /\ c[1] = m /\ n = cache[m] + 1
                 /\ \A i \in 1..n : cache[c[i]] >= 0

\* Without a cycle no chain is longer.
Exact(graph, cache) ==
    Gate!Acyclic(graph) =>
       \A m \in DOMAIN graph : cache[m] >= 0 =>
          \A n, c : IsChain(graph, c, n) /\ c[1] = m => n <= cache[m] + 1

SoundCache(graph, cache) ==
    /\ cache \in [DOMAIN graph -> Int]
    /\ Backed(graph, cache) /\ Exact(graph, cache)

\* What a call starts from: the modules on its path are still being visited.
Starts(graph, w) ==
    /\ w \in Calls(DOMAIN graph) /\ w[1] \notin w[2]
    /\ SoundCache(graph, w[3]) /\ OnChain(graph, w[2], w[1])
    /\ \A p \in w[2] : w[3][p] < 0

\* What it leaves: it forgets nothing and remembers nothing about its path.
Ends(graph, w, walk) ==
    /\ walk \in Walks(DOMAIN graph) /\ SoundCache(graph, walk.cache)
    /\ walk.depth >= 0 /\ walk.cache[w[1]] = walk.depth
    /\ \A x \in DOMAIN graph : w[3][x] >= 0 => walk.cache[x] = w[3][x]
    /\ \A p \in w[2] : walk.cache[p] < 0

\* A target of a module that the walk has behind it, and the depth it gives.
Deepest(graph, cache, m, d) ==
    d = 0 \/ \E t \in Gate!Targets(graph, m) : cache[t] >= 0 /\ cache[t] + 1 = d

\* What a call has gathered after its first i imports.
Gathered(graph, w, acc, i) ==
    /\ acc \in Walks(DOMAIN graph) /\ SoundCache(graph, acc.cache) /\ acc.depth >= 0
    /\ \A x \in DOMAIN graph : w[3][x] >= 0 => acc.cache[x] = w[3][x]
    /\ \A p \in PathOf(w) : acc.cache[p] < 0
    /\ Deepest(graph, acc.cache, w[1], acc.depth)
    /\ \A j \in 1..i :
          LET t == Resolved(graph, graph[w[1]][j]) IN
          t \in (DOMAIN graph) \ PathOf(w) => acc.cache[t] >= 0 /\ acc.cache[t] + 1 <= acc.depth

\* The calls made by a call end as they should.
Answered(graph, g, w) ==
    \A u \in Calls(DOMAIN graph) :
       u[2] = PathOf(w) /\ u[1] \notin PathOf(w) /\ Starts(graph, u) => Ends(graph, u, g[u])

\* One module more is remembered soundly.
LEMMA SoundOneMore ==
    ASSUME NEW graph, GraphFits(graph), NEW cache, SoundCache(graph, cache),
           NEW m \in DOMAIN graph, cache[m] < 0, NEW d \in Int, d >= 0,
           Deepest(graph, cache, m, d),
           Gate!Acyclic(graph) =>
              \A t \in Gate!Targets(graph, m) \ {m} : cache[t] >= 0 /\ cache[t] + 1 <= d
    PROVE  SoundCache(graph, [cache EXCEPT ![m] = d])
<1> DEFINE D == DOMAIN graph
           new == [cache EXCEPT ![m] = d]
<1>1. /\ cache \in [D -> Int] /\ new \in [D -> Int] /\ new[m] = d
      /\ \A x \in D : x # m => new[x] = cache[x]
  BY DEF SoundCache
<1> HIDE DEF new
<1>2. \A x \in D : cache[x] >= 0 => new[x] = cache[x] /\ x # m
  <2> SUFFICES ASSUME NEW x \in D, cache[x] >= 0 PROVE x # m
    BY <1>1, Zenon
  <2>1. cache[x] \in Int /\ cache[m] \in Int
    BY <1>1
  <2> QED BY <2>1
<1>3. ASSUME NEW x \in D, new[x] >= 0, x # m
      PROVE  \E n, c : /\ IsChain(graph, c, n) /\ c[1] = x /\ n = new[x] + 1
                       /\ \A i \in 1..n : new[c[i]] >= 0
  <2>1. cache[x] >= 0 /\ new[x] = cache[x]
    BY <1>1, <1>3, Zenon
  <2>2. PICK n, c : /\ IsChain(graph, c, n) /\ c[1] = x /\ n = cache[x] + 1
                    /\ \A i \in 1..n : cache[c[i]] >= 0
    BY <2>1, Zenon DEF SoundCache, Backed
  <2>3. \A i \in 1..n : c[i] \in D
    BY <2>2, Zenon DEF IsChain
  <2>4. \A i \in 1..n : new[c[i]] >= 0
    BY <1>2, <2>2, <2>3, Zenon
  <2> QED BY <2>1, <2>2, <2>4, Zenon
<1>4. \E n, c : /\ IsChain(graph, c, n) /\ c[1] = m /\ n = d + 1
                /\ \A i \in 1..n : new[c[i]] >= 0
  <2>1. CASE d = 0
    <3>1. PICK c : IsChain(graph, c, 1) /\ c[1] = m
      BY ChainOfOne, Zenon
    <3>2. d + 1 = 1 /\ \A i \in 1..1 : i = 1
      BY <2>1
    <3> QED BY <1>1, <3>1, <3>2, Zenon
  <2>2. CASE d # 0
    <3>1. PICK t \in Gate!Targets(graph, m) : cache[t] >= 0 /\ cache[t] + 1 = d
      BY <2>2, Zenon DEF Deepest
    <3>2. t \in D /\ cache[t] \in Int
      BY <1>1, <3>1, TargetsAre, Zenon
    <3>3. PICK n, c : /\ IsChain(graph, c, n) /\ c[1] = t /\ n = cache[t] + 1
                      /\ \A i \in 1..n : cache[c[i]] >= 0
      BY <3>1, <3>2, Zenon DEF SoundCache, Backed
    <3>4. \A i \in 1..n : c[i] \in D /\ c[i] # m /\ new[c[i]] >= 0
      BY <1>2, <3>3, Zenon DEF IsChain
    <3>5. \A i \in 1..n : c[i] # m
      BY <3>4, Zenon
    <3>6. IsChain(graph, c, n) /\ c[1] \in Gate!Targets(graph, m)
      BY <3>1, <3>3, Zenon
    <3>7. PICK e : /\ IsChain(graph, e, n + 1) /\ e[1] = m
                   /\ \A i \in 1..(n + 1) : e[i] = m \/ \E j \in 1..n : e[i] = c[j]
      <4> HIDE <3>3
      <4> QED BY <3>5, <3>6, ChainInFront
    <3>8. n + 1 = d + 1
      BY <3>1, <3>2, <3>3
    <3>9. \A i \in 1..(n + 1) : new[e[i]] >= 0
      BY <1>1, <3>4, <3>7, Zenon
    <3> QED BY <3>7, <3>8, <3>9, Zenon
  <2> QED BY <2>1, <2>2, Zenon
<1>5. Backed(graph, new)
  <2> SUFFICES ASSUME NEW x \in D, new[x] >= 0
               PROVE  \E n, c : /\ IsChain(graph, c, n) /\ c[1] = x /\ n = new[x] + 1
                                /\ \A i \in 1..n : new[c[i]] >= 0
    BY Zenon DEF Backed
  <2>1. CASE x = m
    BY <1>1, <1>4, <2>1, Zenon
  <2> QED BY <1>3, <2>1, Zenon
<1>6. ASSUME Gate!Acyclic(graph), NEW x \in D, new[x] >= 0, NEW n, NEW c, IsChain(graph, c, n), c[1] = x
      PROVE  n <= new[x] + 1
  <2>1. CASE x # m
    BY <1>1, <1>6, <2>1, Zenon DEF SoundCache, Exact
  <2>2. CASE x = m
    <3>1. n \in Nat \ {0}
      BY <1>6, Zenon DEF IsChain
    <3>2. CASE n = 1
      BY <1>1, <2>2, <3>2
    <3>3. CASE n # 1
      <4>1. 2 \in 1..n /\ 1 \in 1..n /\ 2 \in 2..n /\ 2 - 1 = 1 /\ 2 # 1
        BY <3>1, <3>3
      <4>2. c[2] \in Gate!Targets(graph, m) /\ c[2] # m
        BY <1>6, <2>2, <4>1, Zenon DEF IsChain
      <4>3. cache[c[2]] >= 0 /\ cache[c[2]] + 1 <= d /\ c[2] \in D
        BY <1>6, <4>2, TargetsAre, Zenon
      <4>4. PICK e : IsChain(graph, e, n - 2 + 1) /\ e[1] = c[2] /\ e[n - 2 + 1] = c[n]
        BY <1>6, <4>1, ChainFrom
      <4>5. IsChain(graph, e, n - 2 + 1) /\ e[1] = c[2]
        BY <4>4
      <4>6. n - 2 + 1 <= cache[c[2]] + 1
        <5> DEFINE k == n - 2 + 1
        <5>1. IsChain(graph, e, k)
          BY <4>5
        <5> HIDE DEF k
        <5>2. k <= cache[c[2]] + 1
          BY <1>6, <4>3, <4>5, <5>1, Zenon DEF SoundCache, Exact
        <5> QED BY <5>2 DEF k
      <4>7. cache[c[2]] \in Int
        BY <1>1, <4>3
      <4> QED BY <1>1, <2>2, <3>1, <4>3, <4>6, <4>7
    <3> QED BY <3>2, <3>3
  <2> QED BY <2>1, <2>2
<1>7. Exact(graph, new)
  BY <1>6, Zenon DEF Exact
<1> QED BY <1>1, <1>5, <1>7, Zenon DEF SoundCache, new

\* A visit that follows no import gathers what there was.
LEMMA VisitSkips ==
    ASSUME NEW graph, NEW w, NEW acc, NEW i \in Nat \ {0}, Gathered(graph, w, acc, i - 1),
           Resolved(graph, graph[w[1]][i]) \notin (DOMAIN graph) \ PathOf(w)
    PROVE  Gathered(graph, w, acc, i)
<1>1. \A j \in 1..i : j \in 1..(i - 1) \/ j = i
  OBVIOUS
<1> QED BY <1>1, Zenon DEF Gathered

\* What the call of a visit starts from.
LEMMA VisitStarts ==
    ASSUME NEW graph, GraphFits(graph), NEW w, Starts(graph, w),
           NEW i, NEW acc, Gathered(graph, w, acc, i),
           NEW t \in (DOMAIN graph) \ PathOf(w), t \in Gate!Targets(graph, w[1])
    PROVE  Starts(graph, <<t, PathOf(w), acc.cache>>) /\ <<t, PathOf(w), acc.cache>> \in Calls(DOMAIN graph)
<1> DEFINE path == PathOf(w)
           cache == acc.cache
           u == <<t, path, cache>>
<1>1. u[1] = t /\ u[2] = path /\ u[3] = cache
  OBVIOUS
<1>2. path \in SUBSET DOMAIN graph
  <2>1. w \in Calls(DOMAIN graph)
    BY Zenon DEF Starts
  <2> QED BY <2>1 DEF PathOf, Calls
<1>3. cache \in [DOMAIN graph -> Int] /\ SoundCache(graph, cache) /\ \A p \in path : cache[p] < 0
  BY Zenon DEF Gathered, SoundCache
<1>4. u \in Calls(DOMAIN graph)
  BY <1>2, <1>3, Zenon DEF Calls
<1>5. OnChain(graph, path, t)
  <2> DEFINE m == w[1]
             above == w[2]
  <2>1. OnChain(graph, above, m) /\ t \in DOMAIN graph /\ t \notin above \union {m} /\ t \in Gate!Targets(graph, m)
    BY Zenon DEF Starts, PathOf
  <2> HIDE DEF m, above
  <2>2. OnChain(graph, above \union {m}, t)
    BY <2>1, PathGoesOn, Zenon
  <2> QED BY <2>2, Zenon DEF m, above, PathOf
<1>6. t \notin path
  OBVIOUS
<1> HIDE DEF u, path, cache
<1>7. Starts(graph, u)
  BY <1>1, <1>3, <1>4, <1>5, <1>6, Zenon DEF Starts
<1> QED BY <1>4, <1>7, Zenon DEF u, path, cache

\* A visit that calls gathers what the call returns.
LEMMA VisitCalls ==
    ASSUME NEW graph, GraphFits(graph), NEW w, w[1] \in DOMAIN graph,
           NEW i \in Nat \ {0}, NEW acc, Gathered(graph, w, acc, i - 1),
           NEW t \in (DOMAIN graph) \ PathOf(w), t \in Gate!Targets(graph, w[1]),
           t = Resolved(graph, graph[w[1]][i]),
           NEW child, Ends(graph, <<t, PathOf(w), acc.cache>>, child)
    PROVE  Gathered(graph, w, [depth |-> Gate!Max({acc.depth, child.depth + 1}), cache |-> child.cache], i)
<1> DEFINE D == DOMAIN graph
           path == PathOf(w)
           d == Gate!Max({acc.depth, child.depth + 1})
           e == child.cache
           c == acc.cache
           new == [depth |-> d, cache |-> e]
<1>1. /\ acc.depth \in Int /\ acc.depth >= 0 /\ c \in [D -> Int]
      /\ \A x \in D : w[3][x] >= 0 => c[x] = w[3][x]
      /\ Deepest(graph, c, w[1], acc.depth)
      /\ \A j \in 1..(i - 1) : Resolved(graph, graph[w[1]][j]) \in D \ path =>
            /\ c[Resolved(graph, graph[w[1]][j])] >= 0
            /\ c[Resolved(graph, graph[w[1]][j])] + 1 <= acc.depth
  BY Zenon DEF Gathered, Walks
<1>2. /\ child.depth \in Int /\ child.depth >= 0 /\ e \in [D -> Int] /\ SoundCache(graph, e)
      /\ e[t] = child.depth /\ \A p \in path : e[p] < 0
      /\ \A x \in D : c[x] >= 0 => e[x] = c[x]
  BY DEF Ends, Walks
<1>3. d \in Int /\ acc.depth <= d /\ child.depth + 1 <= d /\ (d = acc.depth \/ d = child.depth + 1)
  <2>1. child.depth + 1 \in Int
    BY <1>2
  <2>2. d = IF acc.depth >= child.depth + 1 THEN acc.depth ELSE child.depth + 1
    BY <1>1, <2>1, LargerOfTwo, Zenon
  <2> HIDE DEF d
  <2> QED BY <1>1, <1>2, <2>2
<1>4. new.depth = d /\ new.cache = e /\ new \in Walks(D)
  <2> HIDE DEF d, e
  <2> QED BY <1>2, <1>3, WalkMade, Zenon
<1> HIDE DEF d, e, c, new
<1>5. \A x \in D : w[3][x] >= 0 => e[x] = w[3][x]
  BY <1>1, <1>2, Zenon
<1>6. Deepest(graph, e, w[1], d)
  <2>1. CASE d = child.depth + 1
    <3>1. e[t] >= 0 /\ e[t] + 1 = d
      BY <1>2, <2>1, Zenon
    <3> QED BY <3>1, Zenon DEF Deepest
  <2>2. CASE d = acc.depth
    <3>1. CASE d = 0
      BY <3>1, Zenon DEF Deepest
    <3>2. CASE d # 0
      <4>1. PICK s \in Gate!Targets(graph, w[1]) : c[s] >= 0 /\ c[s] + 1 = d
        BY <1>1, <2>2, <3>2, Zenon DEF Deepest
      <4>2. s \in D
        BY <4>1, TargetsAre, Zenon
      <4>3. e[s] >= 0 /\ e[s] + 1 = d
        BY <1>2, <4>1, <4>2, Zenon
      <4> QED BY <4>3, Zenon DEF Deepest
    <3> QED BY <3>1, <3>2, Zenon
  <2> QED BY <1>3, <2>1, <2>2, Zenon
<1>7. ASSUME NEW j \in 1..i, NEW s, s = Resolved(graph, graph[w[1]][j]), s \in D \ path
      PROVE  e[s] >= 0 /\ e[s] + 1 <= d
  <2>1. CASE j = i
    <3>1. s = t
      BY <1>7, <2>1, Zenon
    <3> QED BY <1>2, <1>3, <3>1
  <2>2. CASE j # i
    <3>1. j \in 1..(i - 1)
      BY <2>2
    <3>2. c[s] >= 0 /\ c[s] + 1 <= acc.depth /\ s \in D
      BY <1>1, <1>7, <3>1, Zenon
    <3>3. e[s] = c[s]
      BY <1>2, <3>2, Zenon
    <3>4. c[s] \in Int
      BY <1>1, <3>2
    <3> QED BY <1>1, <1>3, <3>2, <3>3, <3>4
  <2> QED BY <2>1, <2>2
<1>8. d >= 0
  BY <1>1, <1>3
<1>9. Gathered(graph, w, new, i)
  BY <1>2, <1>4, <1>5, <1>6, <1>7, <1>8, Zenon DEF Gathered
<1> QED BY <1>9, Zenon DEF new, d, e

\* Every visit gathers.
LEMMA VisitGathers ==
    ASSUME NEW graph, GraphFits(graph), NEW w, Starts(graph, w), NEW g, Answered(graph, g, w),
           NEW i \in 1..Len(graph[w[1]]), NEW acc, Gathered(graph, w, acc, i - 1)
    PROVE  Gathered(graph, w, VisitBy(graph, g, PathOf(w), acc, graph[w[1]][i]), i)
<1> DEFINE D == DOMAIN graph
           name == graph[w[1]][i]
           t == Resolved(graph, name)
           path == PathOf(w)
           new == VisitBy(graph, g, path, acc, name)
<1>1. w[1] \in D
  <2>1. w \in Calls(D)
    BY Zenon DEF Starts
  <2> QED BY <2>1 DEF Calls
<1>2. Len(graph[w[1]]) \in Nat /\ t \in D \union {<< >>} /\ << >> \notin D
  BY <1>1, Zenon DEF GraphFits, Imported
<1>3. i \in Nat \ {0}
  BY <1>2
<1>4. CASE t \notin D \ path
  <2>1. t = << >> \/ t \in path
    BY <1>2, <1>4, Zenon
  <2>2. new = acc
    BY <2>1, Zenon DEF VisitBy, Resolved
  <2> QED BY <1>3, <1>4, <2>2, VisitSkips, Zenon
<1>5. CASE t \in D \ path
  <2> DEFINE u == <<t, path, acc.cache>>
  <2>1. t \in Gate!Targets(graph, w[1])
    BY <1>1, <1>5, TargetsAre, Zenon
  <2>2. Starts(graph, u) /\ u \in Calls(D)
    BY <1>5, <2>1, VisitStarts, Zenon
  <2>3. u[1] = t /\ u[2] = path
    OBVIOUS
  <2>4. Ends(graph, u, g[u])
    <3> HIDE DEF u
    <3> QED BY <1>5, <2>2, <2>3, Zenon DEF Answered
  <2>5. new = [depth |-> Gate!Max({acc.depth, g[u].depth + 1}), cache |-> g[u].cache]
    BY <1>2, <1>5, Zenon DEF VisitBy, Resolved
  <2> DEFINE child == g[u]
  <2>6. Ends(graph, <<t, path, acc.cache>>, child)
    BY <2>4
  <2> HIDE DEF child, path, t
  <2>7. Gathered(graph, w, [depth |-> Gate!Max({acc.depth, child.depth + 1}), cache |-> child.cache], i)
    BY <1>1, <1>3, <1>5, <2>1, <2>6, VisitCalls, Zenon DEF t, path
  <2>8. Gathered(graph, w, new, i)
    BY <2>5, <2>7, Zenon DEF child, t, path
  <2> QED BY <2>8, Zenon DEF path
<1> QED BY <1>4, <1>5, Zenon

\* So do all of them, one after the other.
LEMMA RunGathers ==
    ASSUME NEW graph, GraphFits(graph), NEW w, Starts(graph, w), NEW g, Answered(graph, g, w),
           w[3][w[1]] < 0, NEW r, RunOf(graph, g, w, r)
    PROVE  Gathered(graph, w, r[Len(graph[w[1]])], Len(graph[w[1]]))
<1> DEFINE D == DOMAIN graph
           n == Len(graph[w[1]])
           Bad == {k \in 0..n : ~Gathered(graph, w, r[k], k)}
<1>1. w[1] \in D /\ w[2] \in SUBSET D /\ w[3] \in [D -> Int]
  <2>1. w \in Calls(D)
    BY Zenon DEF Starts
  <2> QED BY <2>1 DEF Calls
<1>2. n \in Nat
  BY <1>1, Zenon DEF GraphFits, Imported
<1>3. Gathered(graph, w, r[0], 0)
  <2>1. r[0] = [depth |-> 0, cache |-> w[3]]
    BY Zenon DEF RunOf
  <2>2. r[0].depth = 0 /\ r[0].cache = w[3] /\ 0 \in Int /\ 0 >= 0 /\ 1..0 = {}
    BY <2>1
  <2>3. r[0] \in Walks(D)
    <3> DEFINE c == w[3]
               v == [depth |-> 0, cache |-> c]
    <3>1. c \in [D -> Int]
      BY <1>1, Zenon
    <3> HIDE DEF c, D
    <3>2. v \in Walks(D)
      <4>1. 0 \in Int
        OBVIOUS
      <4> QED BY <3>1, <4>1, WalkMade, Zenon
    <3> HIDE DEF v
    <3>3. r[0] = v
      BY <2>1, Zenon DEF v, c
    <3> QED BY <3>2, <3>3, Zenon
  <2>4. \A p \in PathOf(w) : w[3][p] < 0
    BY Zenon DEF Starts, PathOf
  <2>5. SoundCache(graph, w[3]) /\ Deepest(graph, w[3], w[1], 0)
    BY Zenon DEF Starts, Deepest
  <2> QED BY <2>2, <2>3, <2>4, <2>5, Zenon DEF Gathered
<1>4. \A i \in 1..n : Gathered(graph, w, r[i - 1], i - 1) => Gathered(graph, w, r[i], i)
  <2> SUFFICES ASSUME NEW i \in 1..n, Gathered(graph, w, r[i - 1], i - 1) PROVE Gathered(graph, w, r[i], i)
    OBVIOUS
  <2>1. r[i] = VisitBy(graph, g, PathOf(w), r[i - 1], graph[w[1]][i])
    BY Zenon DEF RunOf
  <2> DEFINE acc == r[i - 1]
  <2>2. Gathered(graph, w, acc, i - 1)
    OBVIOUS
  <2> HIDE DEF acc
  <2>3. Gathered(graph, w, VisitBy(graph, g, PathOf(w), acc, graph[w[1]][i]), i)
    BY <2>2, VisitGathers, Zenon
  <2> QED BY <2>1, <2>3, Zenon DEF acc
<1>5. Bad = {}
  <2> SUFFICES ASSUME Bad # {} PROVE FALSE
    OBVIOUS
  <2> HIDE DEF n
  <2>1. Bad \in SUBSET Nat
    BY <1>2
  <2>2. PICK k \in Bad : \A j \in Bad : k <= j
    <3> HIDE DEF Bad
    <3> QED BY <2>1, NatMin
  <2>3. k \in 0..n /\ k # 0 /\ ~Gathered(graph, w, r[k], k)
    BY <1>3, <2>2, Zenon
  <2>4. k \in 1..n /\ k - 1 \in 0..n /\ ~(k <= k - 1)
    BY <1>2, <2>3
  <2>5. Gathered(graph, w, r[k - 1], k - 1)
    BY <2>2, <2>4, Zenon
  <2> QED BY <1>4, <2>3, <2>4, <2>5, Zenon
<1>6. n \in 0..n
  BY <1>2
<1> HIDE DEF n
<1> QED BY <1>5, <1>6, Zenon DEF n

\* What has been gathered at the end is what a call should leave.
LEMMA GatheredEnds ==
    ASSUME NEW graph, GraphFits(graph), NEW w, Starts(graph, w), w[3][w[1]] < 0,
           NEW all, Gathered(graph, w, all, Len(graph[w[1]]))
    PROVE  Ends(graph, w, [depth |-> all.depth, cache |-> [all.cache EXCEPT ![w[1]] = all.depth]])
<1> DEFINE D == DOMAIN graph
           m == w[1]
           d == all.depth
           c == all.cache
           e == [c EXCEPT ![m] = d]
           n == Len(graph[m])
<1>1. /\ m \in D /\ w[2] \in SUBSET D /\ w[3] \in [D -> Int] /\ m \notin w[2]
      /\ OnChain(graph, w[2], m)
  <2>1. w \in Calls(D) /\ w[1] \notin w[2] /\ OnChain(graph, w[2], w[1])
    BY Zenon DEF Starts
  <2> QED BY <2>1 DEF Calls
<1>2. /\ d \in Int /\ d >= 0 /\ c \in [D -> Int] /\ SoundCache(graph, c)
      /\ \A x \in D : w[3][x] >= 0 => c[x] = w[3][x]
      /\ \A p \in w[2] : c[p] < 0
      /\ c[m] < 0
      /\ Deepest(graph, c, m, d)
  BY Zenon DEF Gathered, Walks, PathOf
<1>3. \A j \in 1..n : Resolved(graph, graph[m][j]) \in D \ PathOf(w) =>
            /\ c[Resolved(graph, graph[m][j])] >= 0
            /\ c[Resolved(graph, graph[m][j])] + 1 <= d
  BY Zenon DEF Gathered
<1> HIDE DEF d, c
<1>4. ASSUME Gate!Acyclic(graph), NEW t \in Gate!Targets(graph, m) \ {m} PROVE c[t] >= 0 /\ c[t] + 1 <= d
  <2> DEFINE above == w[2]
  <2>1. t \in D /\ \E j \in 1..n : t = Resolved(graph, graph[m][j])
    <3>1. t \in Gate!Targets(graph, m) /\ m \in D
      BY <1>1, <1>4, Zenon
    <3> HIDE DEF m
    <3> QED BY <3>1, TargetsAre
  <2>2. t \notin PathOf(w)
    <3>1. PathOf(w) = above \union {m}
      BY Zenon DEF PathOf
    <3>2. OnChain(graph, above, m) /\ t \in Gate!Targets(graph, m) /\ t # m
      BY <1>1, <1>4, Zenon
    <3> HIDE DEF above, m
    <3>3. t \notin above \union {m}
      BY <1>4, <3>2, NoWayUp, Zenon
    <3> QED BY <3>1, <3>3, Zenon
  <2> QED BY <1>3, <2>1, <2>2, Zenon
<1> HIDE DEF m, n
<1>5. SoundCache(graph, e)
  <2>1. Gate!Acyclic(graph) => \A t \in Gate!Targets(graph, m) \ {m} : c[t] >= 0 /\ c[t] + 1 <= d
    BY <1>4, Zenon
  <2> QED BY <1>1, <1>2, <2>1, SoundOneMore, Zenon
<1>6. e \in [D -> Int] /\ e[m] = d /\ \A x \in D : x # m => e[x] = c[x]
  BY <1>1, <1>2
<1> HIDE DEF e
<1>7. \A x \in D : w[3][x] >= 0 => e[x] = w[3][x]
  <2> SUFFICES ASSUME NEW x \in D, w[3][x] >= 0 PROVE e[x] = w[3][x]
    OBVIOUS
  <2>1. w[3][x] \in Int /\ w[3][m] \in Int /\ w[3][m] < 0
    BY <1>1 DEF m
  <2>2. x # m
    BY <2>1
  <2> QED BY <1>2, <1>6, <2>2, Zenon
<1>8. \A p \in w[2] : e[p] < 0
  BY <1>1, <1>2, <1>6, Zenon
<1> DEFINE new == [depth |-> d, cache |-> e]
<1>9. new.depth = d /\ new.cache = e /\ new \in Walks(D)
  BY <1>2, <1>6, WalkMade, Zenon
<1> HIDE DEF new
<1>10. new.cache[w[1]] = new.depth /\ new.depth >= 0
  BY <1>2, <1>6, <1>9, Zenon DEF m
<1>11. Ends(graph, w, new)
  BY <1>5, <1>7, <1>8, <1>9, <1>10, Zenon DEF Ends
<1> QED BY <1>11, Zenon DEF new, e, c, d, m

\* A call ends as it should if those it makes do.
LEMMA CallEnds ==
    ASSUME NEW graph, GraphFits(graph), NEW g, WalkOf(graph, g), NEW w, Starts(graph, w), Answered(graph, g, w)
    PROVE  Ends(graph, w, g[w])
<1> DEFINE D == DOMAIN graph
<1>1. w \in Calls(D) /\ w[1] \in D /\ w[2] \in SUBSET D /\ w[3] \in [D -> Int] /\ w[3][w[1]] \in Int
  <2>1. w \in Calls(D)
    BY Zenon DEF Starts
  <2> QED BY <2>1 DEF Calls
<1>2. g[w] = BodyBy(graph, g, w)
  BY <1>1, Zenon DEF WalkOf
<1>3. CASE w[3][w[1]] >= 0
  <2> DEFINE d == w[3][w[1]]
             c == w[3]
  <2>1. g[w] = [depth |-> d, cache |-> c]
    BY <1>2, <1>3, Zenon DEF BodyBy
  <2>2. /\ SoundCache(graph, c) /\ \A p \in w[2] : c[p] < 0
        /\ \A x \in D : w[3][x] >= 0 => c[x] = w[3][x]
        /\ d >= 0 /\ d \in Int /\ c \in [D -> Int] /\ c[w[1]] = d
    BY <1>1, <1>3, Zenon DEF Starts
  <2> HIDE DEF d, c
  <2>3. g[w].depth = d /\ g[w].cache = c /\ g[w] \in Walks(D)
    <3>1. [depth |-> d, cache |-> c] \in Walks(D)
      BY <2>2, WalkMade, Zenon
    <3> QED BY <2>1, <3>1
  <2> QED BY <2>2, <2>3, Zenon DEF Ends
<1>4. CASE ~(w[3][w[1]] >= 0)
  <2>1. w[3][w[1]] < 0
    BY <1>1, <1>4
  <2>2. Answers(graph, g, PathOf(w))
    BY <1>1, CallsFollow, Zenon DEF Answers, WalkOf
  <2>3. PICK r : RunOf(graph, g, w, r) /\ AllBy(graph, g, w) = r[Len(graph[w[1]])]
    BY <1>1, <2>2, AllRuns, Zenon
  <2> DEFINE all == AllBy(graph, g, w)
  <2>4. Gathered(graph, w, all, Len(graph[w[1]]))
    BY <2>1, <2>3, RunGathers, Zenon
  <2>5. g[w] = [depth |-> all.depth, cache |-> [all.cache EXCEPT ![w[1]] = all.depth]]
    BY <1>2, <1>4, Zenon DEF BodyBy
  <2> HIDE DEF all
  <2>6. Ends(graph, w, [depth |-> all.depth, cache |-> [all.cache EXCEPT ![w[1]] = all.depth]])
    BY <2>1, <2>4, GatheredEnds, Zenon
  <2> QED BY <2>5, <2>6, Zenon
<1> QED BY <1>3, <1>4, Zenon

\* Hence every call does, by the number of modules off its path.
LEMMA CallsEnd ==
    ASSUME NEW graph, GraphFits(graph), NEW g, WalkOf(graph, g), NEW w, Starts(graph, w)
    PROVE  Ends(graph, w, g[w])
<1> DEFINE C == Calls(DOMAIN graph)
           Bad == {k \in Nat : \E u \in C : OffPath(graph, u) = k /\ Starts(graph, u) /\ ~Ends(graph, u, g[u])}
<1>1. Bad = {}
  <2> SUFFICES ASSUME Bad # {} PROVE FALSE
    OBVIOUS
  <2>1. Bad \in SUBSET Nat
    OBVIOUS
  <2>2. PICK k \in Bad : \A j \in Bad : k <= j
    <3> HIDE DEF Bad
    <3> QED BY <2>1, NatMin
  <2>3. PICK v \in C : OffPath(graph, v) = k /\ Starts(graph, v) /\ ~Ends(graph, v, g[v])
    BY <2>2, Zenon
  <2>4. ASSUME NEW u \in C, u[2] = PathOf(v), u[1] \notin PathOf(v), Starts(graph, u)
        PROVE  Ends(graph, u, g[u])
    <3>1. u = <<u[1], PathOf(v), u[3]>> /\ u[1] \in (DOMAIN graph) \ PathOf(v) /\ u[3] \in [DOMAIN graph -> Int]
      BY <2>4 DEF Calls
    <3> DEFINE m == u[1]
               c == u[3]
    <3>2. u = <<m, PathOf(v), c>> /\ m \in (DOMAIN graph) \ PathOf(v) /\ c \in [DOMAIN graph -> Int]
      BY <3>1
    <3> HIDE DEF m, c
    <3>3. /\ OffPath(graph, <<m, PathOf(v), c>>) \in Nat /\ OffPath(graph, v) \in Nat
          /\ OffPath(graph, <<m, PathOf(v), c>>) < OffPath(graph, v)
      BY <3>2, CallsFollow, Zenon
    <3>4. OffPath(graph, u) \in Nat /\ OffPath(graph, u) < OffPath(graph, v)
      BY <3>2, <3>3, Zenon
    <3>5. OffPath(graph, u) \in Nat /\ ~(k <= OffPath(graph, u))
      BY <2>3, <3>3, <3>4
    <3> QED BY <2>2, <2>4, <3>5, Zenon
  <2>5. Answered(graph, g, v)
    BY <2>4, Zenon DEF Answered
  <2> QED BY <2>3, <2>5, CallEnds, Zenon
<1>2. w \in C
  BY Zenon DEF Starts
<1> QED BY <1>1, <1>2, OffPathCounted, Zenon

\* What the walk from a module leaves.
Left(graph, m, found, walk) ==
    /\ walk \in Walks(DOMAIN graph) /\ SoundCache(graph, walk.cache)
    /\ walk.depth >= 0 /\ walk.cache[m] = walk.depth
    /\ \A x \in DOMAIN graph : found[x] >= 0 => walk.cache[x] = found[x]

\* The walk from a module, with nothing behind it.
LEMMA WalkEnds ==
    ASSUME NEW graph, GraphFits(graph), NEW m \in DOMAIN graph, NEW found, SoundCache(graph, found)
    PROVE  Left(graph, m, found, Gate!_dfs(graph, m, found))
<1> DEFINE u == <<m, {}, found>>
<1>1. PICK g : WalkOf(graph, g)
  BY WalkFound, Zenon
<1>2. Gate!_dfs(graph, m, found) = g[u]
  BY <1>1, Zenon DEF WalkOf
<1>3. u[1] = m /\ u[2] = {} /\ u[3] = found
  OBVIOUS
<1>4. u \in Calls(DOMAIN graph)
  <2>1. {} \in SUBSET DOMAIN graph /\ found \in [DOMAIN graph -> Int]
    BY Zenon DEF SoundCache
  <2> QED BY <2>1, Zenon DEF Calls
<1>5. OnChain(graph, {}, m)
  <2>1. PICK c : IsChain(graph, c, 1) /\ c[1] = m /\ {c[i] : i \in 1..1} = {m}
    BY ChainOfOne
  <2> SUFFICES \E n, e : IsChain(graph, e, n) /\ e[n] = m /\ {} \union {m} = {e[i] : i \in 1..n}
    BY DEF OnChain
  <2> WITNESS 1, c
  <2> QED BY <2>1
<1> HIDE DEF u
<1>6. Starts(graph, u)
  BY <1>3, <1>4, <1>5, Zenon DEF Starts
<1>7. Ends(graph, u, g[u])
  BY <1>1, <1>6, CallsEnd, Zenon
<1> QED BY <1>2, <1>3, <1>7, Zenon DEF Ends, Left

\* Numbers up to n have a largest one.
LEMMA LargestIsIn ==
    ASSUME NEW n \in Nat, NEW S \in SUBSET (0..n), S # {}
    PROVE  \E x \in S : \A y \in S : x >= y
<1> DEFINE T == {n - x : x \in S}
<1>1. T \in SUBSET Nat /\ T # {}
  <2>1. \A x \in S : n - x \in Nat
    OBVIOUS
  <2> QED BY <2>1, Zenon
<1>2. PICK m \in T : \A y \in T : m <= y
  <2> HIDE DEF T
  <2> QED BY <1>1, NatMin
<1>3. PICK x \in S : m = n - x
  OBVIOUS
<1>4. \A y \in S : n - x <= n - y
  BY <1>2, <1>3
<1>5. \A y \in S : x >= y
  BY <1>4
<1> QED BY <1>5

\* A name is resolved to a module that it starts with, or to none.
LEMMA ResolvedInside ==
    ASSUME NEW graph, DOMAIN graph \subseteq Seq(STRING) \ {<< >>}, NEW name \in Seq(STRING)
    PROVE  Resolved(graph, name) \in (DOMAIN graph) \union {<< >>}
<1> DEFINE known == {m \in DOMAIN graph : Gate!IsPrefix(m, name)}
           Lengths == {Len(m) : m \in known}
           n == Len(name)
<1>1. \A m \in known : Len(m) \in Nat /\ Len(m) <= n
  BY DEF Gate!IsPrefix
<1>2. n \in Nat
  OBVIOUS
<1>3. CASE known = {}
  BY <1>3, Zenon DEF Resolved, Gate!_resolve_to_graph
<1>4. CASE known # {}
  <2>1. Lengths \in SUBSET (0..n) /\ Lengths # {}
    <3> HIDE DEF known, n
    <3>1. \A m \in known : Len(m) \in 0..n
      BY <1>1, <1>2
    <3> QED BY <1>4, <3>1, Zenon
  <2>2. PICK l \in Lengths : \A k \in Lengths : l >= k
    <3> HIDE DEF Lengths, n
    <3> QED BY <1>2, <2>1, LargestIsIn
  <2>3. PICK m \in known : l = Len(m)
    BY Zenon
  <2>4. \A k \in known : Len(k) <= Len(m)
    <3> HIDE DEF known, n
    <3> QED BY <1>1, <2>2, <2>3
  <2> HIDE DEF known
  <2>5. (CHOOSE x \in known : \A k \in known : Len(k) <= Len(x)) \in known
    BY <2>3, <2>4, Zenon
  <2>6. Resolved(graph, name) \in known
    BY <1>4, <2>5, Zenon DEF Resolved, Gate!_resolve_to_graph, known
  <2> QED BY <2>6, Zenon DEF known
<1> QED BY <1>3, <1>4, Zenon

\* The measurement from one module after the other.
MeasureFrom(graph, acc, module) ==
    LET walk == Gate!_dfs(graph, module, acc.cache) IN
    [depth |-> Gate!Max({acc.depth, walk.depth}), cache |-> walk.cache]

Measures(iter, graph, order, n) ==
    iter = [x \in SUBSET (1..n) |->
              IF x = {} THEN [depth |-> 0, cache |-> Gate!NoCache(graph)]
              ELSE MeasureFrom(graph, iter[x \ {Max(x)}], order[Max(x)])]

\* One step returns a walk.
LEMMA MeasureTyped ==
    ASSUME NEW graph, GraphFits(graph), NEW acc \in Walks(DOMAIN graph), NEW m \in DOMAIN graph
    PROVE  MeasureFrom(graph, acc, m) \in Walks(DOMAIN graph)
<1> DEFINE D == DOMAIN graph
           c == acc.cache
           walk == Gate!_dfs(graph, m, c)
           u == <<m, {}, c>>
<1>1. acc.depth \in Int /\ c \in [D -> Int]
  BY DEF Walks
<1>2. PICK g : WalkOf(graph, g)
  BY WalkFound, Zenon
<1>3. {} \in SUBSET D
  OBVIOUS
<1>4. u \in Calls(D)
  BY <1>1, <1>3, Zenon DEF Calls
<1>5. walk = g[u] /\ g[u] \in Walks(D)
  BY <1>2, <1>4, Zenon DEF WalkOf
<1> HIDE DEF u, walk, c
<1>6. walk.depth \in Int /\ walk.cache \in [D -> Int]
  BY <1>5, Zenon DEF Walks
<1> DEFINE d == Gate!Max({acc.depth, walk.depth})
<1>7. d \in Int
  <2>1. d = IF acc.depth >= walk.depth THEN acc.depth ELSE walk.depth
    BY <1>1, <1>6, LargerOfTwo, Zenon
  <2> HIDE DEF d
  <2> QED BY <1>1, <1>6, <2>1
<1>8. MeasureFrom(graph, acc, m) = [depth |-> d, cache |-> walk.cache]
  BY Zenon DEF MeasureFrom, walk, c
<1> HIDE DEF d
<1> QED BY <1>6, <1>7, <1>8, WalkMade, Zenon

\* The fold that measures the depth exists.
LEMMA MeasuresExist ==
    ASSUME NEW graph, GraphFits(graph), NEW n \in Nat, NEW order \in [1..n -> DOMAIN graph]
    PROVE  \E iter : Measures(iter, graph, order, n)
<1> DEFINE V == Walks(DOMAIN graph)
           v == [depth |-> 0, cache |-> Gate!NoCache(graph)]
           f == [u \in V \X (1..n) |-> MeasureFrom(graph, u[1], order[u[2]])]
<1>1. v \in V
  <2>1. 0 \in Int /\ Gate!NoCache(graph) \in [DOMAIN graph -> Int]
    BY DEF Gate!NoCache
  <2> QED BY <2>1, WalkMade, Zenon
<1>2. ASSUME NEW a \in V, NEW i \in 1..n PROVE MeasureFrom(graph, a, order[i]) \in V
  BY MeasureTyped, Zenon
<1> HIDE DEF v, V
<1>3. f \in [V \X (1..n) -> V] /\ \A a \in V, i \in 1..n : f[<<a, i>>] = MeasureFrom(graph, a, order[i])
  <2>1. \A u \in V \X (1..n) : u[1] \in V /\ u[2] \in 1..n
    OBVIOUS
  <2>2. f \in [V \X (1..n) -> V]
    BY <1>2, <2>1
  <2> QED BY <2>2
<1> HIDE DEF f
<1>4. PICK iter : Folds(iter, f, v, n) /\ \A x \in SUBSET (1..n) : iter[x] \in V
  BY <1>1, <1>3, FoldsExist, Zenon
<1>5. \A x \in SUBSET (1..n) : x # {} => Max(x) \in 1..n /\ x \ {Max(x)} \in SUBSET (1..n)
  BY MaxIsIn, Zenon
<1>6. \A x \in SUBSET (1..n) : x # {} =>
         f[<<iter[x \ {Max(x)}], Max(x)>>] = MeasureFrom(graph, iter[x \ {Max(x)}], order[Max(x)])
  BY <1>3, <1>4, <1>5, Zenon
<1>7. Measures(iter, graph, order, n)
  BY <1>4, <1>6, Zenon DEF Folds, Measures, v
<1> QED BY <1>7

\* What has been measured after the first i modules.
Measured(graph, order, acc, i) ==
    /\ acc \in Walks(DOMAIN graph) /\ SoundCache(graph, acc.cache) /\ acc.depth >= 0
    /\ acc.depth = 0 \/ \E m \in DOMAIN graph : acc.cache[m] = acc.depth
    /\ \A j \in 1..i : acc.cache[order[j]] >= 0 /\ acc.cache[order[j]] <= acc.depth

\* What holds of the measure holds after one more module.
LEMMA MeasuredOneMore ==
    ASSUME NEW graph, GraphFits(graph), NEW n \in Nat, NEW order \in [1..n -> DOMAIN graph],
           NEW i \in 1..n, NEW acc, Measured(graph, order, acc, i - 1)
    PROVE  Measured(graph, order, MeasureFrom(graph, acc, order[i]), i)
<1> DEFINE D == DOMAIN graph
           m == order[i]
           c == acc.cache
           walk == Gate!_dfs(graph, m, c)
           e == walk.cache
           d == Gate!Max({acc.depth, walk.depth})
           new == [depth |-> d, cache |-> e]
<1>1. /\ acc.depth \in Int /\ acc.depth >= 0 /\ c \in [D -> Int] /\ SoundCache(graph, c)
      /\ acc.depth = 0 \/ \E x \in D : c[x] = acc.depth
      /\ \A j \in 1..(i - 1) : c[order[j]] >= 0 /\ c[order[j]] <= acc.depth
  BY Zenon DEF Measured, Walks
<1>2. m \in D
  OBVIOUS
<1> HIDE DEF c, m
<1>3. /\ walk \in Walks(D) /\ SoundCache(graph, e)
      /\ walk.depth >= 0 /\ e[m] = walk.depth
      /\ \A x \in D : c[x] >= 0 => e[x] = c[x]
  <2>1. Left(graph, m, c, walk)
    BY <1>1, <1>2, WalkEnds, Zenon
  <2> QED BY <2>1, Zenon DEF Left
<1> HIDE DEF walk
<1>4. walk.depth \in Int /\ e \in [D -> Int]
  BY <1>3, Zenon DEF Walks
<1>5. d \in Int /\ acc.depth <= d /\ walk.depth <= d /\ (d = acc.depth \/ d = walk.depth) /\ d >= 0
  <2>1. d = IF acc.depth >= walk.depth THEN acc.depth ELSE walk.depth
    BY <1>1, <1>4, LargerOfTwo, Zenon
  <2> HIDE DEF d
  <2> QED BY <1>1, <1>3, <1>4, <2>1
<1> HIDE DEF d, e
<1>6. new.depth = d /\ new.cache = e /\ new \in Walks(D)
  BY <1>4, <1>5, WalkMade, Zenon
<1> HIDE DEF new
<1>7. d = 0 \/ \E x \in D : e[x] = d
  <2>1. CASE d = walk.depth
    BY <1>2, <1>3, <2>1, Zenon
  <2>2. CASE d = acc.depth /\ d # 0
    <3>1. PICK x \in D : c[x] = acc.depth
      BY <1>1, <2>2, Zenon
    <3>2. c[x] >= 0
      BY <1>1, <3>1, Zenon
    <3> QED BY <1>3, <2>2, <3>1, <3>2, Zenon
  <2> QED BY <1>5, <2>1, <2>2, Zenon
<1>8. ASSUME NEW j \in 1..i PROVE e[order[j]] >= 0 /\ e[order[j]] <= d
  <2>1. CASE j = i
    BY <1>3, <1>5, <2>1 DEF m
  <2>2. CASE j # i
    <3>1. j \in 1..(i - 1) /\ j \in 1..n
      BY <2>2
    <3> DEFINE x == order[j]
    <3>2. x \in D /\ c[x] >= 0 /\ c[x] <= acc.depth
      BY <1>1, <3>1, Zenon
    <3> HIDE DEF x
    <3>3. e[x] = c[x] /\ c[x] \in Int
      BY <1>1, <1>3, <3>2, Zenon
    <3>4. e[x] >= 0 /\ e[x] <= d
      BY <1>1, <1>5, <3>2, <3>3
    <3> QED BY <3>4 DEF x
  <2> QED BY <2>1, <2>2
<1>9. Measured(graph, order, new, i)
  BY <1>3, <1>5, <1>6, <1>7, <1>8, Zenon DEF Measured
<1>10. MeasureFrom(graph, acc, order[i]) = new
  BY Zenon DEF MeasureFrom, new, d, e, walk, m, c
<1> QED BY <1>9, <1>10, Zenon

\* The depth is what has been measured at the end.
LEMMA DepthMeasured ==
    ASSUME NEW graph, GraphFits(graph), NEW n \in Nat, NEW order \in [1..n -> DOMAIN graph]
    PROVE  \E acc : Measured(graph, order, acc, n) /\ Gate!Depth(graph, order) = acc.depth
<1> DEFINE it == CHOOSE iter : Measures(iter, graph, order, n)
           v == [depth |-> 0, cache |-> Gate!NoCache(graph)]
<1>1. Measures(it, graph, order, n)
  BY MeasuresExist, Zenon
<1>2. Gate!Depth(graph, order) = it[1..n].depth
  <2>1. DOMAIN order = 1..n
    OBVIOUS
  <2> QED BY <2>1, Zenon DEF Gate!Depth, Gate!FoldLeft, Gate!MapThenFoldSet, Gate!Max, Max, Measures, MeasureFrom
<1> HIDE DEF it
<1>3. ASSUME NEW i \in 1..n PROVE it[1..i] = MeasureFrom(graph, it[1..(i - 1)], order[i])
  <2>1. 1..i \in SUBSET (1..n) /\ 1..i # {} /\ Max(1..i) = i /\ (1..i) \ {i} = 1..(i - 1)
    BY UpTo
  <2>2. it[1..i] = MeasureFrom(graph, it[(1..i) \ {Max(1..i)}], order[Max(1..i)])
    BY <1>1, <2>1, Zenon DEF Measures
  <2> QED BY <2>1, <2>2, Zenon
<1>4. it[1..0] = v
  <2>1. 1..0 = {} /\ {} \in SUBSET (1..n)
    OBVIOUS
  <2> QED BY <1>1, <2>1, Zenon DEF Measures
<1>5. Measured(graph, order, it[1..0], 0)
  <2>1. Gate!NoCache(graph) \in [DOMAIN graph -> Int] /\ \A m \in DOMAIN graph : ~(Gate!NoCache(graph)[m] >= 0)
    BY DEF Gate!NoCache
  <2>2. SoundCache(graph, Gate!NoCache(graph))
    BY <2>1, Zenon DEF SoundCache, Backed, Exact
  <2>3. 0 \in Int /\ 0 >= 0 /\ 1..0 = {}
    OBVIOUS
  <2>4. v \in Walks(DOMAIN graph)
    BY <2>1, <2>3, WalkMade, Zenon
  <2>5. v.depth = 0 /\ v.cache = Gate!NoCache(graph)
    OBVIOUS
  <2>6. Measured(graph, order, v, 0)
    <3> HIDE DEF v
    <3> QED BY <2>2, <2>3, <2>4, <2>5, Zenon DEF Measured
  <2> QED BY <1>4, <2>6, Zenon
<1>6. ASSUME NEW i \in 1..n, Measured(graph, order, it[1..(i - 1)], i - 1) PROVE Measured(graph, order, it[1..i], i)
  <2> DEFINE acc == it[1..(i - 1)]
  <2>1. Measured(graph, order, acc, i - 1) /\ it[1..i] = MeasureFrom(graph, acc, order[i])
    BY <1>3, <1>6, Zenon
  <2> HIDE DEF acc
  <2>2. Measured(graph, order, MeasureFrom(graph, acc, order[i]), i)
    BY <2>1, MeasuredOneMore, Zenon
  <2> QED BY <2>1, <2>2, Zenon
<1> DEFINE Bad == {k \in 0..n : ~Measured(graph, order, it[1..k], k)}
<1>7. Bad = {}
  <2> SUFFICES ASSUME Bad # {} PROVE FALSE
    OBVIOUS
  <2>1. Bad \in SUBSET Nat
    OBVIOUS
  <2>2. PICK k \in Bad : \A j \in Bad : k <= j
    <3> HIDE DEF Bad
    <3> QED BY <2>1, NatMin
  <2>3. k \in 0..n /\ k # 0 /\ ~Measured(graph, order, it[1..k], k)
    BY <1>5, <2>2, Zenon
  <2>4. k \in 1..n /\ k - 1 \in 0..n /\ ~(k <= k - 1)
    BY <2>3
  <2>5. Measured(graph, order, it[1..(k - 1)], k - 1)
    BY <2>2, <2>4, Zenon
  <2> QED BY <1>6, <2>3, <2>4, <2>5, Zenon
<1>8. n \in 0..n
  OBVIOUS
<1> QED BY <1>2, <1>7, <1>8, Zenon

\* The longest chain is one of the graph, and none is longer.
LEMMA LongestIs ==
    ASSUME NEW graph, GraphFits(graph)
    PROVE  /\ Gate!Longest(graph) \in Nat
           /\ Gate!Longest(graph) = 0 \/ \E c \in Gate!Chains(graph) : Gate!Longest(graph) = Len(c) - 1
           /\ \A c \in Gate!Chains(graph) : Len(c) - 1 <= Gate!Longest(graph)
<1> DEFINE S == {0} \union {Len(c) - 1 : c \in Gate!Chains(graph)}
           N == Cardinality(DOMAIN graph)
           most == Gate!Max(S)
<1>1. N \in Nat /\ IsFiniteSet(DOMAIN graph)
  BY FS_CardinalityType DEF GraphFits
<1>2. \A c \in Gate!Chains(graph) : Len(c) \in Nat \ {0} /\ Len(c) <= N
  <2> SUFFICES ASSUME NEW c \in Gate!Chains(graph) PROVE Len(c) \in Nat \ {0} /\ Len(c) <= N
    OBVIOUS
  <2>1. IsChain(graph, c, Len(c))
    BY ChainsAre, Zenon
  <2>2. Len(c) <= N
    BY <1>1, <2>1, ChainsAreShort, Zenon
  <2> QED BY <2>1, <2>2, Zenon DEF IsChain
<1> HIDE DEF N
<1>3. S \in SUBSET (0..N) /\ S # {}
  <2>1. \A c \in Gate!Chains(graph) : Len(c) - 1 \in 0..N
    BY <1>1, <1>2
  <2>2. 0 \in 0..N /\ 0 \in S
    BY <1>1
  <2> QED BY <2>1, <2>2, Zenon
<1>4. \E x \in S : \A y \in S : x >= y
  <2> HIDE DEF S
  <2> QED BY <1>1, <1>3, LargestIsIn
<1>5. most \in S /\ \A y \in S : most >= y
  <2> HIDE DEF S
  <2> QED BY <1>4, Zenon DEF Gate!Max
<1>6. Gate!Longest(graph) = most
  BY Zenon DEF Gate!Longest
<1>7. most \in Nat /\ (most = 0 \/ \E c \in Gate!Chains(graph) : most = Len(c) - 1)
  <2> HIDE DEF most
  <2>1. most \in 0..N
    BY <1>3, <1>5, Zenon
  <2>2. most = 0 \/ \E c \in Gate!Chains(graph) : most = Len(c) - 1
    BY <1>5, Zenon
  <2> QED BY <1>1, <2>1, <2>2
<1>8. \A c \in Gate!Chains(graph) : Len(c) - 1 <= most
  <2> SUFFICES ASSUME NEW c \in Gate!Chains(graph) PROVE Len(c) - 1 <= most
    OBVIOUS
  <2>1. most >= Len(c) - 1
    BY <1>5, Zenon
  <2> HIDE DEF most
  <2> QED BY <1>2, <1>7, <2>1
<1> QED BY <1>6, <1>7, <1>8, Zenon

\* The depth that is measured is that of a chain, and without a cycle that of
\* the longest.
LEMMA DepthIsRight ==
    ASSUME NEW graph, GraphFits(graph), NEW n \in Nat, NEW order \in [1..n -> DOMAIN graph],
           \A m \in DOMAIN graph : \E j \in 1..n : order[j] = m
    PROVE  /\ Gate!Depth(graph, order) \in Nat
           /\ Gate!Depth(graph, order) <= Gate!Longest(graph)
           /\ Gate!Acyclic(graph) => Gate!Depth(graph, order) = Gate!Longest(graph)
<1> DEFINE D == DOMAIN graph
           longest == Gate!Longest(graph)
<1>1. PICK acc : Measured(graph, order, acc, n) /\ Gate!Depth(graph, order) = acc.depth
  BY DepthMeasured, Zenon
<1> DEFINE d == acc.depth
           c == acc.cache
<1>2. /\ d \in Int /\ d >= 0 /\ c \in [D -> Int] /\ SoundCache(graph, c)
      /\ d = 0 \/ \E m \in D : c[m] = d
      /\ \A j \in 1..n : c[order[j]] >= 0 /\ c[order[j]] <= d
  BY <1>1, Zenon DEF Measured, Walks
<1> HIDE DEF d, c, longest
<1>3. /\ longest \in Nat
      /\ longest = 0 \/ \E x \in Gate!Chains(graph) : longest = Len(x) - 1
      /\ \A x \in Gate!Chains(graph) : Len(x) - 1 <= longest
  BY LongestIs, Zenon DEF longest
<1>4. d <= longest
  <2>1. CASE d = 0
    BY <1>3, <2>1
  <2>2. CASE d # 0
    <3>1. PICK m \in D : c[m] = d
      BY <1>2, <2>2, Zenon
    <3>2. \E k, x : IsChain(graph, x, k) /\ k = d + 1
      BY <1>2, <3>1, Zenon DEF SoundCache, Backed
    <3>3. PICK k, x : IsChain(graph, x, k) /\ k = d + 1
      BY <3>2, Zenon
    <3>4. x \in Gate!Chains(graph) /\ Len(x) = k
      BY <3>3, ChainsAre, Zenon
    <3>5. k - 1 <= longest
      BY <1>3, <3>4, Zenon
    <3> QED BY <1>2, <1>3, <3>3, <3>5
  <2> QED BY <2>1, <2>2
<1>5. ASSUME Gate!Acyclic(graph) PROVE longest <= d
  <2>1. CASE longest = 0
    BY <1>2, <2>1
  <2>2. CASE longest # 0
    <3>1. PICK x \in Gate!Chains(graph) : longest = Len(x) - 1
      BY <1>3, <2>2, Zenon
    <3> DEFINE k == Len(x)
    <3>2. IsChain(graph, x, k)
      BY ChainsAre, Zenon
    <3>3. k \in Nat \ {0} /\ x \in [1..k -> D]
      BY <3>2, Zenon DEF IsChain
    <3>4. longest = k - 1
      BY <3>1
    <3> HIDE DEF k
    <3> DEFINE m == x[1]
    <3>5. m \in D
      BY <3>3
    <3>6. PICK j \in 1..n : order[j] = m
      BY <3>5, Zenon
    <3>7. c[m] >= 0 /\ c[m] <= d /\ c[m] \in Int
      BY <1>2, <3>5, <3>6, Zenon
    <3>8. k <= c[m] + 1
      BY <1>2, <1>5, <3>2, <3>5, <3>7, Zenon DEF SoundCache, Exact
    <3> HIDE DEF m
    <3> QED BY <1>2, <3>3, <3>4, <3>7, <3>8
  <2> QED BY <2>1, <2>2
<1>6. d \in Nat /\ (Gate!Acyclic(graph) => d = longest)
  BY <1>2, <1>3, <1>4, <1>5
<1> QED BY <1>1, <1>4, <1>6, Zenon DEF d, longest

\* What the fitness functions ask.
Fit(graph, order, bounds) ==
    /\ Gate!check_layer_violations(graph)
    /\ Gate!check_coupling(graph, bounds[1], bounds[2])
    /\ Gate!check_dependency_depth(graph, order, bounds[3])

\* The stages that can block, and those that cannot.
LEMMA StagesAre ==
    ASSUME NEW graph, NEW order, NEW bounds, NEW scan, NEW arch
    PROVE  /\ Gate!Blocks(Gate!_run_fitness_stage(graph, order, bounds)) <=> ~Fit(graph, order, bounds)
           /\ Gate!Blocks(Gate!_run_scanner_stage(scan)) <=> scan \notin {"unavailable", "clean"}
           /\ ~Gate!Blocks(Gate!_run_rtm_stage) /\ ~Gate!Blocks(Gate!_run_drift_stage(arch))
<1>1. (\A i \in 1..3 : Gate!run_all(graph, order, bounds)[i]) <=> Fit(graph, order, bounds)
  <2> DEFINE a == Gate!check_layer_violations(graph)
             b == Gate!check_coupling(graph, bounds[1], bounds[2])
             c == Gate!check_dependency_depth(graph, order, bounds[3])
             all == Gate!run_all(graph, order, bounds)
  <2>1. a \in BOOLEAN
    BY Zenon DEF Gate!check_layer_violations
  <2>2. b \in BOOLEAN
    BY Zenon DEF Gate!check_coupling
  <2>3. c \in BOOLEAN
    <3> DEFINE d == Gate!Depth(graph, order)
    <3>1. (d <= bounds[3]) \in BOOLEAN
      <4> HIDE DEF d
      <4> QED OBVIOUS
    <3> QED BY <3>1, Zenon DEF Gate!check_dependency_depth
  <2>4. all = <<a, b, c>>
    BY Zenon DEF Gate!run_all
  <2>5. (a /\ b /\ c) <=> Fit(graph, order, bounds)
    BY Zenon DEF Fit
  <2> HIDE DEF a, b, c, all
  <2>6. all[1] = a /\ all[2] = b /\ all[3] = c
    BY <2>4
  <2>7. all[1] \in BOOLEAN /\ all[2] \in BOOLEAN /\ all[3] \in BOOLEAN
    BY <2>1, <2>2, <2>3, <2>6
  <2>8. (\A i \in 1..3 : all[i]) <=> (all[1] /\ all[2] /\ all[3])
    <3>1. 1 \in 1..3 /\ 2 \in 1..3 /\ 3 \in 1..3 /\ \A i \in 1..3 : i = 1 \/ i = 2 \/ i = 3
      OBVIOUS
    <3> QED BY <3>1, Zenon
  <2>9. (all[1] /\ all[2] /\ all[3]) <=> (a /\ b /\ c)
    BY <2>1, <2>2, <2>3, <2>6, <2>7
  <2>10. (\A i \in 1..3 : all[i]) <=> Fit(graph, order, bounds)
    BY <2>5, <2>8, <2>9, Zenon
  <2> QED BY <2>10, Zenon DEF all
<1>2. \A passed, severity : /\ Gate!Stage(passed, severity).passed = passed
                            /\ Gate!Stage(passed, severity).severity = severity
  BY DEF Gate!Stage
<1>3. "info" # "blocking" /\ "warning" # "blocking" /\ "clean" # "unavailable"
  OBVIOUS
<1>4. Gate!Blocks(Gate!_run_fitness_stage(graph, order, bounds)) <=> ~Fit(graph, order, bounds)
  BY <1>1, <1>2, Zenon DEF Gate!Blocks, Gate!_run_fitness_stage
<1>5. Gate!Blocks(Gate!_run_scanner_stage(scan)) <=> scan \notin {"unavailable", "clean"}
  BY <1>2, <1>3, Zenon DEF Gate!Blocks, Gate!_run_scanner_stage
<1>6. ~Gate!Blocks(Gate!_run_rtm_stage) /\ ~Gate!Blocks(Gate!_run_drift_stage(arch))
  BY <1>2, <1>3, Zenon DEF Gate!Blocks, Gate!_run_rtm_stage, Gate!_run_drift_stage
<1> QED BY <1>4, <1>5, <1>6

\* What the gate answers: fast and full are its reports, passes what it asks.
GateAnswers(fast, full, passes) ==
    /\ fast.verdict = full.verdict
    /\ fast.verdict = "pass" <=> passes
    /\ passes => Len(fast.stages) = 4

\* The verdict is the same with and without stopping at the first failure.
LEMMA GateIs ==
    ASSUME NEW graph, NEW order, NEW bounds, NEW scan, NEW arch
    PROVE  GateAnswers(Gate!run_gate(graph, order, bounds, scan, arch, TRUE),
                   Gate!run_gate(graph, order, bounds, scan, arch, FALSE),
                   Fit(graph, order, bounds) /\ scan \in {"unavailable", "clean"})
<1> DEFINE fitness == Gate!_run_fitness_stage(graph, order, bounds)
           scanner == Gate!_run_scanner_stage(scan)
           rtm == Gate!_run_rtm_stage
           drift == Gate!_run_drift_stage(arch)
           pass == Fit(graph, order, bounds) /\ scan \in {"unavailable", "clean"}
           one == <<fitness>>
           two == <<fitness, scanner>>
           four == <<fitness, scanner, rtm, drift>>
           fast == IF Gate!Blocks(fitness) THEN one ELSE IF Gate!Blocks(scanner) THEN two ELSE four
           first == Gate!run_gate(graph, order, bounds, scan, arch, TRUE)
           whole == Gate!run_gate(graph, order, bounds, scan, arch, FALSE)
<1>1. ~Gate!Blocks(rtm) /\ ~Gate!Blocks(drift) /\ (pass <=> ~Gate!Blocks(fitness) /\ ~Gate!Blocks(scanner))
  BY StagesAre, Zenon
<1>2. /\ first = [verdict |-> Gate!_build_verdict(fast), stages |-> fast]
      /\ whole = [verdict |-> Gate!_build_verdict(four), stages |-> four]
  BY Zenon DEF Gate!run_gate
<1> HIDE DEF fitness, scanner, rtm, drift, pass
<1>3. (\E i \in DOMAIN four : Gate!Blocks(four[i])) <=> ~pass
  <2>1. DOMAIN four = 1..4 /\ four[1] = fitness /\ four[2] = scanner /\ four[3] = rtm /\ four[4] = drift
    OBVIOUS
  <2>2. \A i \in 1..4 : i = 1 \/ i = 2 \/ i = 3 \/ i = 4
    OBVIOUS
  <2>3. 1 \in 1..4 /\ 2 \in 1..4
    OBVIOUS
  <2> HIDE DEF four
  <2> QED BY <1>1, <2>1, <2>2, <2>3, Zenon
<1>4. (\E i \in DOMAIN one : Gate!Blocks(one[i])) <=> Gate!Blocks(fitness)
  <2>1. DOMAIN one = {1} /\ one[1] = fitness
    OBVIOUS
  <2> HIDE DEF one
  <2> QED BY <2>1, Zenon
<1>5. Gate!Blocks(scanner) => \E i \in DOMAIN two : Gate!Blocks(two[i])
  <2>1. 2 \in DOMAIN two /\ two[2] = scanner
    OBVIOUS
  <2> HIDE DEF two
  <2> QED BY <2>1, Zenon
<1>6. Len(four) = 4
  OBVIOUS
<1> HIDE DEF one, two, four
<1>7. (\E i \in DOMAIN fast : Gate!Blocks(fast[i])) <=> ~pass
  BY <1>1, <1>3, <1>4, <1>5, Zenon
<1>8. pass => fast = four
  BY <1>1, Zenon
<1> HIDE DEF fast
<1>9. /\ Gate!_build_verdict(fast) = IF pass THEN "pass" ELSE "fail"
      /\ Gate!_build_verdict(four) = IF pass THEN "pass" ELSE "fail"
  BY <1>3, <1>7, Zenon DEF Gate!_build_verdict
<1>10. first.verdict = Gate!_build_verdict(fast) /\ whole.verdict = Gate!_build_verdict(four)
       /\ first.stages = fast
  <2> DEFINE a == Gate!_build_verdict(fast)
             b == Gate!_build_verdict(four)
  <2>1. first = [verdict |-> a, stages |-> fast] /\ whole = [verdict |-> b, stages |-> four]
    BY <1>2, Zenon
  <2> HIDE DEF a, b, first, whole
  <2>2. first.verdict = a /\ whole.verdict = b /\ first.stages = fast
    BY <2>1
  <2> QED BY <2>2, Zenon DEF a, b
<1>11. "pass" # "fail"
  OBVIOUS
<1> HIDE DEF first, whole
<1>12. GateAnswers(first, whole, pass)
  BY <1>6, <1>8, <1>9, <1>10, <1>11, Zenon DEF GateAnswers
<1> QED BY <1>12, Zenon DEF first, whole, pass

\* A module of a layer that imports one of a higher layer may do so.
LEMMA LayersAreKept ==
    ASSUME NEW graph, Gate!check_layer_violations(graph), NEW m \in DOMAIN graph, NEW n,
           NEW i \in DOMAIN graph[m], graph[m][i] = n,
           "none" \notin {Gate!Layer(m), Gate!Layer(n)},
           Gate!LAYER_RANK[Gate!Layer(m)] > 0,
           Gate!LAYER_RANK[Gate!Layer(m)] < Gate!LAYER_RANK[Gate!Layer(n)]
    PROVE  <<Head(m), Head(n)>> \in Gate!ALLOWED_CROSS_LAYER
<1> DEFINE from == Gate!Layer(m)
           to == Gate!Layer(n)
           a == Gate!LAYER_RANK[from]
           b == Gate!LAYER_RANK[to]
<1>1. ~Gate!Violates(m, n)
  BY Zenon DEF Gate!check_layer_violations
<1>2. from \in DOMAIN Gate!LAYER_RANK /\ to \in DOMAIN Gate!LAYER_RANK
  <2>1. \A x \in DOMAIN Gate!LONGER : Gate!LONGER[x] \in DOMAIN Gate!LAYER_RANK
    BY DEF Gate!LONGER, Gate!LAYER_RANK
  <2> QED BY <2>1, Zenon DEF Gate!Layer
<1>3. a \in Int /\ b \in Int
  BY <1>2 DEF Gate!LAYER_RANK
<1>4. a > 0 /\ a < b
  OBVIOUS
<1>5. from # to /\ 0 < a
  <2> HIDE DEF from, to
  <2>1. from = to => a = b
    BY Zenon
  <2> HIDE DEF a, b
  <2> QED BY <1>3, <1>4, <2>1
<1> QED BY <1>1, <1>4, <1>5, Zenon DEF Gate!Violates

\* The depth is measured right and nothing is let through that should not be,
\* for import graphs of every size.
LEMMA MergeAlwaysEarned ==
    ASSUME NEW graph, GraphFits(graph), NEW order, Len(order) \in Nat,
           order \in [1..Len(order) -> DOMAIN graph],
           \A m \in DOMAIN graph : \E j \in 1..Len(order) : order[j] = m,
           NEW bounds, bounds[3] \in Nat, NEW scan, NEW arch
    PROVE  Gate!MergeIsEarned(graph, order, bounds, scan, arch)
<1> DEFINE n == Len(order)
           depth == Gate!Depth(graph, order)
           longest == Gate!Longest(graph)
           verdict(failFast) == Gate!run_gate(graph, order, bounds, scan, arch, failFast).verdict
           stages == Gate!run_gate(graph, order, bounds, scan, arch, TRUE).stages
           pass == Fit(graph, order, bounds) /\ scan \in {"unavailable", "clean"}
<1>1. depth \in Nat /\ depth <= longest /\ (Gate!Acyclic(graph) => depth = longest)
  <2> HIDE DEF n
  <2>1. n \in Nat /\ order \in [1..n -> DOMAIN graph] /\ \A m \in DOMAIN graph : \E j \in 1..n : order[j] = m
    BY Zenon DEF n
  <2> QED BY <2>1, DepthIsRight, Zenon
<1>2. verdict(TRUE) = verdict(FALSE) /\ (verdict(TRUE) = "pass" <=> pass) /\ (pass => Len(stages) = 4)
  <2>1. GateAnswers(Gate!run_gate(graph, order, bounds, scan, arch, TRUE),
                Gate!run_gate(graph, order, bounds, scan, arch, FALSE), pass)
    BY GateIs, Zenon
  <2> HIDE DEF pass
  <2> QED BY <2>1, Zenon DEF GateAnswers
<1> DEFINE both == [failFast \in BOOLEAN |-> Gate!run_gate(graph, order, bounds, scan, arch, failFast)]
<1>0. /\ both[TRUE].verdict = verdict(TRUE) /\ both[FALSE].verdict = verdict(FALSE)
      /\ both[TRUE].stages = stages
  BY Zenon
<1> HIDE DEF depth, longest, verdict, stages, both
<1>3. pass => scan # "findings"
  <2>1. "findings" \notin {"unavailable", "clean"}
    OBVIOUS
  <2> QED BY <2>1, Zenon
<1>4. pass => depth <= bounds[3]
  BY Zenon DEF Fit, Gate!check_dependency_depth, depth
<1>5. pass => (Gate!Acyclic(graph) => longest <= bounds[3])
  BY <1>1, <1>4, Zenon
<1>6. pass => \A m, k \in DOMAIN graph :
          /\ \E i \in DOMAIN graph[m] : graph[m][i] = k
          /\ "none" \notin {Gate!Layer(m), Gate!Layer(k)}
          /\ Gate!LAYER_RANK[Gate!Layer(m)] > 0
          /\ Gate!LAYER_RANK[Gate!Layer(m)] < Gate!LAYER_RANK[Gate!Layer(k)]
          => <<Head(m), Head(k)>> \in Gate!ALLOWED_CROSS_LAYER
  <2>1. pass => Gate!check_layer_violations(graph)
    BY Zenon DEF Fit
  <2> QED BY <2>1, LayersAreKept, Zenon
<1> HIDE DEF pass
<1>7. /\ both[TRUE].verdict = both[FALSE].verdict
      /\ both[TRUE].verdict = "pass" => Len(both[TRUE].stages) = 4
      /\ both[TRUE].verdict = "pass" => pass
  BY <1>0, <1>2, Zenon
<1> QED BY <1>1, <1>3, <1>5, <1>6, <1>7, Zenon DEF Gate!MergeIsEarned, depth, longest, both

MergeInputFits(i) ==
    /\ GraphFits(i.graph)
    /\ Len(i.order) \in Nat /\ i.order \in [1..Len(i.order) -> DOMAIN i.graph]
    /\ \A m \in DOMAIN i.graph : \E j \in 1..Len(i.order) : i.order[j] = m
    /\ i.bounds[3] \in Nat

\* The inputs that are admitted are graphs as the proofs need them.
LEMMA MergeInputsFit ==
    ASSUME MergeInputsAreMerges, NEW i \in MergeInputs
    PROVE  MergeInputFits(i)
<1> DEFINE graph == i.graph
           order == i.order
           bounds == i.bounds
           D == DOMAIN graph
<1>1. /\ IsFiniteSet(D) /\ D \subseteq Seq(STRING) \ {<< >>}
      /\ \A m \in D : graph[m] \in Seq(Seq(STRING) \ {<< >>})
      /\ order \in Seq(D) /\ \A m \in D : \E j \in DOMAIN order : order[j] = m
      /\ bounds \in Nat \X Nat \X Nat
  <2>1. Gate!IsFiniteSet(D) <=> IsFiniteSet(D)
    BY Zenon DEF Gate!IsFiniteSet, IsFiniteSet
  <2> QED BY <2>1, Zenon DEF MergeInputsAreMerges
<1> HIDE DEF graph, order, bounds
<1>2. bounds[3] \in Nat
  BY <1>1
<1>3. Len(order) \in Nat /\ order \in [1..Len(order) -> D] /\ DOMAIN order = 1..Len(order)
  <2> HIDE DEF D
  <2> QED BY <1>1
<1>4. ASSUME NEW m \in D
      PROVE  /\ Len(graph[m]) \in Nat /\ DOMAIN graph[m] = 1..Len(graph[m])
             /\ \A j \in 1..Len(graph[m]) : graph[m][j] \in Seq(STRING)
  <2> DEFINE names == graph[m]
             Names == Seq(STRING) \ {<< >>}
  <2>1. names \in Seq(Names)
    BY <1>1, Zenon
  <2> HIDE DEF names, Names
  <2>2. Len(names) \in Nat /\ DOMAIN names = 1..Len(names) /\ \A j \in 1..Len(names) : names[j] \in Names
    BY <2>1
  <2> QED BY <2>2, Zenon DEF names, Names
<1>5. GraphFits(graph)
  <2>1. << >> \notin D
    BY <1>1, Zenon
  <2>2. Imported(graph)
    BY <1>1, <1>4, ResolvedInside, Zenon DEF Imported
  <2> QED BY <1>1, <2>1, <2>2, Zenon DEF GraphFits
<1>6. \A m \in D : \E j \in 1..Len(order) : order[j] = m
  BY <1>1, <1>3, Zenon
<1> QED BY <1>2, <1>3, <1>5, <1>6, Zenon DEF MergeInputFits, graph, order, bounds

-----------------------------------------------------------------------------
(* The composition: what a behaviour is about does not change. *)

InputOfFocus ==
    /\ focus = "text" => input \in TextInputs
    /\ focus = "goals" => input \in GoalInputs
    /\ focus = "index" => input \in IndexInputs
    /\ focus = "log" => input \in LogInputs
    /\ focus = "gates" => input \in GateInputs
    /\ focus = "merge" => input \in MergeInputs

\* The input stays the one that was picked for the algorithm.
LEMMA InputInvariance ==
    AlgorithmsSpec => []InputOfFocus
<1>1. AlgorithmsInit => InputOfFocus
  <2> SUFFICES ASSUME AlgorithmsInit PROVE InputOfFocus
    OBVIOUS
  <2>1. /\ "dag" \notin {"text", "goals", "index", "log", "audit", "gates", "merge"}
        /\ "text" \notin {"goals", "index", "log", "audit", "gates", "merge"}
        /\ "goals" \notin {"index", "log", "audit", "gates", "merge"}
        /\ "index" \notin {"log", "audit", "gates", "merge"}
        /\ "log" \notin {"audit", "gates", "merge"}
        /\ "gates" \notin {"audit", "merge"}
    OBVIOUS
  <2> QED BY <2>1 DEF AlgorithmsInit, InputOfFocus
<1>2. InputOfFocus /\ [AlgorithmsNext]_<<vars, focus, input, checked>> => InputOfFocus'
  BY DEF InputOfFocus, AlgorithmsNext
<1> QED BY <1>1, <1>2, PTL DEF AlgorithmsSpec

\* The sort of a behaviour about a DAG is that of its component.
LEMMA SortOfComposition ==
    AlgorithmsSpec => Spec
<1>1. AlgorithmsInit => Init
  BY DEF AlgorithmsInit
<1>2. [AlgorithmsNext]_<<vars, focus, input, checked>> => [Next]_vars
  BY DEF AlgorithmsNext
<1> QED BY <1>1, <1>2, PTL DEF AlgorithmsSpec, Spec

\* In the composition, too, the order of a DAG names every task once and behind
\* its dependencies, and the verdict on cycles is right.
THEOREM DagsAreSorted ==
    ASSUME TasksListed
    PROVE  AlgorithmsSpec => []SortedIsTopological /\ []CycleVerdictIsRight
BY SortOfComposition, OrderIsTopological, CyclesAreFound, PTL

\* Of texts of any length, with any matches of the seven rules that overlap or
\* wait behind one another: the redactor leaves nothing that matched from the
\* start, takes nothing that did not match, and nothing else is output or passed
\* on by the scanner.
THEOREM TextsAreRedacted ==
    ASSUME TextInputsAreTexts
    PROVE  AlgorithmsSpec => []RedactionIsComplete
<1>1. InputOfFocus => RedactionIsComplete
  <2> SUFFICES ASSUME InputOfFocus, focus = "text"
               PROVE  Text!RedactionIsComplete(input.text, input.config, input.fails)
    BY DEF RedactionIsComplete
  <2> DEFINE text == input.text
             config == input.config
             fails == input.fails
  <2>1. /\ Text!IsText(text)
        /\ config.redact \in BOOLEAN /\ config.failOpen \in BOOLEAN /\ fails \in BOOLEAN
    BY Zenon DEF InputOfFocus, TextInputsAreTexts
  <2> HIDE DEF text, config, fails
  <2>2. Text!RedactionIsComplete(text, config, fails)
    BY <2>1, RedactionAlwaysComplete
  <2> QED BY <2>2 DEF text, config, fails
<1> QED BY <1>1, InputInvariance, PTL

\* The evaluators of the goal predicates agree on every state of every size, and
\* the validator passes the samples it generates, however large.
THEOREM GoalsAreJudgedAlike ==
    ASSUME GoalInputsAreGoals
    PROVE  AlgorithmsSpec => []EvaluatorsAgree
<1>1. InputOfFocus => EvaluatorsAgree
  <2> SUFFICES ASSUME InputOfFocus, focus = "goals"
               PROVE  Goal!EvaluatorsAgree(input.state, input.registered) /\ Goal!ValidationPasses(input.half)
    BY DEF EvaluatorsAgree
  <2> DEFINE s == input.state
             registered == input.registered
             half == input.half
  <2>1. registered \in SUBSET (0..4) /\ half \in Nat
    BY DEF InputOfFocus, GoalInputsAreGoals, Goal!Levels
  <2> HIDE DEF s, registered, half
  <2>2. Goal!EvaluatorsAgree(s, registered) /\ Goal!ValidationPasses(half)
    BY <2>1, EvaluatorsAlwaysAgree, ValidatorPasses
  <2> QED BY <2>2 DEF s, registered, half
<1> QED BY <1>1, InputInvariance, PTL

\* A goal classified higher never gets a smaller index or fewer checks, its steps
\* name only earlier ones, and its decomposition stays within its bounds, whatever
\* the numbers of its dependencies, dimensions and agents.
THEOREM GoalsAreIndexedFairly ==
    ASSUME IndexInputsAreContexts
    PROVE  AlgorithmsSpec => []IndexIsMonotone
<1>1. InputOfFocus => IndexIsMonotone
  <2> SUFFICES ASSUME InputOfFocus, focus = "index"
               PROVE  Goal!IndexIsMonotone(input.first, input.second)
    BY DEF IndexIsMonotone
  <2> DEFINE c == input.first
             d == input.second
  <2>1. c \in Goal!Contexts /\ d \in Goal!Contexts
    BY DEF InputOfFocus, IndexInputsAreContexts
  <2> HIDE DEF c, d
  <2>2. Goal!IndexIsMonotone(c, d)
    BY <2>1, IndexAlwaysMonotone
  <2> QED BY <2>2 DEF c, d
<1> QED BY <1>1, InputInvariance, PTL

\* A write-ahead log of any length is accepted exactly if each of its entries
\* bears out its verdicts and no two clash, in strict mode and in the other.
THEOREM AcceptedLogsAreConsistent ==
    ASSUME LogInputsAreLogs
    PROVE  AlgorithmsSpec => []AcceptedIsConsistent
<1>1. InputOfFocus => AcceptedIsConsistent
  <2> SUFFICES ASSUME InputOfFocus, focus = "log"
               PROVE  Log!AcceptedIsConsistent(input)
    BY DEF AcceptedIsConsistent
  <2> DEFINE log == input
             n == Len(log)
  <2>1. log \in Seq(Log!Entries)
    BY DEF InputOfFocus, LogInputsAreLogs
  <2>2. n \in Nat /\ log \in [1..n -> Log!Entries]
    BY <2>1
  <2> HIDE DEF log, n
  <2>3. Log!AcceptedIsConsistent(log)
    BY <2>2, AcceptedAlwaysConsistent
  <2> QED BY <2>3 DEF log
<1> QED BY <1>1, InputInvariance, PTL

\* An audit that ends with zero has no failure behind it, and no gate opens on
\* tasks that are not done, an audit that failed or tests that did not run.
THEOREM GatesStayShut ==
    ASSUME GateInputsAreGates
    PROVE  AlgorithmsSpec => []GatesAreEarned
<1>1. InputOfFocus => GatesAreEarned
  <2> DEFINE repo == input.repo
             done == input.done
             tests == input.tests
             gatePass == input.gatePass
             files == input.files
  <2>1. ASSUME InputOfFocus, focus = "gates"
        PROVE  Gate!GatesAreEarned(repo, done, tests, gatePass, files)
    <3>1. gatePass \in BOOLEAN
      BY <2>1 DEF InputOfFocus, GateInputsAreGates
    <3> HIDE DEF repo, done, tests, gatePass, files
    <3> QED BY <3>1, GatesAlwaysEarned
  <2>2. Gate!AuditIsHonest(input)
    BY AuditAlwaysHonest
  <2> QED BY <2>1, <2>2 DEF GatesAreEarned
<1> QED BY <1>1, InputInvariance, PTL
\* A change is merged only if nothing blocks it, whether or not the gate stops at
\* the first failure, and the depth of the imports is the length of the longest
\* chain if there are no cycles, and at most that if there are, for import graphs
\* of every size.
THEOREM MergesAreEarned ==
    ASSUME MergeInputsAreMerges
    PROVE  AlgorithmsSpec => []MergeIsEarned
<1>1. InputOfFocus => MergeIsEarned
  <2> SUFFICES ASSUME InputOfFocus, focus = "merge"
               PROVE  Gate!MergeIsEarned(input.graph, input.order, input.bounds, input.scan, input.arch)
    BY DEF MergeIsEarned
  <2>1. MergeInputFits(input)
    BY MergeInputsFit, Zenon DEF InputOfFocus
  <2> DEFINE graph == input.graph
             order == input.order
             bounds == input.bounds
             scan == input.scan
             arch == input.arch
  <2>2. /\ GraphFits(graph) /\ Len(order) \in Nat /\ order \in [1..Len(order) -> DOMAIN graph]
        /\ \A m \in DOMAIN graph : \E j \in 1..Len(order) : order[j] = m
        /\ bounds[3] \in Nat
    BY <2>1, Zenon DEF MergeInputFits
  <2> HIDE DEF graph, order, bounds, scan, arch
  <2>3. Gate!MergeIsEarned(graph, order, bounds, scan, arch)
    BY <2>2, MergeAlwaysEarned, Zenon
  <2> QED BY <2>3, Zenon DEF graph, order, bounds, scan, arch
<1> QED BY <1>1, InputInvariance, PTL
=============================================================================
