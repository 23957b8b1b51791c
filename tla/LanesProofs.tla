----------------------------- MODULE LanesProofs -----------------------------
(***************************************************************************)
(* Proofs about LaneManager and its lanes for any tasks, subagents,        *)
(* schedules and consumers, and for any limits.                            *)
(*                                                                         *)
(* The main and the subagent lane have queues of the same form, so the     *)
(* facts about queues are stated of values: q for the priority queues, gs  *)
(* for the consumers that wait, ws for those that were woken, h for what   *)
(* they hold, and q2, gs2, ws2, h2 for the same after a step.              *)
(***************************************************************************)
EXTENDS LaneManager, FiniteSums, SequenceTheorems

-----------------------------------------------------------------------------
(* Sequences.                                                              *)

\* x is an element of s.
Has(s, x) == \E i \in 1..Len(s) : s[i] = x

\* No element twice.
Distinct(s) == \A i, j \in 1..Len(s) : s[i] = s[j] => i = j

\* The first element, and the others in their order.
LEMMA HeadAndTail ==
    ASSUME NEW S, NEW s \in Seq(S), s # <<>>
    PROVE  /\ Len(s) \in Nat \ {0} /\ 1 \in 1..Len(s)
           /\ Head(s) = s[1] /\ Head(s) \in S
           /\ Tail(s) \in Seq(S) /\ Len(Tail(s)) = Len(s) - 1
           /\ \A i \in 1..Len(Tail(s)) : i + 1 \in 1..Len(s) /\ Tail(s)[i] = s[i + 1]
  <1>1. Len(s) \in Nat \ {0}
    BY EmptySeq, LenProperties
  <1>2. Tail(s) \in Seq(S) /\ Len(Tail(s)) = Len(s) - 1
    BY HeadTailProperties
  <1>3. \A i \in 1..Len(Tail(s)) : Tail(s)[i] = s[i + 1]
    BY HeadTailProperties
  <1>4. \A i \in 1..Len(Tail(s)) : i + 1 \in 1..Len(s)
    BY <1>1, <1>2
  <1>5. Head(s) = s[1] /\ 1 \in 1..Len(s) /\ s[1] \in S
    BY <1>1, HeadTailProperties, ElementOfSeq
  <1> QED
    BY <1>1, <1>2, <1>3, <1>4, <1>5

\* The first element leaves.
LEMMA TailHas ==
    ASSUME NEW S, NEW s \in Seq(S), s # <<>>
    PROVE  /\ Has(s, Head(s))
           /\ \A x : Has(Tail(s), x) => Has(s, x)
           /\ \A x : Has(s, x) => Has(Tail(s), x) \/ x = Head(s)
           /\ Distinct(s) => Distinct(Tail(s)) /\ ~Has(Tail(s), Head(s))
  <1> DEFINE t == Tail(s)
  <1>1. /\ Len(s) \in Nat \ {0} /\ 1 \in 1..Len(s) /\ Head(s) = s[1]
        /\ Len(t) = Len(s) - 1
        /\ \A i \in 1..Len(t) : i + 1 \in 1..Len(s) /\ t[i] = s[i + 1]
    BY HeadAndTail
  <1> HIDE DEF t
  <1>2. Has(s, Head(s))
    BY <1>1 DEF Has
  <1>3. ASSUME NEW x, Has(t, x) PROVE Has(s, x)
    BY <1>1, <1>3 DEF Has
  <1>4. ASSUME NEW x, Has(s, x) PROVE Has(t, x) \/ x = Head(s)
    <2>1. PICK i \in 1..Len(s) : s[i] = x
      BY <1>4 DEF Has
    <2>2. CASE i = 1
      BY <1>1, <2>1, <2>2
    <2>3. CASE i # 1
      <3>1. i - 1 \in 1..Len(t) /\ (i - 1) + 1 = i
        BY <1>1, <2>1, <2>3
      <3>2. t[i - 1] = x
        BY <1>1, <2>1, <3>1
      <3> QED
        BY <3>1, <3>2 DEF Has
    <2> QED
      BY <2>2, <2>3
  <1>5. ASSUME Distinct(s) PROVE Distinct(t)
    <2> SUFFICES ASSUME NEW i \in 1..Len(t), NEW j \in 1..Len(t), t[i] = t[j] PROVE i = j
      BY DEF Distinct
    <2>1. i + 1 = j + 1
      BY <1>1, <1>5 DEF Distinct
    <2> QED
      BY <2>1, <1>1
  <1>6. ASSUME Distinct(s) PROVE ~Has(t, Head(s))
    <2> SUFFICES ASSUME NEW i \in 1..Len(t), t[i] = Head(s) PROVE FALSE
      BY DEF Has
    <2>1. i + 1 = 1
      BY <1>1, <1>6 DEF Distinct
    <2> QED
      BY <2>1, <1>1
  <1> QED
    BY <1>2, <1>3, <1>4, <1>5, <1>6 DEF t

\* An element joins at the end.
LEMMA AppendHas ==
    ASSUME NEW S, NEW s \in Seq(S), NEW e \in S
    PROVE  /\ Append(s, e) \in Seq(S)
           /\ Len(Append(s, e)) = Len(s) + 1 /\ Len(s) \in Nat
           /\ \A i \in 1..Len(s) : Append(s, e)[i] = s[i]
           /\ Append(s, e)[Len(s) + 1] = e
           /\ \A x : Has(Append(s, e), x) <=> Has(s, x) \/ x = e
           /\ Distinct(s) /\ ~Has(s, e) => Distinct(Append(s, e))
  <1> DEFINE t == Append(s, e)
  <1>1. /\ t \in Seq(S) /\ Len(t) = Len(s) + 1 /\ Len(s) \in Nat
        /\ \A i \in 1..Len(s) : t[i] = s[i]
        /\ t[Len(s) + 1] = e
    BY AppendProperties, LenProperties
  <1> HIDE DEF t
  <1>2. ASSUME NEW x PROVE Has(t, x) <=> Has(s, x) \/ x = e
    <2>1. \A i : i \in 1..Len(t) <=> i \in 1..Len(s) \/ i = Len(s) + 1
      BY <1>1
    <2> QED
      BY <1>1, <2>1 DEF Has
  <1>3. ASSUME Distinct(s), ~Has(s, e) PROVE Distinct(t)
    <2> SUFFICES ASSUME NEW i \in 1..Len(t), NEW j \in 1..Len(t), t[i] = t[j] PROVE i = j
      BY DEF Distinct
    <2>1. (i \in 1..Len(s) \/ i = Len(s) + 1) /\ (j \in 1..Len(s) \/ j = Len(s) + 1)
      BY <1>1
    <2> QED
      BY <1>1, <1>3, <2>1 DEF Distinct, Has
  <1> QED
    BY <1>1, <1>2, <1>3 DEF t

\* The first n elements, and the others.
LEMMA FrontOf ==
    ASSUME NEW S, NEW s \in Seq(S), NEW n \in 0..Len(s)
    PROVE  /\ SubSeq(s, 1, n) \in Seq(S) /\ Len(SubSeq(s, 1, n)) = n
           /\ \A i \in 1..n : SubSeq(s, 1, n)[i] = s[i]
  <1> DEFINE a == SubSeq(s, 1, n)
  <1>1. Len(s) \in Nat /\ n \in Nat /\ \A i \in 1..n : s[i] \in S
    <2>1. s \in [1..Len(s) -> S] /\ Len(s) \in Nat
      BY LenProperties
    <2>2. \A i \in 1..n : i \in 1..Len(s)
      BY <2>1
    <2> QED
      BY <2>1, <2>2
  <1>2. /\ a \in Seq(S)
        /\ Len(a) = IF 1 <= n THEN n - 1 + 1 ELSE 0
        /\ \A i \in 1..(n - 1 + 1) : a[i] = s[1 + i - 1]
    BY <1>1, SubSeqProperties
  <1> HIDE DEF a
  <1>3. \A i \in 1..n : i \in 1..(n - 1 + 1) /\ 1 + i - 1 = i
    BY <1>1
  <1>4. Len(a) = n
    BY <1>1, <1>2
  <1>5. a \in Seq(S) /\ Len(a) = n /\ \A i \in 1..n : a[i] = s[i]
    BY <1>2, <1>3, <1>4
  <1> QED
    BY <1>5 DEF a

\* The others follow.
LEMMA RestOf ==
    ASSUME NEW S, NEW s \in Seq(S), NEW n \in 0..Len(s)
    PROVE  /\ SubSeq(s, n + 1, Len(s)) \in Seq(S)
           /\ Len(SubSeq(s, n + 1, Len(s))) = Len(s) - n
           /\ \A i \in 1..(Len(s) - n) : SubSeq(s, n + 1, Len(s))[i] = s[n + i]
  <1> DEFINE b == SubSeq(s, n + 1, Len(s))
             m == Len(s)
             l == Len(b)
  <1>1. m \in Nat /\ n \in Nat /\ n <= m /\ \A i \in (n + 1)..m : s[i] \in S
    <2>1. s \in [1..m -> S] /\ m \in Nat
      BY LenProperties
    <2> HIDE DEF m
    <2>2. n \in Nat /\ n <= m /\ \A i \in (n + 1)..m : i \in 1..m
      BY <2>1 DEF m
    <2> QED
      BY <2>1, <2>2
  <1>2. /\ b \in Seq(S)
        /\ l = IF n + 1 <= m THEN m - (n + 1) + 1 ELSE 0
        /\ \A i \in 1..(m - (n + 1) + 1) : b[i] = s[n + 1 + i - 1]
    BY <1>1, SubSeqProperties
  <1> HIDE DEF b, m, l
  <1>3. \A i \in 1..(m - n) : i \in 1..(m - (n + 1) + 1) /\ n + 1 + i - 1 = n + i
    BY <1>1
  <1>4. l = m - n
    BY <1>1, <1>2
  <1>5. b \in Seq(S) /\ l = m - n /\ \A i \in 1..(m - n) : b[i] = s[n + i]
    BY <1>2, <1>3, <1>4
  <1> QED
    BY <1>5 DEF b, l, m

\* One place is taken out.
LEMMA RemoveHas ==
    ASSUME NEW S, NEW s \in Seq(S), NEW n \in 1..Len(s)
    PROVE  /\ RemoveAt(s, n) \in Seq(S)
           /\ RemoveAt(s, n) # <<>> => s # <<>>
           /\ \A x : Has(RemoveAt(s, n), x) => Has(s, x)
           /\ Distinct(s) => Distinct(RemoveAt(s, n)) /\ ~Has(RemoveAt(s, n), s[n])
  <1>1. Len(s) \in Nat /\ s \in [1..Len(s) -> S] /\ n \in Nat /\ 1 <= n /\ n <= Len(s)
    BY LenProperties
  <1> DEFINE a == SubSeq(s, 1, n - 1)
             b == SubSeq(s, n + 1, Len(s))
             t == RemoveAt(s, n)
  <1>2. a \in Seq(S) /\ Len(a) = n - 1 /\ \A i \in 1..(n - 1) : a[i] = s[i]
    <2>1. n - 1 \in 0..Len(s)
      BY <1>1
    <2> QED
      BY <2>1, FrontOf
  <1>3. b \in Seq(S) /\ Len(b) = Len(s) - n /\ \A i \in 1..(Len(s) - n) : b[i] = s[n + i]
    <2>1. n \in 0..Len(s)
      BY <1>1
    <2> QED
      BY <2>1, RestOf
  <1>4. t = a \o b
    BY DEF RemoveAt
  <1> HIDE DEF a, b, t
  <1>5. /\ t \in Seq(S) /\ Len(t) = Len(s) - 1
        /\ \A i \in 1..(n - 1) : t[i] = s[i]
        /\ \A i \in n..(Len(s) - 1) : t[i] = s[i + 1]
    <2>1. /\ t \in Seq(S) /\ Len(t) = Len(a) + Len(b)
          /\ \A i \in 1..(Len(a) + Len(b)) : t[i] = IF i <= Len(a) THEN a[i] ELSE b[i - Len(a)]
      BY <1>2, <1>3, <1>4, ConcatProperties
    <2>2. Len(t) = Len(s) - 1 /\ Len(a) + Len(b) = Len(s) - 1
      BY <1>1, <1>2, <1>3, <2>1
    <2>3. ASSUME NEW i \in 1..(n - 1) PROVE t[i] = s[i]
      <3>1. i \in 1..(Len(a) + Len(b)) /\ i <= Len(a)
        BY <1>1, <1>2, <2>2
      <3> QED
        BY <1>2, <2>1, <3>1
    <2>4. ASSUME NEW i \in n..(Len(s) - 1) PROVE t[i] = s[i + 1]
      <3>1. i \in 1..(Len(a) + Len(b)) /\ ~(i <= Len(a))
        BY <1>1, <1>2, <2>2
      <3>2. i - Len(a) \in 1..(Len(s) - n) /\ n + (i - Len(a)) = i + 1
        BY <1>1, <1>2
      <3> QED
        BY <1>3, <2>1, <3>1, <3>2
    <2> QED
      BY <2>1, <2>2, <2>3, <2>4
  <1> DEFINE from(i) == IF i < n THEN i ELSE i + 1
  <1>6. \A i \in 1..Len(t) : from(i) \in 1..Len(s) /\ from(i) # n /\ t[i] = s[from(i)]
    <2> SUFFICES ASSUME NEW i \in 1..Len(t)
                 PROVE  from(i) \in 1..Len(s) /\ from(i) # n /\ t[i] = s[from(i)]
      OBVIOUS
    <2>1. CASE i < n
      <3>1. i \in 1..(n - 1)
        BY <1>1, <1>5, <2>1
      <3> QED
        BY <1>1, <1>5, <2>1, <3>1
    <2>2. CASE ~(i < n)
      <3>1. i \in n..(Len(s) - 1)
        BY <1>1, <1>5, <2>2
      <3> QED
        BY <1>1, <1>5, <2>2, <3>1
    <2> QED
      BY <2>1, <2>2
  <1>7. \A i, j \in 1..Len(t) : from(i) = from(j) => i = j
    BY <1>1, <1>5
  <1> HIDE DEF from
  <1>8. t # <<>> => s # <<>>
    BY <1>1, EmptySeq
  <1>9. \A x : Has(t, x) => Has(s, x)
    BY <1>6 DEF Has
  <1>10. Distinct(s) => Distinct(t) /\ ~Has(t, s[n])
    BY <1>6, <1>7 DEF Distinct, Has
  <1> QED
    BY <1>5, <1>8, <1>9, <1>10 DEF t

-----------------------------------------------------------------------------
(* Consumers that wait.                                                    *)

\* A consumer waits once, in the queue or woken, and holds nothing meanwhile.
Waiters(gs, ws, h) ==
    /\ gs \in Seq(Consumers) /\ Distinct(gs)
    /\ ws \in SUBSET Consumers /\ IsFiniteSet(ws)
    /\ \A c \in Consumers : Has(gs, c) => c \notin ws
    /\ \A c \in Consumers : Has(gs, c) \/ c \in ws => h[c] = NoItem

\* What WakeNext does.
Wakes(gs, ws, gs2, ws2) ==
    IF gs = <<>>
    THEN gs2 = gs /\ ws2 = ws
    ELSE gs2 = Tail(gs) /\ ws2 = ws \union {Head(gs)}

\* The types of the queues, and as many consumers woken as there are items of
\* the default priority while others still wait.
QueueInv(S, q, gs, ws, h) ==
    /\ q \in [Priorities -> Seq(S)]
    /\ h \in [Consumers -> S \union {NoItem}]
    /\ Waiters(gs, ws, h)
    /\ gs # <<>> => Len(q[DefaultPriority]) <= Cardinality(ws)

\* The same consumers wait after a wakeup, one more of them woken.
LEMMA WakesWaiters ==
    ASSUME NEW gs, NEW ws, NEW h, Waiters(gs, ws, h),
           NEW gs2, NEW ws2, Wakes(gs, ws, gs2, ws2)
    PROVE  /\ Waiters(gs2, ws2, h)
           /\ Cardinality(ws) \in Nat
           /\ gs2 # <<>> => gs # <<>>
           /\ gs # <<>> => Cardinality(ws2) = Cardinality(ws) + 1
           /\ \A c \in Consumers : Has(gs2, c) \/ c \in ws2 => Has(gs, c) \/ c \in ws
  <1>1. Cardinality(ws) \in Nat
    BY FS_CardinalityType DEF Waiters
  <1>2. CASE gs = <<>>
    BY <1>1, <1>2 DEF Wakes
  <1>3. CASE gs # <<>>
    <2>1. gs2 = Tail(gs) /\ ws2 = ws \union {Head(gs)}
      BY <1>3 DEF Wakes
    <2>2. Head(gs) \in Consumers /\ gs2 \in Seq(Consumers)
      BY <1>3, <2>1, HeadAndTail DEF Waiters
    <2>3. /\ Has(gs, Head(gs))
          /\ \A x : Has(gs2, x) => Has(gs, x)
          /\ Distinct(gs2) /\ ~Has(gs2, Head(gs))
      BY <1>3, <2>1, TailHas DEF Waiters
    <2>4. Head(gs) \notin ws
      BY <2>2, <2>3 DEF Waiters
    <2>5. IsFiniteSet(ws2) /\ Cardinality(ws2) = Cardinality(ws) + 1
      BY <2>1, <2>4, FS_AddElement DEF Waiters
    <2>6. \A c \in Consumers : Has(gs2, c) \/ c \in ws2 => Has(gs, c) \/ c \in ws
      BY <2>1, <2>3
    <2>7. Waiters(gs2, ws2, h)
      BY <2>1, <2>2, <2>3, <2>5, <2>6 DEF Waiters
    <2> QED
      BY <1>1, <1>3, <2>5, <2>6, <2>7
  <1> QED
    BY <1>2, <1>3

\* There is a queue of the default priority.
LEMMA DefaultIsPriority == DefaultPriority \in Priorities
  BY DEF DefaultPriority, Priorities

\* An item joins a queue.
LEMMA PutQueue ==
    ASSUME NEW S, NEW q, NEW gs, NEW ws, NEW h, QueueInv(S, q, gs, ws, h),
           NEW x \in S, NEW p \in Priorities, NEW q2, NEW gs2, NEW ws2,
           q2 = [q EXCEPT ![p] = Append(q[p], x)],
           p = DefaultPriority => Wakes(gs, ws, gs2, ws2),
           p # DefaultPriority => gs2 = gs /\ ws2 = ws
    PROVE  QueueInv(S, q2, gs2, ws2, h)
  <1> DEFINE d == DefaultPriority
  <1>1. /\ q2 \in [Priorities -> Seq(S)] /\ q2[p] = Append(q[p], x)
        /\ \A r \in Priorities : r # p => q2[r] = q[r]
        /\ d \in Priorities /\ q[p] \in Seq(S) /\ q[d] \in Seq(S)
    BY AppendHas, DefaultIsPriority DEF QueueInv
  <1>2. Len(q[d]) \in Nat /\ (p = d => Len(q2[d]) = Len(q[d]) + 1)
    BY <1>1, AppendHas, LenProperties
  <1>3. CASE p = d
    <2>1. Wakes(gs, ws, gs2, ws2) /\ Waiters(gs, ws, h)
      BY <1>3 DEF QueueInv
    <2>2. /\ Waiters(gs2, ws2, h)
          /\ Cardinality(ws) \in Nat
          /\ gs2 # <<>> => gs # <<>>
          /\ gs # <<>> => Cardinality(ws2) = Cardinality(ws) + 1
      BY <2>1, WakesWaiters
    <2>3. gs2 # <<>> => Len(q2[d]) <= Cardinality(ws2)
      BY <1>2, <1>3, <2>2 DEF QueueInv
    <2> QED
      BY <1>1, <2>2, <2>3 DEF QueueInv
  <1>4. CASE p # d
    BY <1>1, <1>4 DEF QueueInv
  <1> QED
    BY <1>3, <1>4

\* A consumer takes an item, woken for it if it is one of the default priority.
LEMMA TakeQueue ==
    ASSUME NEW S, NEW q, NEW gs, NEW ws, NEW h, QueueInv(S, q, gs, ws, h),
           NEW p \in Priorities, q[p] # <<>>, NEW c \in Consumers,
           ~Has(gs, c), c \in ws => p = DefaultPriority,
           NEW q2, NEW ws2, NEW h2,
           q2 = [q EXCEPT ![p] = Tail(q[p])],
           h2 = [h EXCEPT ![c] = Head(q[p])],
           ws2 = ws \ {c}
    PROVE  QueueInv(S, q2, gs, ws2, h2)
  <1> DEFINE d == DefaultPriority
  <1>1. d \in Priorities /\ q[p] \in Seq(S) /\ q[d] \in Seq(S)
    BY DefaultIsPriority DEF QueueInv
  <1>2. Tail(q[p]) \in Seq(S) /\ Len(Tail(q[p])) = Len(q[p]) - 1 /\ Head(q[p]) \in S
    BY <1>1, HeadAndTail
  <1>3. /\ q2 \in [Priorities -> Seq(S)] /\ q2[p] = Tail(q[p])
        /\ \A r \in Priorities : r # p => q2[r] = q[r]
        /\ h2 \in [Consumers -> S \union {NoItem}]
        /\ \A e \in Consumers : e # c => h2[e] = h[e]
    BY <1>2 DEF QueueInv
  <1>4. Len(q[d]) \in Nat /\ Cardinality(ws) \in Nat
    BY <1>1, LenProperties, FS_CardinalityType DEF QueueInv, Waiters
  <1>5. IsFiniteSet(ws2) /\ ws2 \in SUBSET Consumers
    BY FS_Subset DEF QueueInv, Waiters
  <1>6. Waiters(gs, ws2, h2)
    BY <1>3, <1>5 DEF QueueInv, Waiters
  <1>7. gs # <<>> => Len(q2[d]) <= Cardinality(ws2)
    <2>1. CASE c \in ws
      <3>1. Cardinality(ws2) = Cardinality(ws) - 1
        BY <2>1, FS_RemoveElement DEF QueueInv, Waiters
      <3>2. Len(q2[d]) = Len(q[d]) - 1
        BY <1>2, <1>3, <2>1
      <3> QED
        BY <1>4, <3>1, <3>2 DEF QueueInv
    <2>2. CASE c \notin ws
      <3>1. ws2 = ws
        BY <2>2
      <3>2. Len(q2[d]) <= Len(q[d])
        BY <1>1, <1>2, <1>3, <1>4
      <3>3. Len(q2[d]) \in Nat
        BY <1>1, <1>3, LenProperties
      <3>4. gs # <<>> => Len(q[d]) <= Cardinality(ws)
        BY DEF QueueInv
      <3> DEFINE l == Len(q[d])
                 l2 == Len(q2[d])
                 n == Cardinality(ws)
      <3>5. l \in Nat /\ l2 \in Nat /\ n \in Nat /\ l2 <= l /\ (gs # <<>> => l <= n)
        BY <1>4, <3>2, <3>3, <3>4
      <3> HIDE DEF l, l2, n
      <3>6. gs # <<>> => l2 <= n
        BY <3>5
      <3> QED
        BY <3>1, <3>6 DEF l2, n
    <2> QED
      BY <2>1, <2>2
  <1> QED
    BY <1>3, <1>6, <1>7 DEF QueueInv

\* A consumer that finds nothing waits, again if it had been woken.
LEMMA WaitQueue ==
    ASSUME NEW S, NEW q, NEW gs, NEW ws, NEW h, QueueInv(S, q, gs, ws, h),
           q[DefaultPriority] = <<>>, NEW c \in Consumers,
           ~Has(gs, c), h[c] = NoItem, NEW gs2, NEW ws2,
           gs2 = Append(gs, c), ws2 = ws \ {c}
    PROVE  QueueInv(S, q, gs2, ws2, h)
  <1>1. /\ gs2 \in Seq(Consumers) /\ Distinct(gs2)
        /\ \A x : Has(gs2, x) <=> Has(gs, x) \/ x = c
    BY AppendHas DEF QueueInv, Waiters
  <1>2. IsFiniteSet(ws2) /\ Cardinality(ws2) \in Nat
    BY FS_Subset, FS_CardinalityType DEF QueueInv, Waiters
  <1>3. Waiters(gs2, ws2, h)
    BY <1>1, <1>2 DEF QueueInv, Waiters
  <1>4. Len(q[DefaultPriority]) = 0
    BY EmptySeq
  <1> QED
    BY <1>2, <1>3, <1>4 DEF QueueInv

\* A consumer gives up; a wakeup in its hands goes to the next.
LEMMA GiveUpQueue ==
    ASSUME NEW S, NEW q, NEW gs, NEW ws, NEW h, QueueInv(S, q, gs, ws, h),
           NEW c \in Consumers, NEW gs2, NEW ws2,
           \/ \E i \in 1..Len(gs) : gs[i] = c /\ gs2 = RemoveAt(gs, i) /\ ws2 = ws
           \/ /\ c \in ws
              /\ IF q[DefaultPriority] # <<>>
                 THEN Wakes(gs, ws \ {c}, gs2, ws2)
                 ELSE gs2 = gs /\ ws2 = ws \ {c}
    PROVE  /\ QueueInv(S, q, gs2, ws2, h)
           /\ \A e \in Consumers : Has(gs2, e) \/ e \in ws2 => Has(gs, e) \/ e \in ws
  <1> DEFINE d == DefaultPriority
             v == ws \ {c}
  <1>1. d \in Priorities /\ q[d] \in Seq(S) /\ Len(q[d]) \in Nat /\ Cardinality(ws) \in Nat
    BY LenProperties, FS_CardinalityType, DefaultIsPriority DEF QueueInv, Waiters
  <1>2. CASE \E i \in 1..Len(gs) : gs[i] = c /\ gs2 = RemoveAt(gs, i) /\ ws2 = ws
    <2>1. PICK i \in 1..Len(gs) : gs[i] = c /\ gs2 = RemoveAt(gs, i)
      BY <1>2
    <2>2. /\ gs2 \in Seq(Consumers) /\ Distinct(gs2)
          /\ gs2 # <<>> => gs # <<>>
          /\ \A x : Has(gs2, x) => Has(gs, x)
      BY <2>1, RemoveHas DEF QueueInv, Waiters
    <2> QED
      BY <1>2, <2>2 DEF QueueInv, Waiters
  <1>3. CASE c \in ws /\ IF q[d] # <<>> THEN Wakes(gs, v, gs2, ws2) ELSE gs2 = gs /\ ws2 = v
    <2>1. IsFiniteSet(v) /\ Cardinality(v) = Cardinality(ws) - 1
      BY <1>3, FS_RemoveElement DEF QueueInv, Waiters
    <2>2. Waiters(gs, v, h)
      BY <2>1 DEF QueueInv, Waiters
    <2>3. CASE q[d] # <<>>
      <3>1. Wakes(gs, v, gs2, ws2)
        BY <1>3, <2>3
      <3> HIDE DEF v
      <3>2. /\ Waiters(gs2, ws2, h)
            /\ gs2 # <<>> => gs # <<>>
            /\ gs # <<>> => Cardinality(ws2) = Cardinality(v) + 1
            /\ \A e \in Consumers : Has(gs2, e) \/ e \in ws2 => Has(gs, e) \/ e \in v
        BY <2>2, <3>1, WakesWaiters
      <3>3. gs2 # <<>> => Len(q[d]) <= Cardinality(ws2)
        BY <1>1, <2>1, <3>2 DEF QueueInv
      <3> QED
        BY <3>2, <3>3 DEF QueueInv, v
    <2>4. CASE q[d] = <<>>
      <3>1. Len(q[d]) = 0 /\ gs2 = gs /\ ws2 = v
        BY <1>3, <2>4, EmptySeq
      <3>2. Cardinality(v) \in Nat
        BY <2>1, FS_CardinalityType
      <3> QED
        BY <2>2, <3>1, <3>2 DEF QueueInv
    <2> QED
      BY <2>3, <2>4
  <1> QED
    BY <1>2, <1>3

\* A consumer is done with its item.
LEMMA ReleaseQueue ==
    ASSUME NEW S, NEW q, NEW gs, NEW ws, NEW h, QueueInv(S, q, gs, ws, h),
           NEW c \in Consumers, NEW h2, h2 = [h EXCEPT ![c] = NoItem]
    PROVE  QueueInv(S, q, gs, ws, h2)
  BY DEF QueueInv, Waiters

-----------------------------------------------------------------------------
(* Places in the queues.                                                   *)

\* x is queued.
In(q, x) == \E p \in Priorities : Has(q[p], x)

\* Nothing is queued twice.
Unique(q) ==
    /\ \A p \in Priorities : Distinct(q[p])
    /\ \A p, r \in Priorities : \A x : Has(q[p], x) /\ Has(q[r], x) => p = r

\* x joins the queue p, or is the one that leaves it.
Joins(S, q, q2, p, x) ==
    /\ q \in [Priorities -> Seq(S)] /\ p \in Priorities /\ x \in S
    /\ q2 = [q EXCEPT ![p] = Append(q[p], x)]

Leaves(S, q, q2, p, x) ==
    /\ q \in [Priorities -> Seq(S)] /\ p \in Priorities /\ q[p] # <<>>
    /\ x = Head(q[p])
    /\ q2 = [q EXCEPT ![p] = Tail(q[p])]

\* What has joined a queue is queued, and nothing else has become so.
Joined(q, q2, x) ==
    /\ \A y : In(q2, y) <=> In(q, y) \/ y = x
    /\ Unique(q) /\ ~In(q, x) => Unique(q2)

\* What left was queued, and of what is queued once no place is left.
Left(S, q, q2, x) ==
    /\ x \in S /\ In(q, x)
    /\ \A r \in Priorities : \A y : Has(q2[r], y) => Has(q[r], y)
    /\ \A y : In(q2, y) => In(q, y)
    /\ \A y : In(q, y) => In(q2, y) \/ y = x
    /\ Unique(q) => Unique(q2) /\ ~In(q2, x)

\* Places after an item joined.
LEMMA PutPlaces ==
    ASSUME NEW S, NEW q, NEW q2, NEW p, NEW x, Joins(S, q, q2, p, x)
    PROVE  Joined(q, q2, x)
  <1>1. /\ p \in Priorities /\ x \in S /\ q[p] \in Seq(S) /\ q2[p] = Append(q[p], x)
        /\ \A r \in Priorities : r # p => q2[r] = q[r]
    BY DEF Joins
  <1>2. /\ \A y : Has(q2[p], y) <=> Has(q[p], y) \/ y = x
        /\ Distinct(q[p]) /\ ~Has(q[p], x) => Distinct(q2[p])
    BY <1>1, AppendHas
  <1>3. \A y : In(q2, y) <=> In(q, y) \/ y = x
    BY <1>1, <1>2 DEF In
  <1>4. ASSUME Unique(q), ~In(q, x) PROVE Unique(q2)
    <2>1. \A r \in Priorities : ~Has(q[r], x)
      BY <1>4 DEF In
    <2>2. \A r \in Priorities : Distinct(q2[r])
      BY <1>1, <1>2, <1>4, <2>1 DEF Unique
    <2>3. \A r, s \in Priorities : \A y : Has(q2[r], y) /\ Has(q2[s], y) => r = s
      BY <1>1, <1>2, <1>4, <2>1 DEF Unique
    <2> QED
      BY <2>2, <2>3 DEF Unique
  <1> QED
    BY <1>3, <1>4 DEF Joined

\* Places after an item left.
LEMMA TakePlaces ==
    ASSUME NEW S, NEW q, NEW q2, NEW p, NEW x, Leaves(S, q, q2, p, x)
    PROVE  Left(S, q, q2, x)
  <1>1. /\ p \in Priorities /\ q[p] \in Seq(S) /\ q[p] # <<>> /\ q2[p] = Tail(q[p])
        /\ x = Head(q[p])
        /\ \A r \in Priorities : r # p => q2[r] = q[r]
    BY DEF Leaves
  <1>2. /\ Has(q[p], x)
        /\ \A y : Has(q2[p], y) => Has(q[p], y)
        /\ \A y : Has(q[p], y) => Has(q2[p], y) \/ y = x
        /\ Distinct(q[p]) => Distinct(q2[p]) /\ ~Has(q2[p], x)
    BY <1>1, TailHas
  <1>3. x \in S
    BY <1>1, HeadAndTail
  <1>4. \A r \in Priorities : \A y : Has(q2[r], y) => Has(q[r], y)
    BY <1>1, <1>2
  <1>5. \A y : In(q2, y) => In(q, y)
    BY <1>4 DEF In
  <1>6. \A y : In(q, y) => In(q2, y) \/ y = x
    BY <1>1, <1>2 DEF In
  <1>7. ASSUME Unique(q) PROVE Unique(q2) /\ ~In(q2, x)
    <2>1. Distinct(q2[p]) /\ ~Has(q2[p], x)
      BY <1>1, <1>2, <1>7 DEF Unique
    <2>2. \A r \in Priorities : Distinct(q2[r])
      BY <1>1, <1>7, <2>1 DEF Unique
    <2>3. Unique(q2)
      BY <1>4, <1>7, <2>2 DEF Unique
    <2>4. \A r \in Priorities : ~Has(q2[r], x)
      BY <1>1, <1>2, <1>4, <1>7, <2>1 DEF Unique
    <2> QED
      BY <2>3, <2>4 DEF In
  <1>8. In(q, x)
    BY <1>1, <1>2 DEF In
  <1> QED
    BY <1>3, <1>4, <1>5, <1>6, <1>7, <1>8 DEF Left

-----------------------------------------------------------------------------
(* The main lane.                                                          *)

\* A key's entry is a task with that key.
CacheInv == \A k \in Keys : idempotency_cache[k] # NoTask => KeyOf[idempotency_cache[k]] = k

\* Who has overtaken a task that is still queued above has not waited since.
OvertakenInv ==
    \A t \in Items : \A c \in overtaken[t] :
        t \in Accepted /\ (QueuedAbove(t) => ~Has(getters, c) /\ c \notin woken)

\* ExactlyOncePerKey in terms of places.
PlacesInv ==
    /\ Unique(pq)
    /\ \A c, d \in Consumers : holding[c] = holding[d] /\ holding[c] # NoItem => c = d
    /\ \A t \in Items :
          /\ t \in Accepted <=> In(pq, t) \/ Held(t) \/ t \in finished
          /\ ~(In(pq, t) /\ Held(t))
          /\ t \in finished => ~In(pq, t) /\ ~Held(t)

MainInv ==
    /\ TypeOK
    /\ QueueInv(Items, pq, getters, woken, holding)
    /\ CacheInv
    /\ PlacesInv
    /\ OvertakenInv

\* Types, and what the properties ask for, follow.
LEMMA MainImplies == MainInv => ExactlyOncePerKey /\ NoLostWakeup
  <1> SUFFICES ASSUME MainInv PROVE ExactlyOncePerKey /\ NoLostWakeup
    OBVIOUS
  <1>1. OnePlaceEach
    <2>1. ASSUME NEW p \in Priorities, NEW r \in Priorities,
                 NEW i \in 1..Len(pq[p]), NEW j \in 1..Len(pq[r]), pq[p][i] = pq[r][j]
          PROVE  p = r /\ i = j
      <3>1. Has(pq[p], pq[p][i]) /\ Has(pq[r], pq[p][i])
        BY <2>1 DEF Has
      <3>2. p = r /\ Distinct(pq[p])
        BY <3>1 DEF MainInv, PlacesInv, Unique
      <3> QED
        BY <2>1, <3>2 DEF Distinct
    <2> QED
      BY <2>1 DEF OnePlaceEach, MainInv, PlacesInv
  <1>2. \A t \in Items : Queued(t) <=> In(pq, t)
    BY DEF Queued, In, Has
  <1>3. \A t, u \in Accepted : KeyOf[t] = KeyOf[u] => t = u
    BY DEF Accepted, MainInv, CacheInv
  <1>4. ExactlyOncePerKey
    BY <1>1, <1>2, <1>3 DEF ExactlyOncePerKey, MainInv, PlacesInv
  <1>5. NoLostWakeup
    <2> SUFFICES ASSUME pq[DefaultPriority] # <<>>, getters # <<>>, woken = {} PROVE FALSE
      BY DEF NoLostWakeup
    <2>1. pq[DefaultPriority] \in Seq(Items)
      BY DefaultIsPriority DEF MainInv, QueueInv
    <2>2. Len(pq[DefaultPriority]) \in Nat \ {0}
      BY <2>1, EmptySeq
    <2>3. Len(pq[DefaultPriority]) <= Cardinality(woken) /\ Cardinality(woken) = 0
      BY FS_EmptySet DEF MainInv, QueueInv
    <2> QED
      BY <2>2, <2>3
  <1> QED
    BY <1>4, <1>5

\* Nothing is queued at first.
LEMMA EmptyQueues ==
    ASSUME NEW S, NEW q, q = [p \in Priorities |-> <<>>]
    PROVE  q \in [Priorities -> Seq(S)] /\ Unique(q) /\ \A x : ~In(q, x)
  <1>1. <<>> \in Seq(S) /\ Len(<<>>) = 0
    BY EmptySeq
  <1>2. \A x : ~Has(<<>>, x)
    BY <1>1 DEF Has
  <1>3. Distinct(<<>>)
    BY <1>1 DEF Distinct
  <1> QED
    BY <1>1, <1>2, <1>3 DEF Unique, In

\* Nobody waits at first.
LEMMA InitQueue ==
    ASSUME NEW S, NEW q, NEW gs, NEW ws, NEW h, q = [p \in Priorities |-> <<>>],
           gs = <<>>, ws = {}, h = [c \in Consumers |-> NoItem]
    PROVE  QueueInv(S, q, gs, ws, h)
  <1>1. gs \in Seq(Consumers) /\ Len(gs) = 0
    BY EmptySeq
  <1>2. Waiters(gs, ws, h)
    BY <1>1, FS_EmptySet DEF Waiters, Has, Distinct
  <1> QED
    BY <1>2, EmptyQueues DEF QueueInv

\* The main lane starts empty.
LEMMA MainInit == Init => MainInv
  <1> SUFFICES ASSUME Init PROVE MainInv
    OBVIOUS
  <1>1. QueueInv(Items, pq, getters, woken, holding)
    BY InitQueue DEF Init, QueueInit
  <1>2. TypeOK
    <2>1. QueueTypeOK
      BY <1>1 DEF QueueTypeOK, QueueInv, Waiters
    <2> QED
      BY <2>1 DEF TypeOK, Init
  <1>3. Accepted = {} /\ \A k \in Keys : idempotency_cache[k] = NoTask
    BY DEF Init, Accepted
  <1>4. PlacesInv
    <2>1. Unique(pq) /\ \A x : ~In(pq, x)
      BY EmptyQueues DEF Init, QueueInit
    <2> QED
      BY <1>3, <2>1, QueueAssumption DEF PlacesInv, Init, QueueInit, Held
  <1> QED
    BY <1>1, <1>2, <1>3, <1>4 DEF MainInv, CacheInv, OvertakenInv, Init

\* The two outcomes of Dequeue and Resume: c takes the head of the queue p ...
Takes(q, gs, ws, h, q2, gs2, ws2, h2, c, p) ==
    /\ p \in Priorities /\ q[p] # <<>>
    /\ ~Has(gs, c) /\ h[c] = NoItem
    /\ c \in ws => p = DefaultPriority
    /\ c \notin ws => \A r \in Priorities : r > p => q[r] = <<>>
    /\ q2 = [q EXCEPT ![p] = Tail(q[p])]
    /\ h2 = [h EXCEPT ![c] = Head(q[p])]
    /\ gs2 = gs
    /\ ws2 = ws \ {c}

\* ... or it waits.
Waits(q, gs, ws, h, q2, gs2, ws2, h2, c) ==
    /\ q[DefaultPriority] = <<>>
    /\ c \notin ws => \A r \in Priorities : q[r] = <<>>
    /\ ~Has(gs, c) /\ h[c] = NoItem
    /\ gs2 = Append(gs, c)
    /\ ws2 = ws \ {c}
    /\ q2 = q /\ h2 = h

\* There is no third outcome.
LEMMA MainDequeue ==
    ASSUME MainInv, NEW c \in Consumers, Dequeue(c) \/ Resume(c)
    PROVE  \/ \E p \in Priorities :
                 Takes(pq, getters, woken, holding, pq', getters', woken', holding', c, p)
           \/ Waits(pq, getters, woken, holding, pq', getters', woken', holding', c)
  <1>1. /\ Has(getters, c) => c \notin woken
        /\ Has(getters, c) \/ c \in woken => holding[c] = NoItem
    BY DEF MainInv, QueueInv, Waiters
  <1>2. Waiting(c) <=> c \in woken \/ Has(getters, c)
    BY DEF Waiting, Has
  <1>3. CASE Dequeue(c)
    <2>1. holding[c] = NoItem /\ ~Has(getters, c) /\ c \notin woken /\ woken = woken \ {c}
      BY <1>2, <1>3 DEF Dequeue
    <2>2. CASE \E p \in Priorities : NextPriority(p) /\ Take(c, p) /\ UNCHANGED <<getters, woken>>
      BY <2>1, <2>2 DEF Takes, Take, NextPriority
    <2>3. CASE /\ \A p \in Priorities : pq[p] = <<>>
               /\ getters' = Append(getters, c)
               /\ UNCHANGED <<pq, woken, holding>>
      BY <2>1, <2>3, DefaultIsPriority DEF Waits
    <2> QED
      BY <1>3, <2>2, <2>3 DEF Dequeue
  <1>4. CASE Resume(c)
    <2>1. c \in woken /\ holding[c] = NoItem /\ ~Has(getters, c) /\ woken' = woken \ {c}
      BY <1>1, <1>4 DEF Resume
    <2>2. CASE Take(c, DefaultPriority) /\ UNCHANGED getters
      BY <2>1, <2>2, DefaultIsPriority DEF Takes, Take
    <2>3. CASE /\ pq[DefaultPriority] = <<>>
               /\ getters' = Append(getters, c)
               /\ UNCHANGED <<pq, holding>>
      BY <2>1, <2>3 DEF Waits
    <2> QED
      BY <1>4, <2>2, <2>3 DEF Resume
  <1> QED
    BY <1>3, <1>4

\* The queues after the consumer has taken an item.
LEMMA TakesQueue ==
    ASSUME NEW S, NEW q, NEW gs, NEW ws, NEW h, QueueInv(S, q, gs, ws, h),
           NEW q2, NEW gs2, NEW ws2, NEW h2, NEW c \in Consumers, NEW p,
           Takes(q, gs, ws, h, q2, gs2, ws2, h2, c, p)
    PROVE  QueueInv(S, q2, gs2, ws2, h2)
  BY TakeQueue DEF Takes

\* The queues after the consumer has begun to wait.
LEMMA WaitsQueue ==
    ASSUME NEW S, NEW q, NEW gs, NEW ws, NEW h, QueueInv(S, q, gs, ws, h),
           NEW q2, NEW gs2, NEW ws2, NEW h2, NEW c \in Consumers,
           Waits(q, gs, ws, h, q2, gs2, ws2, h2, c)
    PROVE  QueueInv(S, q2, gs2, ws2, h2)
  BY WaitQueue DEF Waits

\* A task is queued above the default priority.
Above(q, t) == \E p \in Priorities : p > DefaultPriority /\ Has(q[p], t)

\* The same in the words of the model.
LEMMA AboveIsQueuedAbove ==
    ASSUME NEW q \in [Priorities -> Seq(Items)], NEW t
    PROVE  (\E p \in Priorities : p > DefaultPriority /\ t \in ToSet(q[p])) <=> Above(q, t)
  <1>1. \A p \in Priorities : DOMAIN q[p] = 1..Len(q[p])
    BY LenProperties
  <1>2. \A p \in Priorities : t \in ToSet(q[p]) <=> Has(q[p], t)
    BY <1>1 DEF ToSet, Has
  <1> QED
    BY <1>2 DEF Above

\* Somebody asks for an item: the rest of the lane after the step.
LEMMA MainTakes ==
    ASSUME MainInv, NEW c \in Consumers, NEW p \in Priorities,
           Takes(pq, getters, woken, holding, pq', getters', woken', holding', c, p),
           UNCHANGED <<idempotency_cache, expired, finished>>,
           overtaken' = [t \in Items |->
               IF QueuedAbove(t) /\ TakesDefault(c) THEN overtaken[t] \union {c} ELSE overtaken[t]]
    PROVE  MainInv'
  <1> DEFINE x == Head(pq[p])
  <1>1. QueueInv(Items, pq', getters', woken', holding')
    BY TakesQueue DEF MainInv
  <1>2. overtaken' \in [Items -> SUBSET Consumers]
    BY DEF MainInv, TypeOK
  <1>3. TypeOK'
    BY <1>1, <1>2 DEF TypeOK, QueueTypeOK, QueueInv, Waiters, MainInv
  <1>4. CacheInv'
    BY DEF MainInv, CacheInv
  <1>5. /\ x \in Items /\ In(pq, x)
        /\ \A r \in Priorities : \A y : Has(pq'[r], y) => Has(pq[r], y)
        /\ \A y : In(pq', y) => In(pq, y)
        /\ \A y : In(pq, y) => In(pq', y) \/ y = x
        /\ Unique(pq') /\ ~In(pq', x)
    <2>1. Leaves(Items, pq, pq', p, x)
      BY DEF Leaves, Takes, MainInv, QueueInv
    <2>2. Left(Items, pq, pq', x)
      BY <2>1, TakePlaces
    <2> QED
      BY <2>2 DEF Left, MainInv, PlacesInv
  <1>6. /\ holding[c] = NoItem /\ holding'[c] = x /\ x # NoItem
        /\ \A d \in Consumers : d # c => holding'[d] = holding[d]
    BY <1>5, QueueAssumption DEF Takes, MainInv, QueueInv
  <1> HIDE DEF x
  <1>7. \A t \in Items : Held(t)' <=> Held(t) \/ t = x
    BY <1>5, <1>6, QueueAssumption DEF Held
  <1>8. ~Held(x) /\ x \notin finished /\ x \in Accepted
    BY <1>5 DEF MainInv, PlacesInv
  <1>9. Accepted' = Accepted
    BY DEF Accepted
  <1>10. PlacesInv'
    <2>1. \A d, e \in Consumers : holding'[d] = holding'[e] /\ holding'[d] # NoItem => d = e
      BY <1>6, <1>8 DEF Held, MainInv, PlacesInv
    <2>2. \A t \in Items :
             /\ t \in Accepted <=> In(pq', t) \/ Held(t)' \/ t \in finished
             /\ ~(In(pq', t) /\ Held(t)')
             /\ t \in finished => ~In(pq', t) /\ ~Held(t)'
      BY <1>5, <1>7, <1>8 DEF MainInv, PlacesInv
    <2> QED
      BY <1>5, <1>9, <2>1, <2>2 DEF PlacesInv
  <1>11. OvertakenInv'
    <2> SUFFICES ASSUME NEW t \in Items, NEW e \in overtaken'[t]
                 PROVE  t \in Accepted /\ (QueuedAbove(t)' => ~Has(getters', e) /\ e \notin woken')
      BY <1>9 DEF OvertakenInv
    <2>1. QueuedAbove(t) <=> Above(pq, t)
      BY AboveIsQueuedAbove DEF QueuedAbove, MainInv, QueueInv
    <2>2. QueuedAbove(t)' <=> Above(pq', t)
      BY <1>1, AboveIsQueuedAbove DEF QueuedAbove, QueueInv
    <2>3. QueuedAbove(t)' => QueuedAbove(t)
      BY <1>5, <2>1, <2>2 DEF Above
    <2>4. getters' = getters /\ woken' = woken \ {c} /\ ~Has(getters, c)
      BY DEF Takes
    <2>5. CASE e \in overtaken[t]
      BY <2>3, <2>4, <2>5 DEF MainInv, OvertakenInv
    <2>6. CASE e \notin overtaken[t]
      <3>1. e = c /\ QueuedAbove(t)
        BY <2>6
      <3>2. t \in Accepted
        BY <2>1, <3>1 DEF Above, In, MainInv, PlacesInv
      <3> QED
        BY <2>4, <3>1, <3>2
    <2> QED
      BY <2>5, <2>6
  <1> QED
    BY <1>1, <1>3, <1>4, <1>10, <1>11 DEF MainInv

\* It waits: if anything is queued above, the consumer was woken and has
\* overtaken none of it.
LEMMA MainWaits ==
    ASSUME MainInv, NEW c \in Consumers,
           Waits(pq, getters, woken, holding, pq', getters', woken', holding', c),
           UNCHANGED <<idempotency_cache, expired, finished>>,
           overtaken' = [t \in Items |->
               IF QueuedAbove(t) /\ TakesDefault(c) THEN overtaken[t] \union {c} ELSE overtaken[t]]
    PROVE  MainInv'
  <1>1. QueueInv(Items, pq', getters', woken', holding')
    BY WaitsQueue DEF MainInv
  <1>2. /\ pq' = pq /\ holding' = holding /\ pq[DefaultPriority] = <<>>
        /\ getters' = Append(getters, c) /\ woken' = woken \ {c}
    BY DEF Waits
  <1>3. overtaken' = overtaken
    BY <1>2 DEF TakesDefault, MainInv, TypeOK
  <1>4. TypeOK'
    BY <1>1, <1>3 DEF TypeOK, QueueTypeOK, QueueInv, Waiters, MainInv
  <1>5. CacheInv' /\ PlacesInv' /\ Accepted' = Accepted
    BY <1>2 DEF MainInv, CacheInv, PlacesInv, Held, Accepted
  <1>6. OvertakenInv'
    <2> SUFFICES ASSUME NEW t \in Items, NEW e \in overtaken[t], QueuedAbove(t)
                 PROVE  ~Has(getters', e) /\ e \notin woken'
      BY <1>2, <1>3, <1>5 DEF OvertakenInv, QueuedAbove, MainInv
    <2>1. Above(pq, t)
      BY AboveIsQueuedAbove DEF QueuedAbove, MainInv, QueueInv
    <2>2. ~Has(getters, e) /\ e \notin woken
      BY DEF MainInv, OvertakenInv
    <2>3. c \in woken
      <3> SUFFICES ASSUME c \notin woken PROVE FALSE
        OBVIOUS
      <3>1. PICK p \in Priorities : Has(pq[p], t)
        BY <2>1 DEF Above
      <3>2. pq[p] = <<>> /\ Len(<<>>) = 0
        BY EmptySeq DEF Waits
      <3> QED
        BY <3>1, <3>2 DEF Has
    <2>4. \A y : Has(getters', y) <=> Has(getters, y) \/ y = c
      BY <1>2, AppendHas DEF MainInv, QueueInv, Waiters
    <2> QED
      BY <1>2, <2>2, <2>3, <2>4
  <1> QED
    BY <1>1, <1>4, <1>5, <1>6 DEF MainInv

\* A request that is accepted.
LEMMA MainEnqueues ==
    ASSUME MainInv, NEW t \in Items, NEW priority \in Requested, EnqueueTask(t, priority)
    PROVE  MainInv'
  <1> DEFINE p == Clamp(priority)
             k == KeyOf[t]
  <1>1. p \in Priorities /\ k \in Keys
    BY MainAssumption DEF Clamp, Priorities, Keys
  <1>2. /\ idempotency_cache[k] = NoTask /\ t # NoTask
        /\ idempotency_cache' = [idempotency_cache EXCEPT ![k] = t]
        /\ UNCHANGED <<expired, finished, overtaken, holding>>
        /\ pq' = [pq EXCEPT ![p] = Append(pq[p], t)]
    BY MainAssumption DEF EnqueueTask, Known, Put
  <1>3. /\ p = DefaultPriority => Wakes(getters, woken, getters', woken')
        /\ p # DefaultPriority => getters' = getters /\ woken' = woken
    BY DEF EnqueueTask, Put, WakeNext, Wakes
  <1> HIDE DEF p, k
  <1>4. QueueInv(Items, pq', getters', woken', holding')
    BY <1>1, <1>2, <1>3, PutQueue DEF MainInv
  <1>5. /\ idempotency_cache' \in [Keys -> Items \union {NoTask}]
        /\ idempotency_cache'[k] = t
        /\ \A l \in Keys : l # k => idempotency_cache'[l] = idempotency_cache[l]
    BY <1>1, <1>2 DEF MainInv, TypeOK
  <1>6. TypeOK'
    BY <1>2, <1>4, <1>5 DEF TypeOK, QueueTypeOK, QueueInv, Waiters, MainInv
  <1>7. CacheInv'
    BY <1>2, <1>5 DEF MainInv, CacheInv, k
  <1>8. Accepted' = Accepted \union {t} /\ t \notin Accepted
    <2>1. Accepted' = Accepted \union {t}
      BY <1>1, <1>2, <1>5 DEF Accepted
    <2>2. t \notin Accepted
      BY <1>2 DEF Accepted, MainInv, CacheInv, k
    <2> QED
      BY <2>1, <2>2
  <1>9. ~In(pq, t) /\ ~Held(t) /\ t \notin finished
    BY <1>8 DEF MainInv, PlacesInv
  <1>10. Unique(pq') /\ \A y : In(pq', y) <=> In(pq, y) \/ y = t
    <2>1. Joins(Items, pq, pq', p, t)
      BY <1>1, <1>2 DEF Joins, MainInv, QueueInv
    <2>2. Joined(pq, pq', t)
      BY <2>1, PutPlaces
    <2> QED
      BY <1>9, <2>2 DEF Joined, MainInv, PlacesInv
  <1>11. PlacesInv'
    <2>1. \A u \in Items : Held(u)' <=> Held(u)
      BY <1>2 DEF Held
    <2> QED
      BY <1>2, <1>8, <1>9, <1>10, <2>1 DEF MainInv, PlacesInv
  <1>12. OvertakenInv'
    <2> SUFFICES ASSUME NEW u \in Items, NEW e \in overtaken[u]
                 PROVE  u \in Accepted' /\ (QueuedAbove(u)' => ~Has(getters', e) /\ e \notin woken')
      BY <1>2 DEF OvertakenInv
    <2>1. u \in Accepted /\ u # t
      BY <1>8 DEF MainInv, OvertakenInv
    <2>2. QueuedAbove(u) <=> Above(pq, u)
      BY AboveIsQueuedAbove DEF QueuedAbove, MainInv, QueueInv
    <2>3. QueuedAbove(u)' <=> Above(pq', u)
      BY <1>4, AboveIsQueuedAbove DEF QueuedAbove, QueueInv
    <2>4. \A r \in Priorities : Has(pq'[r], u) => Has(pq[r], u)
      <3>1. \A y : Has(pq'[p], y) <=> Has(pq[p], y) \/ y = t
        BY <1>1, <1>2, AppendHas DEF MainInv, QueueInv
      <3>2. \A r \in Priorities : r # p => pq'[r] = pq[r]
        BY <1>1, <1>2 DEF MainInv, QueueInv
      <3> QED
        BY <2>1, <3>1, <3>2
    <2>5. QueuedAbove(u)' => QueuedAbove(u)
      BY <2>2, <2>3, <2>4 DEF Above
    <2>6. QueuedAbove(u) => ~Has(getters, e) /\ e \notin woken
      BY DEF MainInv, OvertakenInv
    <2>7. Has(getters', e) \/ e \in woken' => Has(getters, e) \/ e \in woken
      <3>1. e \in Consumers
        BY DEF MainInv, TypeOK
      <3> QED
        BY <1>3, <3>1, WakesWaiters DEF MainInv, QueueInv
    <2> QED
      BY <1>8, <2>1, <2>5, <2>6, <2>7
  <1> QED
    BY <1>4, <1>6, <1>7, <1>11, <1>12 DEF MainInv

\* A consumer gives up.
LEMMA MainTimeOut ==
    ASSUME MainInv, NEW c \in Consumers, TimeOut(c)
    PROVE  MainInv'
  <1>1. UNCHANGED <<pq, holding, idempotency_cache, expired, finished, overtaken>>
    BY DEF TimeOut, GiveUp
  <1>2. \/ \E i \in 1..Len(getters) :
              getters[i] = c /\ getters' = RemoveAt(getters, i) /\ woken' = woken
        \/ /\ c \in woken
           /\ IF pq[DefaultPriority] # <<>>
              THEN Wakes(getters, woken \ {c}, getters', woken')
              ELSE getters' = getters /\ woken' = woken \ {c}
    BY DEF TimeOut, GiveUp, WakeNext, Wakes
  <1>3. /\ QueueInv(Items, pq, getters', woken', holding)
        /\ \A e \in Consumers : Has(getters', e) \/ e \in woken' => Has(getters, e) \/ e \in woken
    BY <1>2, GiveUpQueue DEF MainInv
  <1>4. TypeOK'
    BY <1>1, <1>3 DEF TypeOK, QueueTypeOK, QueueInv, Waiters, MainInv
  <1>5. CacheInv' /\ PlacesInv' /\ Accepted' = Accepted
    BY <1>1 DEF MainInv, CacheInv, PlacesInv, Held, Accepted
  <1>6. OvertakenInv'
    BY <1>1, <1>3, <1>5 DEF MainInv, OvertakenInv, QueuedAbove, TypeOK
  <1> QED
    BY <1>1, <1>3, <1>4, <1>5, <1>6 DEF MainInv

\* A consumer is done: its task moves to the finished ones.
LEMMA MainCompletes ==
    ASSUME MainInv, NEW c \in Consumers, Complete(c)
    PROVE  MainInv'
  <1> DEFINE x == holding[c]
  <1>1. /\ x # NoItem /\ finished' = finished \union {x}
        /\ holding' = [holding EXCEPT ![c] = NoItem]
        /\ UNCHANGED <<pq, getters, woken, idempotency_cache, expired, overtaken>>
    BY DEF Complete
  <1>2. x \in Items /\ Held(x)
    BY <1>1 DEF MainInv, QueueInv, Held
  <1>3. /\ holding'[c] = NoItem
        /\ \A d \in Consumers : d # c => holding'[d] = holding[d]
    BY <1>1 DEF MainInv, QueueInv
  <1>4. QueueInv(Items, pq', getters', woken', holding')
    BY <1>1, ReleaseQueue DEF MainInv
  <1>5. TypeOK'
    BY <1>1, <1>2, <1>4 DEF TypeOK, QueueTypeOK, QueueInv, Waiters, MainInv
  <1>6. CacheInv' /\ Accepted' = Accepted /\ OvertakenInv'
    BY <1>1 DEF MainInv, CacheInv, Accepted, OvertakenInv, QueuedAbove
  <1>7. \A t \in Items : Held(t)' <=> Held(t) /\ t # x
    BY <1>1, <1>3, QueueAssumption DEF Held, MainInv, PlacesInv
  <1> HIDE DEF x
  <1>8. PlacesInv'
    <2>1. \A d, e \in Consumers : holding'[d] = holding'[e] /\ holding'[d] # NoItem => d = e
      BY <1>3 DEF MainInv, PlacesInv
    <2> QED
      BY <1>1, <1>2, <1>6, <1>7, <2>1 DEF MainInv, PlacesInv
  <1> QED
    BY <1>4, <1>5, <1>6, <1>8 DEF MainInv

\* Every step of the main lane keeps its invariant.
LEMMA MainStep == MainInv /\ [Next]_vars => MainInv'
  <1> SUFFICES ASSUME MainInv, [Next]_vars PROVE MainInv'
    OBVIOUS
  <1>1. CASE UNCHANGED vars
    BY <1>1 DEF vars, MainInv, TypeOK, QueueTypeOK, CacheInv, PlacesInv, OvertakenInv,
       Accepted, Held, QueuedAbove
  <1>2. ASSUME NEW t \in Items, Expire(t) PROVE MainInv'
    BY <1>2 DEF Expire, MainInv, TypeOK, QueueTypeOK, CacheInv, PlacesInv, OvertakenInv,
       Accepted, Held, QueuedAbove
  <1>3. ASSUME NEW t \in Items, NEW p \in Requested, EnqueueTask(t, p) PROVE MainInv'
    BY <1>3, MainEnqueues
  <1>4. ASSUME NEW c \in Consumers, DequeueNextTask(c) PROVE MainInv'
    BY <1>4, MainDequeue, MainTakes, MainWaits DEF DequeueNextTask
  <1>5. ASSUME NEW c \in Consumers, TimeOut(c) PROVE MainInv'
    BY <1>5, MainTimeOut
  <1>6. ASSUME NEW c \in Consumers, Complete(c) PROVE MainInv'
    BY <1>6, MainCompletes
  <1> QED
    BY <1>1, <1>2, <1>3, <1>4, <1>5, <1>6 DEF Next

\* A consumer that takes from the default queue while a task is queued above
\* has not done so before since that task was queued.
Overtakes(c, t) == QueuedAbove(t) /\ holding'[c] # holding[c] /\ TakesDefault(c)

\* What is queued anywhere is the task itself, never the empty hand.
LEMMA HeadIsItem ==
    ASSUME MainInv, NEW p \in Priorities, pq[p] # <<>>
    PROVE  Head(pq[p]) \in Items /\ Has(pq[p], Head(pq[p])) /\ Head(pq[p]) # NoItem
  <1>1. pq[p] \in Seq(Items)
    BY DEF MainInv, QueueInv
  <1> QED
    BY <1>1, HeadAndTail, TailHas, QueueAssumption

\* Whoever overtakes a task is new to it.
LEMMA OvertakesOnce ==
    ASSUME MainInv, [Next]_vars, NEW c \in Consumers, NEW t \in Items, Overtakes(c, t)
    PROVE  c \notin overtaken[t]
  <1> SUFFICES ASSUME c \in overtaken[t] PROVE FALSE
    OBVIOUS
  <1>1. ~Has(getters, c) /\ c \notin woken
    BY DEF Overtakes, MainInv, OvertakenInv
  <1>2. PICK r \in Priorities : r > DefaultPriority /\ Has(pq[r], t)
    BY AboveIsQueuedAbove DEF Above, Overtakes, QueuedAbove, MainInv, QueueInv
  <1>3. pq[r] # <<>>
    BY <1>2, EmptySeq DEF Has
  <1>4. pq[DefaultPriority] # <<>> /\ holding'[c] = Head(pq[DefaultPriority])
    BY DEF Overtakes, TakesDefault
  <1>5. holding'[c] # NoItem /\ holding'[c] # holding[c] /\ Has(pq[DefaultPriority], holding'[c])
    BY <1>4, HeadIsItem, DefaultIsPriority DEF Overtakes
  <1>6. PICK d \in Consumers : Dequeue(d) \/ Resume(d) \/ Complete(d)
    BY <1>5 DEF Next, vars, Expire, EnqueueTask, Put, TimeOut, GiveUp, DequeueNextTask
  <1>7. CASE Complete(d)
    BY <1>5, <1>7 DEF Complete, MainInv, QueueInv
  <1>8. ASSUME NEW p \in Priorities,
               Takes(pq, getters, woken, holding, pq', getters', woken', holding', d, p)
        PROVE  FALSE
    <2>1. c = d /\ holding'[c] = Head(pq[p]) /\ pq[p] # <<>>
      BY <1>5, <1>8 DEF Takes, MainInv, QueueInv
    <2>2. p > DefaultPriority
      BY <1>1, <1>2, <1>3, <1>8, <2>1 DEF Takes, Priorities, DefaultPriority
    <2>3. Has(pq[p], holding'[c])
      BY <2>1, HeadIsItem
    <2> QED
      BY <1>5, <2>2, <2>3, DefaultIsPriority DEF MainInv, PlacesInv, Unique, DefaultPriority
  <1> QED
    BY <1>5, <1>6, <1>7, <1>8, MainDequeue DEF Waits

-----------------------------------------------------------------------------
(* The main lane among the lanes of a tenant.                              *)

\* The lane manager only routes: its steps are the lane's steps.
LEMMA RoutesToMain == [LanesNext]_lanesVars => [Next]_vars
  BY DEF LanesNext, lanesVars, MainNext, SubagentNext, CronNext, MainSteps, SubagentSteps,
     CronSteps, enqueue_main_task, spawn_subagent, schedule_cron_task, Next

\* The invariant of the main lane.
LEMMA MainInvariant == LanesSpec => []MainInv
  <1>1. LanesInit => MainInv
    BY MainInit DEF LanesInit
  <1>2. MainInv /\ [LanesNext]_lanesVars => MainInv'
    BY MainStep, RoutesToMain
  <1> QED
    BY <1>1, <1>2, PTL DEF LanesSpec

\* enqueue_task, dequeue_next_task and their callers together dispatch every
\* accepted task once and one task per idempotency key, whatever the
\* interleaving of requests, consumers and timeouts.
THEOREM DispatchedOnce == LanesSpec => []ExactlyOncePerKey
  <1>1. MainInv => ExactlyOncePerKey
    BY MainImplies
  <1> QED
    BY <1>1, MainInvariant, PTL

\* put(), a consumer that takes an item without having waited, and a timeout
\* of wait_for never leave an item of the default priority queued while all
\* the consumers sleep.
THEOREM NobodySleepsOverWork == LanesSpec => []NoLostWakeup
  <1>1. MainInv => NoLostWakeup
    BY MainImplies
  <1> QED
    BY <1>1, MainInvariant, PTL

\* A task queued above the default priority is overtaken at most once by each
\* consumer, the one that had been woken before it came.
THEOREM OvertakenAtMostOnce == LanesSpec => OvertakenOnce
  <1>1. MainInv /\ [LanesNext]_lanesVars =>
            [\A c \in Consumers, t \in Items :
                QueuedAbove(t) /\ holding'[c] # holding[c] /\ TakesDefault(c)
                    => c \notin overtaken[t]]_vars
    BY RoutesToMain, OvertakesOnce DEF Overtakes
  <1> QED
    BY <1>1, MainInvariant, PTL DEF LanesSpec, OvertakenOnce

-----------------------------------------------------------------------------
(* The cron lane.                                                          *)

\* e is put in after the first n elements.
Inserts(S, s, t, n, e) ==
    /\ s \in Seq(S) /\ n \in 0..Len(s) /\ e \in S
    /\ t = InsertAt(s, n + 1, e)

\* The elements keep their order around it.
LEMMA InsertAfter ==
    ASSUME NEW S, NEW s, NEW t, NEW n, NEW e, Inserts(S, s, t, n, e)
    PROVE  /\ t \in Seq(S) /\ Len(t) = Len(s) + 1 /\ Len(s) \in Nat
           /\ \A i \in 1..n : t[i] = s[i]
           /\ t[n + 1] = e
           /\ \A i \in (n + 1)..Len(s) : t[i + 1] = s[i]
  <1> DEFINE a == SubSeq(s, 1, n)
             b == SubSeq(s, n + 1, Len(s))
             m == Len(s)
             ae == a \o <<e>>
  <1>0. s \in Seq(S) /\ n \in 0..Len(s) /\ e \in S /\ t = InsertAt(s, n + 1, e)
    BY DEF Inserts
  <1>1. m \in Nat /\ n \in Nat /\ n <= m /\ (n + 1) - 1 = n
    BY <1>0, LenProperties
  <1>2. a \in Seq(S) /\ Len(a) = n /\ \A i \in 1..n : a[i] = s[i]
    BY <1>0, FrontOf
  <1>3. b \in Seq(S) /\ Len(b) = m - n /\ \A i \in 1..(m - n) : b[i] = s[n + i]
    BY <1>0, RestOf
  <1>4. t = ae \o b
    <2>1. t = (SubSeq(s, 1, (n + 1) - 1) \o <<e>>) \o SubSeq(s, n + 1, Len(s))
      BY <1>0 DEF InsertAt
    <2> QED
      BY <1>1, <2>1
  <1> HIDE DEF a, b, m
  <1>5. ae \in Seq(S) /\ Len(ae) = n + 1 /\ ae[n + 1] = e /\ \A i \in 1..n : ae[i] = s[i]
    <2>1. <<e>> \in Seq(S) /\ Len(<<e>>) = 1 /\ <<e>>[1] = e
      BY <1>0
    <2>2. /\ ae \in Seq(S) /\ Len(ae) = Len(a) + Len(<<e>>)
          /\ \A i \in 1..(Len(a) + Len(<<e>>)) : ae[i] = IF i <= Len(a) THEN a[i] ELSE <<e>>[i - Len(a)]
      BY <1>2, <2>1, ConcatProperties
    <2> HIDE DEF ae
    <2>3. Len(ae) = n + 1 /\ \A i \in 1..(n + 1) : ae[i] = IF i <= n THEN a[i] ELSE <<e>>[i - n]
      BY <1>2, <2>1, <2>2
    <2>4. n + 1 \in 1..(n + 1) /\ (n + 1) - n = 1 /\ ~(n + 1 <= n)
      BY <1>1
    <2>5. \A i \in 1..n : i \in 1..(n + 1) /\ i <= n
      BY <1>1
    <2> QED
      BY <1>2, <2>1, <2>2, <2>3, <2>4, <2>5
  <1> HIDE DEF ae
  <1>6. /\ t \in Seq(S) /\ Len(t) = Len(ae) + Len(b)
        /\ \A i \in 1..(Len(ae) + Len(b)) : t[i] = IF i <= Len(ae) THEN ae[i] ELSE b[i - Len(ae)]
    <2>1. ae \in Seq(S) /\ b \in Seq(S)
      BY <1>3, <1>5
    <2> QED
      BY <1>4, <2>1, ConcatProperties
  <1>7. Len(t) = m + 1 /\ \A i \in 1..(m + 1) : t[i] = IF i <= n + 1 THEN ae[i] ELSE b[i - (n + 1)]
    <2>1. Len(ae) + Len(b) = m + 1
      BY <1>1, <1>3, <1>5
    <2> QED
      BY <1>5, <1>6, <2>1
  <1>8. \A i \in 1..n : t[i] = s[i]
    <2>1. \A i \in 1..n : i \in 1..(m + 1) /\ i <= n + 1
      BY <1>1
    <2> QED
      BY <1>5, <1>7, <2>1
  <1>9. t[n + 1] = e
    <2>1. n + 1 \in 1..(m + 1) /\ n + 1 <= n + 1
      BY <1>1
    <2> QED
      BY <1>5, <1>7, <2>1
  <1>10. \A i \in (n + 1)..m : t[i + 1] = s[i]
    <2>1. \A i \in (n + 1)..m : /\ i + 1 \in 1..(m + 1) /\ ~(i + 1 <= n + 1)
                                /\ i - n \in 1..(m - n) /\ (i + 1) - (n + 1) = i - n
                                /\ n + (i - n) = i
      BY <1>1
    <2> QED
      BY <1>3, <1>7, <2>1
  <1> QED
    BY <1>1, <1>6, <1>7, <1>8, <1>9, <1>10 DEF m

\* The entries are in the order of their times.
Sorted(list) == \A i, j \in 1..Len(list) : i < j => list[i][1] <= list[j][1]

\* What the instance of CronLane uses is what this module uses.
LEMMA SameOperators ==
    /\ \A S : Cron!Cardinality(S) = Cardinality(S)
    /\ \A s, n, e : Cron!InsertAt(s, n, e) = InsertAt(s, n, e)
  <1>1. \A S : Cron!Cardinality(S) = Cardinality(S)
    BY DEF Cron!Cardinality, Cardinality
  <1>2. \A s, n, e : Cron!InsertAt(s, n, e) = InsertAt(s, n, e)
    BY DEF Cron!InsertAt, InsertAt
  <1> QED
    BY <1>1, <1>2

\* The times of entries are numbers.
LEMMA EntryTimes ==
    ASSUME NEW T \in SUBSET Int, NEW S, NEW list \in Seq(T \X S), NEW e \in T \X S
    PROVE  /\ Len(list) \in Nat
           /\ \A i \in 1..Len(list) : list[i][1] \in Int
           /\ e[1] \in Int
  <1>1. Len(list) \in Nat /\ \A i \in 1..Len(list) : list[i] \in T \X S
    BY LenProperties, ElementOfSeq
  <1>2. \A x \in T \X S : x[1] \in Int
    OBVIOUS
  <1> QED
    BY <1>1, <1>2

\* The entries of a sorted list that are not later are the first ones.
LEMMA NotLaterFirst ==
    ASSUME NEW T \in SUBSET Int, NEW S, NEW list \in Seq(T \X S), Sorted(list), NEW e \in T \X S
    PROVE  \E n \in 0..Len(list) :
               /\ Cron!NotLater(e, list) = 1..n
               /\ Cron!InsertEntry(e, list) = InsertAt(list, n + 1, e)
  <1> DEFINE m == Len(list)
             D == {i \in 1..m : list[i][1] <= e[1]}
             L == (1..m) \ D
  <1>1. m \in Nat /\ (\A i \in 1..m : list[i][1] \in Int) /\ e[1] \in Int
    BY EntryTimes
  <1>2. D = Cron!NotLater(e, list)
    BY DEF Cron!NotLater
  <1>3. \A i, j \in 1..m : i < j /\ j \in D => i \in D
    BY <1>1 DEF Sorted
  <1> HIDE DEF m
  <1>4. \A n \in 0..m : D = 1..n => Cron!InsertEntry(e, list) = InsertAt(list, n + 1, e)
    <2>1. \A n \in 0..m : Cardinality(1..n) = n
      BY <1>1, FS_Interval
    <2>2. Cron!InsertEntry(e, list) = InsertAt(list, Cardinality(D) + 1, e)
      BY <1>2, SameOperators, Zenon DEF Cron!InsertEntry
    <2> QED
      BY <2>1, <2>2
  <1>5. CASE L = {}
    <2>1. D = 1..m /\ m \in 0..m
      BY <1>1, <1>5
    <2> QED
      BY <1>2, <1>4, <2>1 DEF m
  <1>6. CASE L # {}
    <2>1. L \in SUBSET Nat
      BY <1>1
    <2> HIDE DEF D
    <2>2. PICK k \in L : \A j \in L : k <= j
      BY <1>6, <2>1, NatMin
    <2> DEFINE n == k - 1
    <2>3. k \in 1..m /\ k \notin D /\ n \in 0..m
      BY <1>1
    <2>4. D \subseteq 1..m
      BY DEF D
    <2>5. D = 1..n
      <3>1. ASSUME NEW i \in D PROVE i \in 1..n
        <4>1. i \in 1..m /\ ~(k < i) /\ i # k
          BY <1>3, <2>3, <2>4
        <4> QED
          BY <1>1, <2>3, <4>1
      <3>2. ASSUME NEW i \in 1..n PROVE i \in D
        <4>1. i \in 1..m /\ ~(k <= i)
          BY <1>1, <2>3
        <4> QED
          BY <2>2, <4>1
      <3> QED
        BY <3>1, <3>2
    <2> QED
      BY <1>2, <1>4, <2>3, <2>5 DEF m
  <1> QED
    BY <1>5, <1>6

\* An entry is put into a sorted list.
Enters(T, S, list, list2, e) ==
    /\ T \in SUBSET Int /\ list \in Seq(T \X S) /\ Sorted(list)
    /\ e \in T \X S
    /\ list2 = Cron!InsertEntry(e, list)

\* It leaves the list sorted, and no entry is lost.
LEMMA InsertSorts ==
    ASSUME NEW T, NEW S, NEW list, NEW list2, NEW e, Enters(T, S, list, list2, e)
    PROVE  /\ list2 \in Seq(T \X S) /\ Sorted(list2)
           /\ \A x : Has(list, x) \/ x = e => Has(list2, x)
  <1> DEFINE m == Len(list)
  <1>0. /\ T \in SUBSET Int /\ list \in Seq(T \X S) /\ Sorted(list)
        /\ e \in T \X S
        /\ list2 = Cron!InsertEntry(e, list)
    BY DEF Enters
  <1>1. m \in Nat /\ (\A i \in 1..m : list[i][1] \in Int) /\ e[1] \in Int
    BY <1>0, EntryTimes
  <1>2. PICK n \in 0..m : /\ Cron!NotLater(e, list) = 1..n
                          /\ Cron!InsertEntry(e, list) = InsertAt(list, n + 1, e)
    BY <1>0, NotLaterFirst
  <1>3. Cron!NotLater(e, list) = 1..n
    BY <1>2
  <1>4. list2 = InsertAt(list, n + 1, e)
    BY <1>0, <1>2
  <1>5. /\ list2 \in Seq(T \X S) /\ Len(list2) = m + 1
        /\ \A i \in 1..n : list2[i] = list[i]
        /\ list2[n + 1] = e
        /\ \A i \in (n + 1)..m : list2[i + 1] = list[i]
    <2>1. Inserts(T \X S, list, list2, n, e)
      BY <1>0, <1>4 DEF Inserts
    <2> QED
      BY <2>1, InsertAfter
  <1>6. \A i \in 1..m : i \in 1..n <=> list[i][1] <= e[1]
    BY <1>3 DEF Cron!NotLater
  <1>7. \A i, j \in 1..m : i < j => list[i][1] <= list[j][1]
    BY <1>0 DEF Sorted
  <1> HIDE DEF m
  <1>8. Sorted(list2)
    <2> SUFFICES ASSUME NEW i \in 1..(m + 1), NEW j \in 1..(m + 1), i < j
                 PROVE  list2[i][1] <= list2[j][1]
      BY <1>5 DEF Sorted
    <2>1. CASE j <= n
      <3>1. i \in 1..n /\ j \in 1..n /\ i \in 1..m /\ j \in 1..m
        BY <1>1, <2>1
      <3> QED
        BY <1>5, <1>7, <3>1
    <2>2. CASE j = n + 1
      <3>1. i \in 1..n /\ i \in 1..m
        BY <1>1, <2>2
      <3> QED
        BY <1>5, <1>6, <2>2, <3>1
    <2>3. CASE j > n + 1
      <3>1. j - 1 \in (n + 1)..m /\ j - 1 \in 1..m /\ j - 1 \notin 1..n /\ (j - 1) + 1 = j
        BY <1>1, <2>3
      <3>2. list2[j] = list[j - 1] /\ e[1] <= list[j - 1][1]
        BY <1>1, <1>5, <1>6, <3>1
      <3>3. CASE i <= n
        <4>1. i \in 1..n /\ i \in 1..m /\ i < j - 1
          BY <1>1, <2>3, <3>3
        <4> QED
          BY <1>5, <1>7, <3>1, <3>2, <4>1
      <3>4. CASE i = n + 1
        BY <1>5, <3>2, <3>4
      <3>5. CASE i > n + 1
        <4>1. i - 1 \in (n + 1)..m /\ i - 1 \in 1..m /\ (i - 1) + 1 = i /\ i - 1 < j - 1
          BY <1>1, <3>5
        <4> QED
          BY <1>5, <1>7, <3>1, <3>2, <4>1
      <3> QED
        BY <3>3, <3>4, <3>5
    <2> QED
      BY <2>1, <2>2, <2>3
  <1>9. ASSUME NEW x, Has(list, x) \/ x = e PROVE Has(list2, x)
    <2>1. n + 1 \in 1..(m + 1) /\ \A i \in 1..m : /\ (i \in 1..n \/ i \in (n + 1)..m)
                                                   /\ i \in 1..(m + 1)
                                                   /\ i + 1 \in 1..(m + 1)
      BY <1>1
    <2>2. CASE x = e
      BY <1>5, <2>1, <2>2 DEF Has
    <2>3. CASE Has(list, x)
      <3>1. PICK i \in 1..m : list[i] = x
        BY <2>3 DEF Has, m
      <3> QED
        BY <1>5, <2>1, <3>1 DEF Has
    <2> QED
      BY <1>9, <2>2, <2>3
  <1> QED
    BY <1>5, <1>8, <1>9

CronInv ==
    /\ Cron!TypeOK
    /\ Cron!EntriesCoverMap
    /\ Cron!TimesPartWhenDue

\* An entry of a sorted list is not earlier than the first.
LEMMA CronFirstEntry == CronInv => Cron!NextIsNotLate
  <1> SUFFICES ASSUME CronInv, NEW s \in schedule_map
               PROVE  /\ Cron!get_next_execution_time # Cron!NoTime
                      /\ Cron!get_next_execution_time <= scheduled_time[s]
    BY DEF Cron!NextIsNotLate
  <1>1. scheduled_times \in Seq((1..MaxTime) \X Schedules)
    BY DEF CronInv, Cron!TypeOK
  <1>2. PICK i \in 1..Len(scheduled_times) : scheduled_times[i] = <<scheduled_time[s], s>>
    BY DEF CronInv, Cron!EntriesCoverMap
  <1>3. /\ scheduled_times # <<>> /\ 1 \in 1..Len(scheduled_times)
        /\ scheduled_times[1][1] \in 1..MaxTime
        /\ scheduled_times[i][1] = scheduled_time[s]
        /\ scheduled_times[i][1] \in 1..MaxTime
    BY <1>1, <1>2
  <1>4. scheduled_times[1][1] <= scheduled_times[i][1]
    <2>1. CASE i = 1
      BY <1>3, <2>1
    <2>2. CASE i # 1
      <3>1. 1 < i
        BY <1>2, <2>2
      <3> QED
        BY <1>2, <1>3, <3>1 DEF CronInv, Cron!EntriesCoverMap
    <2> QED
      BY <2>1, <2>2
  <1>5. Cron!get_next_execution_time = scheduled_times[1][1]
    BY <1>3 DEF Cron!get_next_execution_time
  <1> QED
    BY <1>3, <1>4, <1>5 DEF Cron!NoTime

\* The number of entries of a schedule is a number.
LEMMA DueCountType ==
    ASSUME CronInv, NEW s \in Schedules
    PROVE  Cron!DueCount(s) \in Nat
  <1>1. Len(scheduled_times) \in Nat
    BY DEF CronInv, Cron!TypeOK
  <1>2. IsFiniteSet(1..Len(scheduled_times))
    BY <1>1, FS_Interval
  <1>3. IsFiniteSet(Cron!EntriesOf(s))
    BY <1>2, FS_Subset DEF Cron!EntriesOf
  <1> QED
    BY <1>3, FS_CardinalityType DEF Cron!DueCount, Cron!Cardinality, Cardinality

\* The lane starts empty.
LEMMA CronInit == Cron!Init => CronInv
  <1>1. <<>> \in Seq((1..MaxTime) \X Schedules) /\ Len(<<>>) = 0
    BY EmptySeq
  <1> QED
    BY <1>1, LanesAssumption DEF CronInv, Cron!Init, Cron!TypeOK, Cron!EntriesCoverMap,
       Cron!TimesPartWhenDue, Cron!NothingDue

\* A schedule is accepted.
LEMMA CronSchedules ==
    ASSUME CronInv, NEW s \in Schedules, NEW when \in 1..MaxTime, Cron!ScheduleTask(s, when)
    PROVE  CronInv'
  <1> DEFINE list == scheduled_times
             e == <<when, s>>
  <1>1. /\ schedule_map' = schedule_map \union {s}
        /\ scheduled_time' = [scheduled_time EXCEPT ![s] = when]
        /\ next_execution_time' = [next_execution_time EXCEPT ![s] = when]
        /\ list' = Cron!InsertEntry(e, list)
        /\ lastReturn' = Cron!NothingDue
        /\ UNCHANGED <<now, returned>>
    BY DEF Cron!ScheduleTask
  <1>2. list \in Seq((1..MaxTime) \X Schedules) /\ Sorted(list)
    BY DEF CronInv, Cron!TypeOK, Cron!EntriesCoverMap, Sorted
  <1>3. 1..MaxTime \in SUBSET Int /\ e \in (1..MaxTime) \X Schedules
    OBVIOUS
  <1>4. /\ list' \in Seq((1..MaxTime) \X Schedules) /\ Sorted(list')
        /\ \A x : Has(list, x) \/ x = e => Has(list', x)
    <2>1. Enters(1..MaxTime, Schedules, list, list', e)
      BY <1>1, <1>2, <1>3 DEF Enters
    <2> QED
      BY <2>1, InsertSorts
  <1>5. /\ when \in 0..MaxTime /\ when \in 0..(MaxTime + Period)
        /\ scheduled_time' \in [Schedules -> 0..MaxTime]
        /\ scheduled_time'[s] = when
        /\ \A u \in Schedules : u # s => scheduled_time'[u] = scheduled_time[u]
    BY <1>1, LanesAssumption DEF CronInv, Cron!TypeOK
  <1>6. Cron!TypeOK'
    BY <1>1, <1>4, <1>5 DEF CronInv, Cron!TypeOK, Cron!NothingDue
  <1>7. \A u \in schedule_map' : Has(list', <<scheduled_time'[u], u>>)
    <2> SUFFICES ASSUME NEW u \in schedule_map' PROVE Has(list', <<scheduled_time'[u], u>>)
      OBVIOUS
    <2>1. CASE u = s
      BY <1>4, <1>5, <2>1
    <2>2. CASE u # s
      <3>1. u \in schedule_map /\ u \in Schedules
        BY <1>1, <2>2 DEF CronInv, Cron!TypeOK
      <3>2. Has(list, <<scheduled_time[u], u>>)
        BY <3>1 DEF CronInv, Cron!EntriesCoverMap, Has
      <3> QED
        BY <1>4, <1>5, <2>2, <3>1, <3>2
    <2> QED
      BY <2>1, <2>2
  <1>8. Cron!EntriesCoverMap'
    BY <1>4, <1>7 DEF Cron!EntriesCoverMap, Has, Sorted
  <1>9. Cron!TimesPartWhenDue'
    <2> SUFFICES ASSUME NEW u \in schedule_map'
                 PROVE  /\ scheduled_time'[u] <= next_execution_time'[u]
                        /\ scheduled_time'[u] # next_execution_time'[u] =>
                               u \in Recurring /\ scheduled_time'[u] <= now'
      BY DEF Cron!TimesPartWhenDue
    <2>1. CASE u = s
      BY <1>1, <1>5, <2>1 DEF CronInv, Cron!TypeOK
    <2>2. CASE u # s
      <3>1. u \in schedule_map /\ u \in Schedules
        BY <1>1, <2>2 DEF CronInv, Cron!TypeOK
      <3>2. scheduled_time'[u] = scheduled_time[u] /\ next_execution_time'[u] = next_execution_time[u]
        BY <1>1, <1>5, <2>2, <3>1 DEF CronInv, Cron!TypeOK
      <3> QED
        BY <1>1, <3>1, <3>2 DEF CronInv, Cron!TimesPartWhenDue
    <2> QED
      BY <2>1, <2>2
  <1> QED
    BY <1>6, <1>8, <1>9 DEF CronInv

\* The schedules that are due are evaluated.
LEMMA CronEvaluates ==
    ASSUME CronInv, Cron!EvaluateDueTasks
    PROVE  CronInv'
  <1>1. /\ schedule_map' \subseteq schedule_map
        /\ lastReturn' = IF Cron!Removed(Cron!DueEntries) = {}
                         THEN [s \in Schedules |-> Cron!DueCount(s)] ELSE Cron!NothingDue
        /\ returned' = returned \union {s \in Schedules : lastReturn'[s] > 0}
        /\ next_execution_time' =
              [s \in Schedules |-> IF s \in Cron!DueEntries \intersect Recurring
                                   THEN Cron!NextExecution(now) ELSE next_execution_time[s]]
        /\ UNCHANGED <<now, scheduled_time, scheduled_times>>
    BY DEF Cron!EvaluateDueTasks
  <1>2. Cron!DueEntries \subseteq Schedules /\ \A s \in Cron!DueEntries : scheduled_time[s] <= now
    BY DEF Cron!DueEntries, Cron!Due
  <1>3. now \in 0..MaxTime /\ now + Period \in 0..(MaxTime + Period) /\ now <= now + Period
    BY LanesAssumption DEF CronInv, Cron!TypeOK
  <1>4. next_execution_time' \in [Schedules -> 0..(MaxTime + Period)]
    BY <1>1, <1>3 DEF Cron!NextExecution, CronInv, Cron!TypeOK
  <1>5. lastReturn' \in [Schedules -> Nat]
    BY <1>1, DueCountType DEF Cron!NothingDue
  <1>7. Cron!TypeOK'
    BY <1>1, <1>4, <1>5 DEF CronInv, Cron!TypeOK
  <1>8. Cron!EntriesCoverMap'
    BY <1>1 DEF CronInv, Cron!EntriesCoverMap
  <1>9. Cron!TimesPartWhenDue'
    <2> SUFFICES ASSUME NEW u \in schedule_map'
                 PROVE  /\ scheduled_time[u] <= next_execution_time'[u]
                        /\ scheduled_time[u] # next_execution_time'[u] =>
                               u \in Recurring /\ scheduled_time[u] <= now
      BY <1>1 DEF Cron!TimesPartWhenDue
    <2>1. u \in schedule_map /\ u \in Schedules /\ scheduled_time[u] \in 0..MaxTime
      BY <1>1 DEF CronInv, Cron!TypeOK
    <2>2. CASE u \in Cron!DueEntries \intersect Recurring
      <3>1. next_execution_time'[u] = now + Period
        BY <1>1, <2>1, <2>2 DEF Cron!NextExecution
      <3>2. scheduled_time[u] <= now /\ u \in Recurring
        BY <1>2, <2>2
      <3> QED
        BY <1>3, <2>1, <3>1, <3>2, LanesAssumption
    <2>3. CASE u \notin Cron!DueEntries \intersect Recurring
      <3>1. next_execution_time'[u] = next_execution_time[u]
        BY <1>1, <2>1, <2>3
      <3> QED
        BY <2>1, <3>1 DEF CronInv, Cron!TimesPartWhenDue
    <2> QED
      BY <2>2, <2>3
  <1> QED
    BY <1>7, <1>8, <1>9 DEF CronInv

\* Every step of the cron lane keeps its invariant.
LEMMA CronStep == CronInv /\ [Cron!Next]_(Cron!vars) => CronInv'
  <1> SUFFICES ASSUME CronInv, [Cron!Next]_(Cron!vars) PROVE CronInv'
    OBVIOUS
  <1>1. CASE UNCHANGED Cron!vars
    BY <1>1 DEF Cron!vars, CronInv, Cron!TypeOK, Cron!EntriesCoverMap,
                Cron!TimesPartWhenDue
  <1>2. CASE Cron!Tick
    <2>1. /\ now' \in 0..MaxTime /\ now <= now' /\ lastReturn' = Cron!NothingDue
          /\ UNCHANGED <<schedule_map, scheduled_time, next_execution_time, scheduled_times, returned>>
      BY <1>2, LanesAssumption DEF Cron!Tick, CronInv, Cron!TypeOK
    <2>2. Cron!TimesPartWhenDue'
      <3> SUFFICES ASSUME NEW u \in schedule_map
                   PROVE  /\ scheduled_time[u] <= next_execution_time[u]
                          /\ scheduled_time[u] # next_execution_time[u] =>
                                 u \in Recurring /\ scheduled_time[u] <= now'
        BY <2>1 DEF Cron!TimesPartWhenDue
      <3>1. scheduled_time[u] \in 0..MaxTime /\ now \in 0..MaxTime
        BY DEF CronInv, Cron!TypeOK
      <3> QED
        BY <2>1, <3>1 DEF CronInv, Cron!TimesPartWhenDue
    <2>3. Cron!TypeOK'
      BY <2>1 DEF CronInv, Cron!TypeOK, Cron!NothingDue
    <2>4. Cron!EntriesCoverMap'
      BY <2>1 DEF CronInv, Cron!EntriesCoverMap
    <2> QED
      BY <2>2, <2>3, <2>4 DEF CronInv
  <1> QED
    BY <1>1, <1>2, CronSchedules, CronEvaluates DEF Cron!Next

\* The lane manager only routes.
LEMMA RoutesToCron == [LanesNext]_lanesVars => [Cron!Next]_(Cron!vars)
  BY DEF LanesNext, lanesVars, MainNext, SubagentNext, CronNext, MainSteps, SubagentSteps,
     CronSteps, enqueue_main_task, spawn_subagent, schedule_cron_task, Cron!Next, Cron!vars,
     cronVars

\* The invariant of the cron lane.
LEMMA CronInvariant == LanesSpec => []CronInv
  <1>1. LanesInit => CronInv
    BY CronInit DEF LanesInit
  <1>2. CronInv /\ [LanesNext]_lanesVars => CronInv'
    BY CronStep, RoutesToCron
  <1> QED
    BY <1>1, <1>2, PTL DEF LanesSpec

\* What an evaluation hands out is due by its scheduled_time, and the other field
\* agrees with that but for a recurring schedule.
LEMMA CronInTime == CronInv /\ [Cron!Next]_(Cron!vars) => [Cron!HandsOutInTime]_(Cron!vars)
  <1> SUFFICES ASSUME CronInv, Cron!Next, NEW s \in Schedules, lastReturn'[s] > 0
               PROVE  /\ scheduled_time[s] <= now
                      /\ \/ next_execution_time[s] <= now
                         \/ s \in Recurring /\ scheduled_time[s] < next_execution_time[s]
    BY DEF Cron!HandsOutInTime
  <1>1. lastReturn' # Cron!NothingDue
    BY DEF Cron!NothingDue
  <1>2. Cron!EvaluateDueTasks
    BY <1>1 DEF Cron!Next, Cron!Tick, Cron!ScheduleTask
  <1>3. s \in schedule_map /\ scheduled_time[s] <= now
    <2>1. Cron!DueCount(s) # 0
      BY <1>1, <1>2 DEF Cron!EvaluateDueTasks
    <2> QED
      BY <2>1 DEF Cron!DueCount, Cron!DueEntries, Cron!Due
  <1>4. scheduled_time[s] \in Int /\ next_execution_time[s] \in Int /\ now \in Int
    BY DEF CronInv, Cron!TypeOK
  <1> QED
    BY <1>3, <1>4 DEF CronInv, Cron!TimesPartWhenDue

\* The safety part of SchedulesAreKept: what schedule_task accepted keeps its
\* entry in the sorted list until it is due, get_next_execution_time is not too
\* late for it, scheduled_time and next_execution_time part only when a recurring
\* schedule has come due, and evaluate_due_tasks hands out nothing before either
\* of them, but such a schedule before the second.
THEOREM EntriesAreKept ==
    LanesSpec => /\ [](Cron!EntriesCoverMap /\ Cron!NextIsNotLate /\ Cron!TimesPartWhenDue)
                 /\ Cron!NeverEarly
  <1>1. CronInv => Cron!EntriesCoverMap /\ Cron!NextIsNotLate /\ Cron!TimesPartWhenDue
    BY CronFirstEntry DEF CronInv
  <1>2. CronInv /\ [LanesNext]_lanesVars => [Cron!HandsOutInTime]_(Cron!vars)
    BY CronInTime, RoutesToCron
  <1> QED
    BY <1>1, <1>2, CronInvariant, PTL DEF LanesSpec, Cron!NeverEarly

-----------------------------------------------------------------------------
(* The subagent lane.                                                      *)

\* What the instance of SubagentLane uses is what this module uses.
LEMMA SubOperators ==
    /\ Sub!Priorities = Priorities /\ Sub!DefaultPriority = DefaultPriority
    /\ \A p : Sub!Clamp(p) = Clamp(p)
    /\ \A S : Sub!Cardinality(S) = Cardinality(S)
    /\ \A s, n : Sub!RemoveAt(s, n) = RemoveAt(s, n)
  <1>1. Sub!Priorities = Priorities
    BY DEF Sub!Priorities, Priorities
  <1>2. Sub!DefaultPriority = DefaultPriority
    BY DEF Sub!DefaultPriority, DefaultPriority
  <1>3. \A p : Sub!Clamp(p) = Clamp(p)
    BY DEF Sub!Clamp, Clamp
  <1>4. \A S : Sub!Cardinality(S) = Cardinality(S)
    BY DEF Sub!Cardinality, Cardinality
  <1>5. \A s, n : Sub!RemoveAt(s, n) = RemoveAt(s, n)
    BY DEF Sub!RemoveAt, RemoveAt
  <1> QED
    BY <1>1, <1>2, <1>3, <1>4, <1>5

\* The consumers that hold something.
Busy(h) == {c \in Consumers : h[c] # NoItem}

\* Items that are queued or held.
Work(q, h, n) == IsFiniteSet(Busy(h)) /\ QueueSize(q) + Cardinality(Busy(h)) = n

\* There are finitely many queues.
LEMMA FinitelyManyQueues == IsFiniteSet(Priorities)
  <1>1. Priorities \in SUBSET Nat /\ 10 \in Nat /\ \A p \in Priorities : p <= 10
    BY DEF Priorities
  <1> QED
    BY <1>1, FS_BoundedSetOfNaturals

\* A sum over the queues, one of them taken out.
LEMMA SumsSplit ==
    ASSUME NEW f, NEW p \in Priorities, \A r \in Priorities : f[r] \in Nat
    PROVE  /\ SumFunctionOnSet(f, Priorities) \in Nat
           /\ SumFunctionOnSet(f, Priorities) = f[p] + SumFunctionOnSet(f, Priorities \ {p})
           /\ SumFunctionOnSet(f, Priorities \ {p}) \in Nat
  <1>1. SumFunctionOnSet(f, Priorities) = f[p] + SumFunctionOnSet(f, Priorities \ {p})
    BY FinitelyManyQueues, SumRemove
  <1>2. SumFunctionOnSet(f, Priorities) \in Nat
    BY FinitelyManyQueues, SumType
  <1>3. SumFunctionOnSet(f, Priorities \ {p}) \in Nat
    <2>1. IsFiniteSet(Priorities \ {p}) /\ \A r \in Priorities \ {p} : f[r] \in Nat
      BY FinitelyManyQueues, FS_Subset
    <2> QED
      BY <2>1, SumType
  <1> QED
    BY <1>1, <1>2, <1>3

\* Sizes of queues, queue by queue.
LEMMA SizeSplit ==
    ASSUME NEW S, NEW q \in [Priorities -> Seq(S)], NEW p \in Priorities
    PROVE  /\ QueueSize(q) \in Nat
           /\ QueueSize(q) = Len(q[p])
                + SumFunctionOnSet([r \in Priorities |-> Len(q[r])], Priorities \ {p})
           /\ SumFunctionOnSet([r \in Priorities |-> Len(q[r])], Priorities \ {p}) \in Nat
  <1> DEFINE f == [r \in Priorities |-> Len(q[r])]
  <1>1. \A r \in Priorities : f[r] \in Nat
    BY LenProperties
  <1>2. f[p] = Len(q[p])
    OBVIOUS
  <1>3. QueueSize(q) = SumFunctionOnSet(f, Priorities)
    BY DEF QueueSize
  <1> HIDE DEF f
  <1>4. /\ SumFunctionOnSet(f, Priorities) \in Nat
        /\ SumFunctionOnSet(f, Priorities) = f[p] + SumFunctionOnSet(f, Priorities \ {p})
        /\ SumFunctionOnSet(f, Priorities \ {p}) \in Nat
    BY <1>1, SumsSplit
  <1> QED
    BY <1>2, <1>3, <1>4 DEF f

\* Two queues that differ in one of them.
Differ(S, q, q2, p) ==
    /\ q \in [Priorities -> Seq(S)] /\ q2 \in [Priorities -> Seq(S)] /\ p \in Priorities
    /\ \A r \in Priorities : r # p => q2[r] = q[r]

\* So do their sizes.
LEMMA SizeChange ==
    ASSUME NEW S, NEW q, NEW q2, NEW p, Differ(S, q, q2, p)
    PROVE  /\ QueueSize(q) \in Nat /\ QueueSize(q2) \in Nat
           /\ QueueSize(q2) - Len(q2[p]) = QueueSize(q) - Len(q[p])
  <1> DEFINE f == [r \in Priorities |-> Len(q[r])]
             g == [r \in Priorities |-> Len(q2[r])]
             R == Priorities \ {p}
             a == SumFunctionOnSet(f, R)
             b == SumFunctionOnSet(g, R)
  <1>1. QueueSize(q) \in Nat /\ QueueSize(q) = Len(q[p]) + a /\ a \in Nat /\ Len(q[p]) \in Nat
    BY SizeSplit, LenProperties DEF Differ
  <1>2. QueueSize(q2) \in Nat /\ QueueSize(q2) = Len(q2[p]) + b /\ b \in Nat /\ Len(q2[p]) \in Nat
    BY SizeSplit, LenProperties DEF Differ
  <1>3. a = b
    <2>1. IsFiniteSet(R) /\ \A r \in R : f[r] = g[r]
      BY FinitelyManyQueues, FS_Subset DEF Differ
    <2> HIDE DEF f, g, R
    <2> QED
      BY <2>1, SumCongruence
  <1> HIDE DEF a, b
  <1> QED
    BY <1>1, <1>2, <1>3

\* One more is queued.
LEMMA JoinsSize ==
    ASSUME NEW S, NEW q, NEW q2, NEW p, NEW x, Joins(S, q, q2, p, x)
    PROVE  QueueSize(q) \in Nat /\ QueueSize(q2) = QueueSize(q) + 1
  <1>1. /\ q \in [Priorities -> Seq(S)] /\ p \in Priorities /\ q[p] \in Seq(S)
        /\ q2[p] = Append(q[p], x) /\ Append(q[p], x) \in Seq(S)
        /\ Len(Append(q[p], x)) = Len(q[p]) + 1 /\ Len(q[p]) \in Nat
    BY AppendHas DEF Joins
  <1>2. Differ(S, q, q2, p)
    BY <1>1 DEF Joins, Differ
  <1>3. /\ QueueSize(q) \in Nat /\ QueueSize(q2) \in Nat
        /\ QueueSize(q2) - Len(q2[p]) = QueueSize(q) - Len(q[p])
    BY <1>2, SizeChange
  <1>4. Len(q2[p]) = Len(q[p]) + 1
    BY <1>1
  <1> QED
    BY <1>1, <1>3, <1>4

\* One is queued less.
LEMMA LeavesSize ==
    ASSUME NEW S, NEW q, NEW q2, NEW p, NEW x, Leaves(S, q, q2, p, x)
    PROVE  QueueSize(q2) \in Nat /\ QueueSize(q) = QueueSize(q2) + 1
  <1>1. /\ q \in [Priorities -> Seq(S)] /\ p \in Priorities /\ q[p] \in Seq(S)
        /\ q2[p] = Tail(q[p]) /\ Tail(q[p]) \in Seq(S)
        /\ Len(Tail(q[p])) = Len(q[p]) - 1 /\ Len(q[p]) \in Nat
    BY HeadAndTail DEF Leaves
  <1>2. Differ(S, q, q2, p)
    BY <1>1 DEF Leaves, Differ
  <1>3. /\ QueueSize(q) \in Nat /\ QueueSize(q2) \in Nat
        /\ QueueSize(q2) - Len(q2[p]) = QueueSize(q) - Len(q[p])
    BY <1>2, SizeChange
  <1>4. Len(q2[p]) = Len(q[p]) - 1
    BY <1>1
  <1> QED
    BY <1>1, <1>3, <1>4

\* Nothing is queued at first.
LEMMA EmptySize ==
    ASSUME NEW q, q = [p \in Priorities |-> <<>>]
    PROVE  QueueSize(q) = 0
  <1> DEFINE f == [r \in Priorities |-> Len(q[r])]
  <1>1. IsFiniteSet(Priorities)
    BY FinitelyManyQueues
  <1>2. \A r \in Priorities : f[r] = 0
    BY EmptySeq
  <1>3. QueueSize(q) = SumFunctionOnSet(f, Priorities)
    BY DEF QueueSize
  <1> HIDE DEF f
  <1> QED
    BY <1>1, <1>2, <1>3, SumZero

\* The count of the work when an item joins a queue ...
LEMMA JoinsWork ==
    ASSUME NEW S, NEW q, NEW q2, NEW p, NEW x, NEW h, NEW n,
           Joins(S, q, q2, p, x), Work(q, h, n)
    PROVE  Work(q2, h, n + 1)
  <1>1. QueueSize(q) \in Nat /\ QueueSize(q2) = QueueSize(q) + 1
    BY JoinsSize
  <1>2. Cardinality(Busy(h)) \in Nat
    BY FS_CardinalityType DEF Work
  <1> QED
    BY <1>1, <1>2 DEF Work

\* ... and when c takes it ...
LEMMA TakesWork ==
    ASSUME NEW S, NEW q, NEW q2, NEW p, NEW x, NEW h, NEW h2, NEW n, NEW c \in Consumers,
           Leaves(S, q, q2, p, x), Work(q, h, n), h \in [Consumers -> S \union {NoItem}],
           h[c] = NoItem, x # NoItem, h2 = [h EXCEPT ![c] = x]
    PROVE  Work(q2, h2, n)
  <1>1. QueueSize(q2) \in Nat /\ QueueSize(q) = QueueSize(q2) + 1
    BY LeavesSize
  <1>2. Busy(h2) = Busy(h) \union {c} /\ c \notin Busy(h)
    BY DEF Busy
  <1>3. /\ IsFiniteSet(Busy(h2)) /\ Cardinality(Busy(h2)) = Cardinality(Busy(h)) + 1
        /\ Cardinality(Busy(h)) \in Nat
    <2> DEFINE B == Busy(h)
               D == Busy(h2)
    <2>1. IsFiniteSet(B) /\ D = B \union {c} /\ c \notin B
      BY <1>2 DEF Work
    <2> HIDE DEF B, D
    <2>2. IsFiniteSet(D) /\ Cardinality(D) = Cardinality(B) + 1 /\ Cardinality(B) \in Nat
      BY <2>1, FS_AddElement, FS_CardinalityType
    <2> QED
      BY <2>2 DEF B, D
  <1> QED
    BY <1>1, <1>3 DEF Work

\* ... and when c is done with it.
LEMMA DoneWork ==
    ASSUME NEW S, NEW q, NEW h, NEW h2, NEW n, NEW c \in Consumers,
           QueueSize(q) \in Nat, Work(q, h, n), h \in [Consumers -> S \union {NoItem}],
           h[c] # NoItem, h2 = [h EXCEPT ![c] = NoItem]
    PROVE  Work(q, h2, n - 1)
  <1>1. Busy(h2) = Busy(h) \ {c} /\ c \in Busy(h)
    BY DEF Busy
  <1>2. /\ IsFiniteSet(Busy(h2)) /\ Cardinality(Busy(h2)) = Cardinality(Busy(h)) - 1
        /\ Cardinality(Busy(h)) \in Nat
    <2> DEFINE B == Busy(h)
               D == Busy(h2)
    <2>1. IsFiniteSet(B) /\ D = B \ {c} /\ c \in B
      BY <1>1 DEF Work
    <2> HIDE DEF B, D
    <2>2. IsFiniteSet(D) /\ Cardinality(D) = Cardinality(B) - 1 /\ Cardinality(B) \in Nat
      BY <2>1, FS_RemoveElement, FS_CardinalityType
    <2> QED
      BY <2>2 DEF B, D
  <1> QED
    BY <1>2 DEF Work

SubHeld(x) == \E c \in Consumers : sub_holding[c] = x

\* With careful callers a subagent is on record while it is queued or held, in
\* one place, and the count is that of the places and that of the records.
SubPlaces ==
    /\ Unique(sub_pq)
    /\ \A c, d \in Consumers : sub_holding[c] = sub_holding[d] /\ sub_holding[c] # NoItem => c = d
    /\ \A x \in Subagents :
          /\ x \in active_executions <=> In(sub_pq, x) \/ SubHeld(x)
          /\ ~(In(sub_pq, x) /\ SubHeld(x))
          /\ x \in active_executions => Has(spawns, x)
    /\ Work(sub_pq, sub_holding, concurrent_count)
    /\ concurrent_count = Cardinality(active_executions)

SubRecords ==
    /\ active_executions \in SUBSET Subagents /\ IsFiniteSet(active_executions)
    /\ sub_expired \in SUBSET Subagents
    /\ spawns \in Seq(Subagents) /\ Len(spawns) <= MaxSpawns
    /\ concurrent_count \in Nat /\ concurrent_count <= Len(spawns)
    /\ careless \in BOOLEAN

SubInv ==
    /\ QueueInv(Subagents, sub_pq, sub_getters, sub_woken, sub_holding)
    /\ SubRecords
    /\ ~careless => SubPlaces

\* The types follow.
LEMMA SubTypes == SubInv => Sub!TypeOK
  <1> SUFFICES ASSUME SubInv PROVE Sub!TypeOK
    OBVIOUS
  <1>1. Sub!QueueTypeOK
    BY SubOperators DEF Sub!QueueTypeOK, SubInv, QueueInv, Waiters
  <1>2. concurrent_count \in 0..MaxSpawns
    BY LanesAssumption, LenProperties DEF SubInv, SubRecords
  <1> QED
    BY <1>1, <1>2 DEF Sub!TypeOK, SubInv, SubRecords

\* The lane starts empty.
LEMMA SubInit == Sub!Init => SubInv
  <1> SUFFICES ASSUME Sub!Init PROVE SubInv
    OBVIOUS
  <1>1. /\ sub_pq = [p \in Priorities |-> <<>>] /\ sub_getters = <<>> /\ sub_woken = {}
        /\ sub_holding = [c \in Consumers |-> NoItem]
        /\ active_executions = {} /\ concurrent_count = 0 /\ sub_expired = {}
        /\ spawns = <<>> /\ careless = FALSE
    BY SubOperators DEF Sub!Init, Sub!QueueInit
  <1>2. QueueInv(Subagents, sub_pq, sub_getters, sub_woken, sub_holding)
    BY <1>1, InitQueue
  <1>3. spawns \in Seq(Subagents) /\ Len(spawns) = 0
    BY <1>1, EmptySeq
  <1>4. SubRecords
    <2>1. IsFiniteSet(active_executions) /\ active_executions \in SUBSET Subagents
      BY <1>1, FS_EmptySet
    <2>2. Len(spawns) <= MaxSpawns /\ concurrent_count \in Nat /\ concurrent_count <= Len(spawns)
      BY <1>1, <1>3, LanesAssumption
    <2> QED
      BY <1>1, <1>3, <2>1, <2>2 DEF SubRecords
  <1>5. Unique(sub_pq) /\ \A x : ~In(sub_pq, x)
    BY <1>1, EmptyQueues
  <1>6. \A x \in Subagents : ~SubHeld(x)
    BY <1>1, LanesAssumption DEF SubHeld
  <1>7. Work(sub_pq, sub_holding, concurrent_count)
    <2>1. Busy(sub_holding) = {}
      BY <1>1 DEF Busy
    <2>2. QueueSize(sub_pq) = 0 /\ concurrent_count = 0
      BY <1>1, EmptySize
    <2>3. IsFiniteSet({}) /\ Cardinality({}) = 0
      BY FS_EmptySet
    <2> QED
      BY <2>1, <2>2, <2>3 DEF Work
  <1>8. SubPlaces
    BY <1>1, <1>5, <1>6, <1>7, FS_EmptySet DEF SubPlaces
  <1> QED
    BY <1>2, <1>4, <1>8 DEF SubInv

\* A subagent is spawned.
LEMMA SubSpawns ==
    ASSUME SubInv, NEW x \in Subagents, NEW priority \in Requested, Sub!SpawnSubagent(x, priority)
    PROVE  SubInv'
  <1> DEFINE p == Clamp(priority)
  <1>1. p \in Priorities
    BY MainAssumption DEF Clamp, Priorities
  <1>2. /\ Len(spawns) < MaxSpawns
        /\ sub_pq' = [sub_pq EXCEPT ![p] = Append(sub_pq[p], x)]
        /\ sub_holding' = sub_holding
        /\ active_executions' = active_executions \union {x}
        /\ concurrent_count' = concurrent_count + 1
        /\ spawns' = Append(spawns, x)
        /\ careless' = (careless \/ Has(spawns, x))
        /\ sub_expired' = sub_expired
    BY SubOperators DEF Sub!SpawnSubagent, Sub!Put, Has
  <1>3. /\ p = DefaultPriority => Wakes(sub_getters, sub_woken, sub_getters', sub_woken')
        /\ p # DefaultPriority => sub_getters' = sub_getters /\ sub_woken' = sub_woken
    BY SubOperators DEF Sub!SpawnSubagent, Sub!Put, Sub!WakeNext, Wakes
  <1> HIDE DEF p
  <1>4. QueueInv(Subagents, sub_pq', sub_getters', sub_woken', sub_holding')
    BY <1>1, <1>2, <1>3, PutQueue DEF SubInv
  <1>5. /\ spawns' \in Seq(Subagents) /\ Len(spawns') = Len(spawns) + 1 /\ Len(spawns) \in Nat
        /\ \A y : Has(spawns', y) <=> Has(spawns, y) \/ y = x
    BY <1>2, AppendHas DEF SubInv, SubRecords
  <1>6. IsFiniteSet(active_executions')
    BY <1>2, FS_AddElement DEF SubInv, SubRecords
  <1>7. SubRecords'
    BY <1>2, <1>5, <1>6, LanesAssumption DEF SubInv, SubRecords
  <1>8. ASSUME ~careless' PROVE SubPlaces'
    <2>1. SubPlaces /\ ~Has(spawns, x)
      BY <1>2, <1>8 DEF SubInv
    <2>2. x \notin active_executions /\ ~In(sub_pq, x) /\ ~SubHeld(x)
      BY <2>1 DEF SubPlaces
    <2>3. Joins(Subagents, sub_pq, sub_pq', p, x)
      BY <1>1, <1>2 DEF Joins, SubInv, QueueInv
    <2>4. Unique(sub_pq') /\ \A y : In(sub_pq', y) <=> In(sub_pq, y) \/ y = x
      <3>1. Joined(sub_pq, sub_pq', x)
        BY <2>3, PutPlaces
      <3> QED
        BY <2>1, <2>2, <3>1 DEF Joined, SubPlaces
    <2>5. \A y : SubHeld(y)' <=> SubHeld(y)
      BY <1>2 DEF SubHeld
    <2>6. Work(sub_pq', sub_holding', concurrent_count')
      BY <1>2, <2>1, <2>3, JoinsWork DEF SubPlaces
    <2>7. concurrent_count' = Cardinality(active_executions')
      BY <1>2, <2>1, <2>2, FS_AddElement DEF SubPlaces, SubInv, SubRecords
    <2> QED
      BY <1>2, <1>5, <2>1, <2>2, <2>4, <2>5, <2>6, <2>7 DEF SubPlaces
  <1> QED
    BY <1>4, <1>7, <1>8 DEF SubInv

\* A consumer asks for a subagent.
LEMMA SubDequeue ==
    ASSUME SubInv, NEW c \in Consumers, Sub!Dequeue(c) \/ Sub!Resume(c)
    PROVE  \/ \E p \in Priorities : Takes(sub_pq, sub_getters, sub_woken, sub_holding,
                                          sub_pq', sub_getters', sub_woken', sub_holding', c, p)
           \/ Waits(sub_pq, sub_getters, sub_woken, sub_holding,
                    sub_pq', sub_getters', sub_woken', sub_holding', c)
  <1>1. /\ Has(sub_getters, c) => c \notin sub_woken
        /\ Has(sub_getters, c) \/ c \in sub_woken => sub_holding[c] = NoItem
    BY DEF SubInv, QueueInv, Waiters
  <1>2. Sub!Waiting(c) <=> c \in sub_woken \/ Has(sub_getters, c)
    BY DEF Sub!Waiting, Has
  <1>3. CASE Sub!Dequeue(c)
    <2>1. /\ sub_holding[c] = NoItem /\ ~Has(sub_getters, c) /\ c \notin sub_woken
          /\ sub_woken = sub_woken \ {c}
      BY <1>2, <1>3 DEF Sub!Dequeue
    <2>2. CASE \E p \in Priorities :
                  Sub!NextPriority(p) /\ Sub!Take(c, p) /\ UNCHANGED <<sub_getters, sub_woken>>
      BY <2>1, <2>2, SubOperators DEF Takes, Sub!Take, Sub!NextPriority
    <2>3. CASE /\ \A p \in Priorities : sub_pq[p] = <<>>
               /\ sub_getters' = Append(sub_getters, c)
               /\ UNCHANGED <<sub_pq, sub_woken, sub_holding>>
      BY <2>1, <2>3, DefaultIsPriority DEF Waits
    <2> QED
      BY <1>3, <2>2, <2>3, SubOperators DEF Sub!Dequeue
  <1>4. CASE Sub!Resume(c)
    <2>1. /\ c \in sub_woken /\ sub_holding[c] = NoItem /\ ~Has(sub_getters, c)
          /\ sub_woken' = sub_woken \ {c}
      BY <1>1, <1>4 DEF Sub!Resume
    <2>2. CASE Sub!Take(c, DefaultPriority) /\ UNCHANGED sub_getters
      BY <2>1, <2>2, DefaultIsPriority DEF Takes, Sub!Take
    <2>3. CASE /\ sub_pq[DefaultPriority] = <<>>
               /\ sub_getters' = Append(sub_getters, c)
               /\ UNCHANGED <<sub_pq, sub_holding>>
      BY <2>1, <2>3 DEF Waits
    <2> QED
      BY <1>4, <2>2, <2>3, SubOperators DEF Sub!Resume
  <1> QED
    BY <1>3, <1>4

\* It takes one ...
LEMMA SubTakes ==
    ASSUME SubInv, NEW c \in Consumers, NEW p \in Priorities,
           Takes(sub_pq, sub_getters, sub_woken, sub_holding,
                 sub_pq', sub_getters', sub_woken', sub_holding', c, p),
           UNCHANGED <<active_executions, concurrent_count, sub_expired, spawns, careless>>
    PROVE  SubInv'
  <1> DEFINE x == Head(sub_pq[p])
  <1>1. QueueInv(Subagents, sub_pq', sub_getters', sub_woken', sub_holding')
    BY TakesQueue DEF SubInv
  <1>2. SubRecords'
    BY DEF SubInv, SubRecords
  <1>3. Leaves(Subagents, sub_pq, sub_pq', p, x)
    BY DEF Leaves, Takes, SubInv, QueueInv
  <1>4. /\ sub_holding \in [Consumers -> Subagents \union {NoItem}]
        /\ sub_holding[c] = NoItem
        /\ sub_holding' = [sub_holding EXCEPT ![c] = x]
    BY DEF Takes, SubInv, QueueInv
  <1> HIDE DEF x
  <1>5. Left(Subagents, sub_pq, sub_pq', x)
    BY <1>3, TakePlaces
  <1>6. /\ x \in Subagents /\ In(sub_pq, x) /\ x # NoItem
        /\ \A y : In(sub_pq', y) => In(sub_pq, y)
        /\ \A y : In(sub_pq, y) => In(sub_pq', y) \/ y = x
        /\ Unique(sub_pq) => Unique(sub_pq') /\ ~In(sub_pq', x)
    BY <1>5, LanesAssumption DEF Left
  <1>7. /\ sub_holding'[c] = x
        /\ \A d \in Consumers : d # c => sub_holding'[d] = sub_holding[d]
    BY <1>4
  <1>8. \A y \in Subagents : SubHeld(y)' <=> SubHeld(y) \/ y = x
    BY <1>4, <1>6, <1>7, LanesAssumption DEF SubHeld
  <1>9. ASSUME ~careless' PROVE SubPlaces'
    <2>1. SubPlaces
      BY <1>9 DEF SubInv
    <2>2. ~SubHeld(x)
      BY <1>6, <2>1 DEF SubPlaces
    <2>3. \A d, e \in Consumers :
              sub_holding'[d] = sub_holding'[e] /\ sub_holding'[d] # NoItem => d = e
      BY <1>7, <2>1, <2>2 DEF SubPlaces, SubHeld
    <2>4. Work(sub_pq', sub_holding', concurrent_count')
      <3>1. Work(sub_pq, sub_holding, concurrent_count)
        BY <2>1 DEF SubPlaces
      <3> QED
        BY <1>3, <1>4, <1>6, <3>1, TakesWork
    <2>5. \A y \in Subagents :
             /\ y \in active_executions <=> In(sub_pq', y) \/ SubHeld(y)'
             /\ ~(In(sub_pq', y) /\ SubHeld(y)')
             /\ y \in active_executions => Has(spawns, y)
      BY <1>6, <1>8, <2>1, <2>2 DEF SubPlaces
    <2> QED
      BY <1>6, <2>1, <2>3, <2>4, <2>5 DEF SubPlaces
  <1> QED
    BY <1>1, <1>2, <1>9 DEF SubInv

\* ... or its step leaves queues and records alone.
LEMMA SubSame ==
    ASSUME SubInv, QueueInv(Subagents, sub_pq, sub_getters', sub_woken', sub_holding),
           UNCHANGED <<sub_pq, sub_holding, active_executions, concurrent_count, sub_expired,
                       spawns, careless>>
    PROVE  SubInv'
  BY DEF SubInv, SubRecords, SubPlaces, SubHeld

\* A consumer of the subagent lane gives up.
LEMMA SubTimesOut ==
    ASSUME SubInv, NEW c \in Consumers, Sub!TimeOut(c)
    PROVE  SubInv'
  <1>1. UNCHANGED <<sub_pq, sub_holding, active_executions, concurrent_count, sub_expired,
                    spawns, careless>>
    BY DEF Sub!TimeOut, Sub!GiveUp
  <1>2. \/ \E i \in 1..Len(sub_getters) :
              /\ sub_getters[i] = c /\ sub_getters' = RemoveAt(sub_getters, i)
              /\ sub_woken' = sub_woken
        \/ /\ c \in sub_woken
           /\ IF sub_pq[DefaultPriority] # <<>>
              THEN Wakes(sub_getters, sub_woken \ {c}, sub_getters', sub_woken')
              ELSE sub_getters' = sub_getters /\ sub_woken' = sub_woken \ {c}
    BY SubOperators DEF Sub!TimeOut, Sub!GiveUp, Sub!WakeNext, Wakes
  <1>3. QueueInv(Subagents, sub_pq, sub_getters', sub_woken', sub_holding)
    BY <1>2, GiveUpQueue DEF SubInv
  <1> QED
    BY <1>1, <1>3, SubSame

\* Marking complete in general.
LEMMA SubMarks ==
    ASSUME SubInv, NEW x, Sub!MarkComplete(x), UNCHANGED <<sub_expired, spawns>>,
           careless' \in BOOLEAN
    PROVE  SubRecords'
  <1>1. /\ active_executions' = active_executions \ {x}
        /\ concurrent_count' = IF concurrent_count > 0 THEN concurrent_count - 1 ELSE 0
    BY DEF Sub!MarkComplete, Sub!Decrement
  <1>2. IsFiniteSet(active_executions')
    BY <1>1, FS_Subset DEF SubInv, SubRecords
  <1>3. Len(spawns) \in Nat
    BY LenProperties DEF SubInv, SubRecords
  <1> QED
    BY <1>1, <1>2, <1>3 DEF SubInv, SubRecords

\* A consumer has run its subagent.
LEMMA SubFinishes ==
    ASSUME SubInv, NEW c \in Consumers, Sub!Finish(c)
    PROVE  SubInv'
  <1> DEFINE x == sub_holding[c]
  <1>1. /\ x # NoItem /\ Sub!MarkComplete(x)
        /\ sub_holding' = [sub_holding EXCEPT ![c] = NoItem]
        /\ UNCHANGED <<sub_pq, sub_getters, sub_woken, sub_expired, spawns, careless>>
    BY DEF Sub!Finish
  <1>2. SubRecords'
    BY <1>1, SubMarks DEF SubInv, SubRecords
  <1>3. QueueInv(Subagents, sub_pq', sub_getters', sub_woken', sub_holding')
    BY <1>1, ReleaseQueue DEF SubInv
  <1>4. x \in Subagents /\ SubHeld(x) /\ sub_holding \in [Consumers -> Subagents \union {NoItem}]
    BY <1>1 DEF SubInv, QueueInv, SubHeld
  <1>5. /\ sub_holding'[c] = NoItem
        /\ \A d \in Consumers : d # c => sub_holding'[d] = sub_holding[d]
    BY <1>1, <1>4
  <1>6. active_executions' = active_executions \ {x}
    BY <1>1 DEF Sub!MarkComplete
  <1>7. concurrent_count > 0 => concurrent_count' = concurrent_count - 1
    BY <1>1 DEF Sub!MarkComplete, Sub!Decrement
  <1>8. ASSUME ~careless' PROVE SubPlaces'
    <2>1. SubPlaces
      BY <1>1, <1>8 DEF SubInv
    <2>2. x \in active_executions /\ ~In(sub_pq, x)
      BY <1>4, <2>1 DEF SubPlaces
    <2>3. \A y \in Subagents : SubHeld(y)' <=> SubHeld(y) /\ y # x
      BY <1>1, <1>5, <2>1, LanesAssumption DEF SubHeld, SubPlaces
    <2>4. \A d, e \in Consumers :
              sub_holding'[d] = sub_holding'[e] /\ sub_holding'[d] # NoItem => d = e
      BY <1>5, <2>1 DEF SubPlaces
    <2>5. /\ concurrent_count > 0
          /\ Cardinality(active_executions') = concurrent_count - 1
      <3>1. /\ IsFiniteSet(active_executions)
            /\ Cardinality(active_executions) = concurrent_count
            /\ concurrent_count \in Nat
        BY <2>1 DEF SubPlaces, SubInv, SubRecords
      <3>2. Cardinality(active_executions') = concurrent_count - 1
        BY <1>6, <2>2, <3>1, FS_RemoveElement
      <3>3. active_executions # {}
        BY <2>2
      <3>4. concurrent_count # 0
        BY <3>1, <3>3, FS_EmptySet
      <3> QED
        BY <3>1, <3>2, <3>4
    <2>6. Work(sub_pq', sub_holding', concurrent_count')
      <3>1. Work(sub_pq, sub_holding, concurrent_count)
        BY <2>1 DEF SubPlaces
      <3>2. QueueSize(sub_pq) \in Nat
        BY SizeSplit, DefaultIsPriority DEF SubInv, QueueInv
      <3>3. Work(sub_pq, sub_holding', concurrent_count - 1)
        BY <1>1, <1>4, <3>1, <3>2, DoneWork
      <3> QED
        BY <1>1, <1>7, <2>5, <3>3
    <2> QED
      BY <1>1, <1>6, <1>7, <2>1, <2>2, <2>3, <2>4, <2>5, <2>6 DEF SubPlaces
  <1> QED
    BY <1>2, <1>3, <1>8 DEF SubInv

\* Every step of the subagent lane keeps its invariant.
LEMMA SubStep == SubInv /\ [Sub!Next]_(Sub!vars) => SubInv'
  <1> SUFFICES ASSUME SubInv, [Sub!Next]_(Sub!vars) PROVE SubInv'
    OBVIOUS
  <1>1. CASE UNCHANGED Sub!vars
    BY <1>1 DEF Sub!vars, SubInv, SubRecords, SubPlaces, SubHeld
  <1>2. ASSUME NEW x \in Subagents, Sub!Expire(x) PROVE SubInv'
    BY <1>2 DEF Sub!Expire, SubInv, SubRecords, SubPlaces, SubHeld
  <1>3. ASSUME NEW x \in Subagents, NEW p \in Requested, Sub!SpawnSubagent(x, p) PROVE SubInv'
    BY <1>3, SubSpawns
  <1>4. ASSUME NEW x \in Subagents, Sub!StrayComplete(x) PROVE SubInv'
    <2>1. /\ Sub!MarkComplete(x) /\ careless' = TRUE
          /\ UNCHANGED <<sub_pq, sub_getters, sub_woken, sub_holding, sub_expired, spawns>>
      BY <1>4 DEF Sub!StrayComplete
    <2>2. SubRecords'
      BY <2>1, SubMarks
    <2> QED
      BY <2>1, <2>2 DEF SubInv
  <1>5. ASSUME NEW c \in Consumers, Sub!DequeueNextSubagent(c) PROVE SubInv'
    <2>1. /\ Sub!Dequeue(c) \/ Sub!Resume(c)
          /\ UNCHANGED <<active_executions, concurrent_count, sub_expired, spawns, careless>>
      BY <1>5 DEF Sub!DequeueNextSubagent
    <2>2. CASE Waits(sub_pq, sub_getters, sub_woken, sub_holding,
                     sub_pq', sub_getters', sub_woken', sub_holding', c)
      <3>1. QueueInv(Subagents, sub_pq', sub_getters', sub_woken', sub_holding')
        BY <2>2, WaitsQueue DEF SubInv
      <3>2. sub_pq' = sub_pq /\ sub_holding' = sub_holding
        BY <2>2 DEF Waits
      <3> QED
        BY <2>1, <3>1, <3>2, SubSame
    <2> QED
      BY <2>1, <2>2, SubDequeue, SubTakes
  <1>6. ASSUME NEW c \in Consumers, Sub!TimeOut(c) PROVE SubInv'
    BY <1>6, SubTimesOut
  <1>7. ASSUME NEW c \in Consumers, Sub!Finish(c) PROVE SubInv'
    BY <1>7, SubFinishes
  <1> QED
    BY <1>1, <1>2, <1>3, <1>4, <1>5, <1>6, <1>7 DEF Sub!Next

\* The lane manager only routes.
LEMMA RoutesToSubagents == [LanesNext]_lanesVars => [Sub!Next]_(Sub!vars)
  <1> SUFFICES ASSUME [LanesNext]_lanesVars PROVE [Sub!Next]_(Sub!vars)
    OBVIOUS
  <1>1. UNCHANGED subVars => UNCHANGED Sub!vars
    BY DEF subVars, Sub!vars
  <1>2. CASE UNCHANGED lanesVars
    BY <1>1, <1>2 DEF lanesVars
  <1>3. CASE MainNext \/ CronNext
    BY <1>1, <1>3 DEF MainNext, CronNext, MainSteps, CronSteps, enqueue_main_task, schedule_cron_task
  <1>4. CASE SubagentSteps
    BY <1>4 DEF SubagentSteps, Sub!Next
  <1>5. ASSUME NEW x \in Subagents, NEW p \in Requested, spawn_subagent(x, p)
        PROVE  [Sub!Next]_(Sub!vars)
    BY <1>1, <1>5 DEF spawn_subagent, Sub!Next
  <1> QED
    BY <1>2, <1>3, <1>4, <1>5 DEF LanesNext, SubagentNext

\* A lane that does not exist has no work.
IdleInv ==
    /\ lanes \subseteq LaneTypes
    /\ "subagent" \notin lanes => QueueSize(sub_pq) = 0 /\ concurrent_count = 0

\* The lane is created by the step that first asks for it.
LEMMA IdleStep == IdleInv /\ [LanesNext]_lanesVars => IdleInv'
  <1> SUFFICES ASSUME IdleInv, [LanesNext]_lanesVars PROVE IdleInv'
    OBVIOUS
  <1>1. /\ lanes \subseteq lanes' /\ lanes' \subseteq LaneTypes
        /\ "subagent" \in lanes' \/ UNCHANGED <<sub_pq, concurrent_count>>
    BY DEF IdleInv, LaneTypes, LanesNext, lanesVars, MainNext, SubagentNext, CronNext, MainSteps,
       SubagentSteps, CronSteps, enqueue_main_task, spawn_subagent, schedule_cron_task,
       GetOrCreateLane, Within, subVars, Sub!Expire
  <1>2. sub_pq' = sub_pq => QueueSize(sub_pq)' = QueueSize(sub_pq)
    BY DEF QueueSize
  <1> QED
    BY <1>1, <1>2 DEF IdleInv

\* The invariant of the subagent lane.
LEMMA SubInvariant == LanesSpec => [](SubInv /\ IdleInv)
  <1>1. LanesInit => SubInv /\ IdleInv
    <2> SUFFICES ASSUME LanesInit PROVE SubInv /\ IdleInv
      OBVIOUS
    <2>1. /\ lanes = {} /\ Sub!Init /\ concurrent_count = 0
          /\ sub_pq = [p \in Priorities |-> <<>>]
      BY SubOperators DEF LanesInit, Sub!Init, Sub!QueueInit
    <2> QED
      BY <2>1, SubInit, EmptySize DEF IdleInv
  <1>2. SubInv /\ IdleInv /\ [LanesNext]_lanesVars => (SubInv /\ IdleInv)'
    BY SubStep, RoutesToSubagents, IdleStep
  <1> QED
    BY <1>1, <1>2, PTL DEF LanesSpec

\* The state of all the lanes keeps its types: among others, the counter of
\* the subagents stays within the number of spawns whatever callers mark
\* complete, and no clamped priority falls outside of the queues.
THEOREM LanesTypes == LanesSpec => []LanesTypeOK
  <1>1. MainInv /\ CronInv /\ SubInv /\ IdleInv => LanesTypeOK
    BY SubTypes DEF MainInv, CronInv, IdleInv, LanesTypeOK
  <1> QED
    BY <1>1, MainInvariant, CronInvariant, SubInvariant, PTL

\* What get_lane_stats reports of the subagents, when each is spawned once and
\* marked complete by its consumer, is what is queued and what is run.
THEOREM SubagentsCounted == LanesSpec => []SubagentsAreCounted
  <1>1. SubInv /\ IdleInv => SubagentsAreCounted
    <2> SUFFICES ASSUME SubInv, IdleInv PROVE SubagentsAreCounted
      OBVIOUS
    <2>1. Sub!CountIsActive
      BY SubOperators DEF Sub!CountIsActive, SubInv, SubPlaces
    <2>2. Sub!PendingIsActive
      <3>1. \A x \in Subagents : Sub!Queued(x) <=> In(sub_pq, x)
        BY SubOperators DEF Sub!Queued, In, Has
      <3> QED
        BY <3>1 DEF Sub!PendingIsActive, SubInv, SubPlaces, SubHeld
    <2>3. ASSUME "subagent" \in lanes, ~careless
          PROVE  get_lane_stats["subagent"].queue_size
                    + Cardinality({c \in Consumers : sub_holding[c] # NoItem})
                 = get_lane_stats["subagent"].concurrent_count
      <3> DEFINE report == [queue_size |-> QueueSize(sub_pq), concurrent_count |-> concurrent_count,
                            concurrency_percent |-> Percent(concurrent_count, MaxConcurrency)]
      <3>1. get_lane_stats["subagent"] = report
        BY <2>3, Zenon DEF get_lane_stats
      <3>2. report.queue_size = QueueSize(sub_pq) /\ report.concurrent_count = concurrent_count
        OBVIOUS
      <3>3. QueueSize(sub_pq) + Cardinality(Busy(sub_holding)) = concurrent_count
        BY <2>3 DEF SubInv, SubPlaces, Work
      <3> QED
        BY <3>1, <3>2, <3>3 DEF Busy
    <2> QED
      BY <2>1, <2>2, <2>3 DEF SubagentsAreCounted, IdleInv
  <1> QED
    BY <1>1, SubInvariant, PTL
=============================================================================
