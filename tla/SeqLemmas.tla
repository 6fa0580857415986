----------------------------- MODULE SeqLemmas -----------------------------
(***************************************************************************)
(* What the community modules' Min, Max, InsertAt, RemoveAt and FlattenSeq *)
(* return, for the proofs about queues kept as sequences, the index of a   *)
(* ring, and induction and loops in the form the provers can use.          *)
(***************************************************************************)
EXTENDS Integers, SequencesExt, SequenceTheorems, WellFoundedInduction, TLAPS

\* r is q with t inserted at place k, r is q without what was at place k, and
\* R holds between all earlier and later elements of q.
IsInsertion(r, q, k, t) ==
    /\ Len(r) = Len(q) + 1
    /\ \A j \in 1 .. Len(r) :
          r[j] = IF j < k THEN q[j] ELSE IF j = k THEN t ELSE q[j - 1]

IsRemoval(r, q, k) ==
    /\ Len(r) = Len(q) - 1
    /\ \A j \in 1 .. Len(r) : r[j] = IF j < k THEN q[j] ELSE q[j + 1]

Pairwise(R, q) == \A i, j \in 1 .. Len(q) : i < j => <<q[i], q[j]>> \in R

\* A non-empty set of naturals has a minimum.
LEMMA MinOfNats ==
    ASSUME NEW S, S \subseteq Nat, S # {}
    PROVE  /\ Min(S) \in S
           /\ \A j \in S : Min(S) <= j
<1>1. PICK x \in S : \A y \in S : ~(<<y, x>> \in OpToRel(<, Nat))
  BY WFMin, NatLessThanWellFounded
<1>2. ASSUME NEW j \in S PROVE x <= j
  <2>1. ~(<<j, x>> \in OpToRel(<, Nat))
    BY <1>1
  <2>2. <<j, x>> \in Nat \X Nat
    OBVIOUS
  <2>3. ~(j < x)
    BY <2>1, <2>2 DEF OpToRel
  <2>. QED
    BY <2>3
<1>. QED
  BY <1>2 DEF Min

\* A set of numbers up to n has a greatest element.
LEMMA MaxUpTo ==
    ASSUME NEW n \in Nat, NEW S, S \subseteq 0 .. n, S # {}
    PROVE  Max(S) \in S /\ \A j \in S : j <= Max(S)
<1>. DEFINE D == {n - i : i \in S}
<1>1. D \subseteq Nat /\ D # {}
  <2>1. \A i \in S : n - i \in Nat
    <3>. SUFFICES ASSUME NEW i \in S PROVE n - i \in Nat
      OBVIOUS
    <3>1. i \in 0 .. n
      OBVIOUS
    <3>. QED
      BY <3>1
  <2>. QED
    BY <2>1
<1>2. PICK d \in D : \A e \in D : d <= e
  <2>. HIDE DEF D
  <2>. QED
    BY <1>1, MinOfNats
<1>3. PICK x \in S : d = n - x
  OBVIOUS
<1>4. \A y \in S : x >= y /\ y <= x
  <2>. SUFFICES ASSUME NEW y \in S PROVE x >= y /\ y <= x
    OBVIOUS
  <2>1. n - x <= n - y
    BY <1>2, <1>3
  <2>. QED
    BY <2>1
<1>5. PICK m \in S : m = Max(S) /\ \A y \in S : m >= y
  BY <1>4 DEF Max
<1>6. m \in Int /\ \A y \in S : y \in Int
  OBVIOUS
<1>. QED
  BY <1>5, <1>6

\* Of two numbers Min is the smaller,
LEMMA MinOfTwo ==
    ASSUME NEW a \in Int, NEW b \in Int
    PROVE  Min({a, b}) = IF a <= b THEN a ELSE b
<1>1. \E x \in {a, b} : \A y \in {a, b} : x <= y
  OBVIOUS
<1>2. PICK m \in {a, b} : m = Min({a, b}) /\ \A y \in {a, b} : m <= y
  BY <1>1 DEF Min
<1>. QED
  BY <1>2

\* and Max the greater one.
LEMMA MaxOfTwo ==
    ASSUME NEW a \in Int, NEW b \in Int
    PROVE  Max({a, b}) = IF a >= b THEN a ELSE b
<1>1. \E x \in {a, b} : \A y \in {a, b} : x >= y
  OBVIOUS
<1>2. PICK m \in {a, b} : m = Max({a, b}) /\ \A y \in {a, b} : m >= y
  BY <1>1 DEF Max
<1>. QED
  BY <1>2

\* Induction along an interval, in the form of a set that is closed upwards.
LEMMA CountingUp ==
    ASSUME NEW n \in Nat, NEW S, 0 \in S, \A i \in 1 .. n : i - 1 \in S => i \in S
    PROVE  0 .. n \subseteq S
<1>. DEFINE T == {i \in 0 .. n : i \notin S}
<1>1. ASSUME T # {} PROVE FALSE
  <2>1. T \subseteq Nat
    OBVIOUS
  <2>2. PICK m \in T : \A k \in T : m <= k
    <3>. HIDE DEF T
    <3>. QED
      BY <1>1, <2>1, MinOfNats
  <2>3. m \in 1 .. n /\ m - 1 \in 0 .. n /\ m - 1 \notin T
    BY <2>2
  <2>. QED
    BY <2>3
<1>. QED
  BY <1>1

\* A loop over 1..n whose i-th pass maps a state of A to a state of A has a run,
\* given as the function that a recursive definition asks for.
IsLoop(h, n, a, step) == h = [i \in 0..n |-> IF i = 0 THEN a ELSE step[i][h[i - 1]]]

LEMMA LoopRuns ==
    ASSUME NEW n \in Nat, NEW A, NEW a \in A, NEW step \in [1..n -> [A -> A]]
    PROVE  \E h \in [0..n -> A] : IsLoop(h, n, a, step)
<1>. DEFINE Run(h, k) == /\ h \in [0..k -> A]
                         /\ h[0] = a
                         /\ \A i \in 1..k : h[i] = step[i][h[i - 1]]
            S == {k \in 0..n : \E h : Run(h, k)}
<1>1. 0 \in S
  <2>1. Run([i \in 0..0 |-> a], 0)
    OBVIOUS
  <2>. HIDE DEF Run
  <2>. QED
    BY <2>1
<1>2. ASSUME NEW k \in 1..n, k - 1 \in S PROVE k \in S
  <2>1. PICK h : Run(h, k - 1)
    BY <1>2
  <2>. DEFINE f == [i \in 0..k |-> IF i = k THEN step[k][h[k - 1]] ELSE h[i]]
  <2>2. h[k - 1] \in A /\ step[k] \in [A -> A]
    BY <2>1
  <2>3. f \in [0..k -> A]
    <3>1. ASSUME NEW i \in 0..k, i # k PROVE i \in 0..(k - 1)
      BY <3>1
    <3>. QED
      BY <2>1, <2>2, <3>1
  <2>4. f[0] = a
    BY <2>1
  <2>5. ASSUME NEW i \in 1..k PROVE f[i] = step[i][f[i - 1]]
    <3>1. i - 1 \in 0..k /\ i - 1 # k /\ i \in 0..k
      OBVIOUS
    <3>2. f[i - 1] = h[i - 1]
      BY <3>1
    <3>3. CASE i = k
      BY <3>2, <3>3
    <3>4. CASE i # k
      <4>1. i \in 1..(k - 1)
        BY <3>4
      <4>2. f[i] = h[i]
        BY <3>1, <3>4
      <4>. HIDE DEF f
      <4>. QED
        BY <2>1, <3>2, <4>1, <4>2
    <3>. QED
      BY <3>3, <3>4
  <2>. HIDE DEF f
  <2>6. Run(f, k)
    BY <2>3, <2>4, <2>5
  <2>. HIDE DEF Run
  <2>. QED
    BY <2>6
<1>3. n \in S
  <2>. HIDE DEF S
  <2>1. 0..n \subseteq S
    BY <1>1, <1>2, CountingUp
  <2>. QED
    BY <2>1
<1>4. PICK h : Run(h, n)
  BY <1>3
<1>5. h = [i \in 0..n |-> h[i]]
  BY <1>4
<1>6. \A i \in 0..n : h[i] = IF i = 0 THEN a ELSE step[i][h[i - 1]]
  <2>1. \A i \in 0..n : i # 0 => i \in 1..n
    OBVIOUS
  <2>. QED
    BY <1>4, <2>1
<1>. QED
  BY <1>4, <1>5, <1>6 DEF IsLoop

\* What every pass keeps holds at the end.
LEMMA LoopKeeps ==
    ASSUME NEW n \in Nat, NEW h, NEW A, h[0] \in A,
           \A i \in 1..n : h[i - 1] \in A => h[i] \in A
    PROVE  \A i \in 0..n : h[i] \in A
<1>. DEFINE S == {i \in 0..n : h[i] \in A}
<1>1. 0 \in S
  OBVIOUS
<1>2. ASSUME NEW i \in 1..n, i - 1 \in S PROVE i \in S
  BY <1>2
<1>. HIDE DEF S
<1>3. 0..n \subseteq S
  BY <1>1, <1>2, CountingUp
<1>. QED
  BY <1>3 DEF S

\* An index that leaves the ring at most once.
Wrap(x, n) == x % n

\* It is taken back by the length of the ring, or not at all.
LEMMA WrapsOnce ==
    ASSUME NEW n \in Nat \ {0}, NEW x \in 0..(2 * n - 1)
    PROVE  Wrap(x, n) = (IF x < n THEN x ELSE x - n) /\ Wrap(x, n) \in 0..(n - 1)
<1>. DEFINE d == x \div n
            m == x % n
<1>1. d \in Int /\ m \in 0..(n - 1) /\ x = n * d + m
  OBVIOUS
<1>6. Wrap(x, n) = m
  BY DEF Wrap
<1>. HIDE DEF d, m
<1>2. CASE d >= 2
  <2>1. n * d >= n * 2
    BY <1>1, <1>2
  <2>. QED
    BY <1>1, <2>1
<1>3. CASE d <= -1
  <2>1. n * d <= n * (-1)
    BY <1>1, <1>3
  <2>. QED
    BY <1>1, <2>1
<1>4. CASE d = 0
  BY <1>1, <1>4, <1>6
<1>5. CASE d = 1
  BY <1>1, <1>5, <1>6
<1>. QED
  BY <1>1, <1>2, <1>3, <1>4, <1>5

\* InsertAt shifts what follows the new element.
LEMMA InsertAtProperties ==
    ASSUME NEW T, NEW q \in Seq(T), NEW i \in 1 .. Len(q) + 1, NEW t \in T
    PROVE  /\ InsertAt(q, i, t) \in Seq(T)
           /\ IsInsertion(InsertAt(q, i, t), q, i, t)
<1>. DEFINE front == SubSeq(q, 1, i - 1)
            back  == SubSeq(q, i, Len(q))
            head  == front \o <<t>>
<1>1. /\ front \in Seq(T)
      /\ Len(front) = i - 1
      /\ \A j \in 1 .. i - 1 : front[j] = q[j]
  OBVIOUS
<1>2. /\ back \in Seq(T)
      /\ Len(back) = Len(q) - i + 1
      /\ \A j \in 1 .. Len(q) - i + 1 : back[j] = q[i + j - 1]
  OBVIOUS
<1>. HIDE DEF front, back
<1>3. /\ head \in Seq(T)
      /\ Len(head) = i
      /\ \A j \in 1 .. i : head[j] = IF j < i THEN q[j] ELSE t
  BY <1>1
<1>4. InsertAt(q, i, t) = head \o back
  BY DEF InsertAt, front, back
<1>. HIDE DEF head
<1>5. /\ head \o back \in Seq(T)
      /\ Len(head \o back) = Len(head) + Len(back)
      /\ \A j \in 1 .. Len(head) + Len(back) :
            (head \o back)[j] = IF j <= Len(head) THEN head[j] ELSE back[j - Len(head)]
  BY <1>2, <1>3, ConcatProperties
<1>. QED
  BY <1>2, <1>3, <1>4, <1>5 DEF IsInsertion

\* RemoveAt closes the gap.
LEMMA RemoveAtProperties ==
    ASSUME NEW T, NEW q \in Seq(T), NEW i \in 1 .. Len(q)
    PROVE  /\ RemoveAt(q, i) \in Seq(T)
           /\ IsRemoval(RemoveAt(q, i), q, i)
<1>. DEFINE front == SubSeq(q, 1, i - 1)
            back  == SubSeq(q, i + 1, Len(q))
<1>1. /\ front \in Seq(T)
      /\ Len(front) = i - 1
      /\ \A j \in 1 .. i - 1 : front[j] = q[j]
  OBVIOUS
<1>2. /\ back \in Seq(T)
      /\ Len(back) = Len(q) - i
      /\ \A j \in 1 .. Len(q) - i : back[j] = q[i + j]
  OBVIOUS
<1>. HIDE DEF front, back
<1>3. RemoveAt(q, i) = front \o back
  BY DEF RemoveAt, front, back
<1>4. /\ front \o back \in Seq(T)
      /\ Len(front \o back) = Len(front) + Len(back)
      /\ \A j \in 1 .. Len(front) + Len(back) :
            (front \o back)[j] = IF j <= Len(front) THEN front[j] ELSE back[j - Len(front)]
  BY <1>1, <1>2, ConcatProperties
<1>. QED
  BY <1>1, <1>2, <1>3, <1>4, SMTT(40) DEF IsRemoval

\* An element of a sequence has a place.
LEMMA InToSet ==
    ASSUME NEW T, NEW q \in Seq(T)
    PROVE  \A x : x \in ToSet(q) <=> \E i \in 1 .. Len(q) : q[i] = x
BY DEF ToSet

\* A relation between earlier and later elements survives an insertion that
\* respects it; with r for the result, described by InsertAtProperties.
LEMMA InsertedPairs ==
    ASSUME NEW T, NEW R, NEW q \in Seq(T), NEW r \in Seq(T),
           NEW k \in 1 .. Len(q) + 1, NEW t \in T,
           IsInsertion(r, q, k, t),
           Pairwise(R, q),
           \A j \in 1 .. Len(q) :
               IF j < k THEN <<q[j], t>> \in R ELSE <<t, q[j]>> \in R
    PROVE  Pairwise(R, r)
<1>. USE DEF IsInsertion, Pairwise
<1>1. \A j \in 1 .. Len(r) : j < k => j \in 1 .. Len(q) /\ r[j] = q[j]
  OBVIOUS
<1>2. \A j \in 1 .. Len(r) : j > k => \E m \in 1 .. Len(q) : m = j - 1 /\ r[j] = q[m]
  OBVIOUS
<1>3. k \in 1 .. Len(r) /\ r[k] = t
  OBVIOUS
<1>4. SUFFICES ASSUME NEW i \in 1 .. Len(r), NEW j \in 1 .. Len(r), i < j 
               PROVE <<r[i], r[j]>> \in R
  OBVIOUS
<1>5. CASE j < k
  BY <1>1, <1>4, <1>5
<1>6. CASE j = k
  BY <1>1, <1>3, <1>4, <1>6
<1>7. CASE i < k /\ k < j
  <2>1. PICK m \in 1 .. Len(q) : m = j - 1 /\ r[j] = q[m]
    BY <1>2, <1>7
  <2>2. i \in 1 .. Len(q) /\ i < m /\ r[i] = q[i]
    BY <1>1, <1>7, <2>1
  <2>. QED
    BY <2>1, <2>2
<1>8. CASE i = k
  <2>1. PICK m \in 1 .. Len(q) : m = j - 1 /\ r[j] = q[m]
    BY <1>2, <1>4, <1>8
  <2>2. ~(m < k)
    BY <1>4, <1>8, <2>1
  <2>3. <<t, q[m]>> \in R
    BY <2>2
  <2>. QED
    BY <1>3, <1>8, <2>1, <2>3
<1>9. CASE k < i
  <2>0. j > k
    BY <1>4, <1>9
  <2>1. PICK m \in 1 .. Len(q) : m = j - 1 /\ r[j] = q[m]
    BY <1>2, <2>0
  <2>2. PICK n \in 1 .. Len(q) : n = i - 1 /\ r[i] = q[n]
    BY <1>2, <1>4, <1>9
  <2>3. n < m
    BY <1>4, <2>1, <2>2
  <2>. QED
    BY <2>1, <2>2, <2>3
<1>. QED
  BY <1>4, <1>5, <1>6, <1>7, <1>8, <1>9

\* An insertion adds its element and keeps the others.
LEMMA InsertedMembers ==
    ASSUME NEW T, NEW q \in Seq(T), NEW r \in Seq(T),
           NEW k \in 1 .. Len(q) + 1, NEW t \in T,
           IsInsertion(r, q, k, t)
    PROVE  ToSet(r) = ToSet(q) \cup {t}
<1>. USE DEF IsInsertion
<1>1. ASSUME NEW j \in 1 .. Len(r)
      PROVE  r[j] = t \/ \E i \in 1 .. Len(q) : r[j] = q[i]
  <2>1. CASE j = k
    BY <2>1
  <2>2. CASE j # k
    <3>1. PICK i \in 1 .. Len(q) : i = (IF j < k THEN j ELSE j - 1) /\ r[j] = q[i]
      BY <2>2
    <3>. QED
      BY <3>1
  <2>. QED
    BY <2>1, <2>2
<1>2. ASSUME NEW j \in 1 .. Len(q)
      PROVE  \E i \in 1 .. Len(r) : r[i] = q[j]
  <2>1. PICK i \in 1 .. Len(r) : i = (IF j < k THEN j ELSE j + 1)
    OBVIOUS
  <2>2. r[i] = q[j]
    BY <2>1
  <2>. QED
    BY <2>2
<1>3. k \in 1 .. Len(r) /\ r[k] = t
  OBVIOUS
<1>4. /\ \A x : x \in ToSet(q) <=> \E i \in 1 .. Len(q) : q[i] = x
      /\ \A x : x \in ToSet(r) <=> \E i \in 1 .. Len(r) : r[i] = x
  BY InToSet
<1>. QED
  BY <1>1, <1>2, <1>3, <1>4

\* A relation between earlier and later elements survives a removal; with r
\* for the result, described by RemoveAtProperties.
LEMMA RemovedPairs ==
    ASSUME NEW T, NEW R, NEW q \in Seq(T), NEW r \in Seq(T),
           NEW k \in 1 .. Len(q),
           IsRemoval(r, q, k),
           Pairwise(R, q)
    PROVE  Pairwise(R, r)
<1>. USE DEF IsRemoval, Pairwise
<1>1. ASSUME NEW i \in 1 .. Len(r), NEW j \in 1 .. Len(r), i < j
      PROVE <<r[i], r[j]>> \in R
  <2>1. PICK n \in 1 .. Len(q) : n = (IF i < k THEN i ELSE i + 1) /\ r[i] = q[n]
    OBVIOUS
  <2>2. PICK m \in 1 .. Len(q) : m = (IF j < k THEN j ELSE j + 1) /\ r[j] = q[m]
    OBVIOUS
  <2>3. n < m
    BY <1>1, <2>1, <2>2
  <2>. QED
    BY <2>1, <2>2, <2>3
<1>. QED
  BY <1>1

\* A removal takes away an element that occurs only once.
LEMMA RemovedMembers ==
    ASSUME NEW T, NEW q \in Seq(T), NEW r \in Seq(T),
           NEW k \in 1 .. Len(q),
           IsRemoval(r, q, k),
           \A i \in 1 .. Len(q) : q[i] = q[k] => i = k
    PROVE  ToSet(r) = ToSet(q) \ {q[k]}
<1>. USE DEF IsRemoval
<1>1. ASSUME NEW j \in 1 .. Len(r)
      PROVE  \E i \in 1 .. Len(q) : r[j] = q[i] /\ q[i] # q[k]
  <2>1. PICK i \in 1 .. Len(q) : i = (IF j < k THEN j ELSE j + 1) /\ r[j] = q[i]
    OBVIOUS
  <2>2. i # k
    BY <2>1
  <2>. QED
    BY <2>1, <2>2
<1>2. ASSUME NEW j \in 1 .. Len(q), q[j] # q[k]
      PROVE  \E i \in 1 .. Len(r) : r[i] = q[j]
  <2>1. CASE j < k
    BY <2>1
  <2>2. CASE j > k
    <3>1. PICK i \in 1 .. Len(r) : i = j - 1
      BY <2>2
    <3>2. ~(i < k) /\ i + 1 = j
      BY <2>2, <3>1
    <3>. QED
      BY <3>2
  <2>. QED
    BY <1>2, <2>1, <2>2
<1>3. /\ \A x : x \in ToSet(q) <=> \E i \in 1 .. Len(q) : q[i] = x
      /\ \A x : x \in ToSet(r) <=> \E i \in 1 .. Len(r) : r[i] = x
  BY InToSet
<1>. QED
  BY <1>1, <1>2, <1>3, ZenonT(40)

\* Members of two sequences put together.
IsConcat(c, a, b) == c = a \o b

LEMMA ConcatIs ==
    ASSUME NEW T, NEW a \in Seq(T), NEW b \in Seq(T), NEW c, IsConcat(c, a, b)
    PROVE  /\ c \in Seq(T) /\ Range(c) = Range(a) \cup Range(b)
           /\ IsInjective(a) /\ IsInjective(b) /\ Range(a) \cap Range(b) = {} => IsInjective(c)
<1>. DEFINE m == Len(a)
            n == Len(b)
<1>1. /\ m \in Nat /\ n \in Nat /\ DOMAIN a = 1..m /\ DOMAIN b = 1..n
      /\ c \in Seq(T) /\ DOMAIN c = 1..(m + n)
      /\ \A i \in 1..(m + n) : c[i] = IF i <= m THEN a[i] ELSE b[i - m]
  BY DEF IsConcat
<1>. HIDE DEF m, n
<1>2. ASSUME NEW i \in 1..(m + n)
      PROVE  \/ i \in 1..m /\ c[i] = a[i] /\ a[i] \in Range(a)
             \/ i - m \in 1..n /\ c[i] = b[i - m] /\ b[i - m] \in Range(b)
  <2>1. CASE i <= m
    <3>1. i \in 1..m
      BY <1>1, <2>1
    <3>. QED
      BY <1>1, <2>1, <3>1 DEF Range
  <2>2. CASE ~(i <= m)
    <3>1. i - m \in 1..n
      BY <1>1, <2>2
    <3>. QED
      BY <1>1, <2>2, <3>1 DEF Range
  <2>. QED
    BY <2>1, <2>2
<1>3. Range(c) \subseteq Range(a) \cup Range(b)
  <2>. SUFFICES ASSUME NEW x \in Range(c) PROVE x \in Range(a) \cup Range(b)
    OBVIOUS
  <2>1. PICK i \in 1..(m + n) : x = c[i]
    BY <1>1 DEF Range
  <2>. QED
    BY <1>2, <2>1
<1>4. Range(a) \subseteq Range(c)
  <2>. SUFFICES ASSUME NEW x \in Range(a) PROVE x \in Range(c)
    OBVIOUS
  <2>1. PICK i \in 1..m : x = a[i]
    BY <1>1 DEF Range
  <2>2. i \in 1..(m + n) /\ i <= m
    BY <1>1
  <2>. QED
    BY <1>1, <2>1, <2>2 DEF Range
<1>5. Range(b) \subseteq Range(c)
  <2>. SUFFICES ASSUME NEW x \in Range(b) PROVE x \in Range(c)
    OBVIOUS
  <2>1. PICK i \in 1..n : x = b[i]
    BY <1>1 DEF Range
  <2>2. i + m \in 1..(m + n) /\ ~(i + m <= m) /\ (i + m) - m = i
    BY <1>1
  <2>. QED
    BY <1>1, <2>1, <2>2 DEF Range
<1>6. ASSUME IsInjective(a), IsInjective(b), Range(a) \cap Range(b) = {} PROVE IsInjective(c)
  <2>. SUFFICES ASSUME NEW i \in 1..(m + n), NEW j \in 1..(m + n), c[i] = c[j] PROVE i = j
    BY <1>1 DEF IsInjective
  <2>1. \/ i \in 1..m /\ c[i] = a[i] /\ a[i] \in Range(a)
        \/ i - m \in 1..n /\ c[i] = b[i - m] /\ b[i - m] \in Range(b)
    BY <1>2
  <2>2. \/ j \in 1..m /\ c[j] = a[j] /\ a[j] \in Range(a)
        \/ j - m \in 1..n /\ c[j] = b[j - m] /\ b[j - m] \in Range(b)
    BY <1>2
  <2>3. \A k, l \in 1..m : a[k] = a[l] => k = l
    BY <1>1, <1>6 DEF IsInjective
  <2>4. \A k, l \in 1..n : b[k] = b[l] => k = l
    BY <1>1, <1>6 DEF IsInjective
  <2>5. \A x : ~(x \in Range(a) /\ x \in Range(b))
    BY <1>6
  <2>6. i - m = j - m => i = j
    BY <1>1
  <2>. QED
    BY <2>1, <2>2, <2>3, <2>4, <2>5, <2>6
<1>. QED
  BY <1>1, <1>3, <1>4, <1>5, <1>6

\* Members of a sequence of sequences put together.
LEMMA FlattenIs ==
    ASSUME NEW T, NEW q \in Seq(Seq(T)), NEW c, c = FlattenSeq(q)
    PROVE  /\ c \in Seq(T)
           /\ \A t : t \in Range(c) <=> \E i \in 1..Len(q) : t \in Range(q[i])
           /\ /\ \A i \in 1..Len(q) : IsInjective(q[i])
              /\ \A i, j \in 1..Len(q) : i # j => Range(q[i]) \cap Range(q[j]) = {}
              => IsInjective(c)
<1>. DEFINE n == Len(q)
            Apart == /\ \A i \in 1..n : IsInjective(q[i])
                     /\ \A i, j \in 1..n : i # j => Range(q[i]) \cap Range(q[j]) = {}
            Flat(h) == h = [i \in 1..n |-> IF i = 1 THEN q[i] ELSE h[i - 1] \o q[i]]
            step == [i \in 1..n |-> [s \in Seq(T) |-> s \o q[i]]]
<1>1. n \in Nat /\ \A i \in 1..n : q[i] \in Seq(T)
  OBVIOUS
<1>2. ASSUME n = 0
      PROVE  c = <<>> /\ c \in Seq(T) /\ Range(c) = {} /\ IsInjective(c)
  <2>1. c = q /\ q = <<>>
    BY <1>2 DEF FlattenSeq
  <2>. QED
    BY <2>1 DEF Range, IsInjective
<1>3. ASSUME n # 0 PROVE \E g : Flat(g) /\ c = g[n]
  <2>1. step \in [1..n -> [Seq(T) -> Seq(T)]]
    BY <1>1
  <2>2. <<>> \in Seq(T)
    OBVIOUS
  <2>3. PICK h \in [0..n -> Seq(T)] : IsLoop(h, n, <<>>, step)
    <3>. HIDE DEF step, n
    <3>. QED
      BY <1>1, <2>1, <2>2, LoopRuns
  <2>. DEFINE f == [i \in 1..n |-> h[i]]
  <2>4. \A i \in 1..n : h[i] = h[i - 1] \o q[i]
    <3>1. \A i \in 1..n : i \in 0..n /\ i # 0 /\ i - 1 \in 0..n
      BY <1>1
    <3>2. \A i \in 1..n : h[i - 1] \in Seq(T)
      <4>. HIDE DEF n
      <4>. QED
        BY <3>1
    <3>3. \A i \in 1..n : h[i] = step[i][h[i - 1]]
      <4>. HIDE DEF n, step
      <4>. QED
        BY <2>3, <3>1 DEF IsLoop
    <3>. HIDE DEF n
    <3>. QED
      BY <3>2, <3>3
  <2>5. h[0] = <<>>
    BY <1>1, <2>3 DEF IsLoop
  <2>6. \A i \in 1..n : f[i] = IF i = 1 THEN q[i] ELSE f[i - 1] \o q[i]
    <3>. SUFFICES ASSUME NEW i \in 1..n PROVE f[i] = IF i = 1 THEN q[i] ELSE f[i - 1] \o q[i]
      OBVIOUS
    <3>1. CASE i = 1
      <4>1. h[i] = <<>> \o q[i]
        <5>1. i - 1 = 0
          BY <3>1
        <5>. QED
          BY <2>4, <2>5, <5>1
      <4>. QED
        BY <1>1, <3>1, <4>1
    <3>2. CASE i # 1
      <4>1. i - 1 \in 1..n
        BY <1>1, <3>2
      <4>. QED
        BY <2>4, <3>2, <4>1
    <3>. QED
      BY <3>1, <3>2
  <2>7. Flat(f)
    BY <2>6
  <2>8. c = (CHOOSE g : Flat(g))[n]
    BY <1>3 DEF FlattenSeq
  <2>. HIDE DEF Flat
  <2>. QED
    BY <2>7, <2>8
<1>4. ASSUME n # 0
      PROVE  /\ c \in Seq(T)
             /\ \A t : t \in Range(c) <=> \E i \in 1..n : t \in Range(q[i])
             /\ Apart => IsInjective(c)
  <2>1. PICK g : Flat(g) /\ c = g[n]
    BY <1>3, <1>4
  <2>2. \A i \in 1..n : g[i] = IF i = 1 THEN q[i] ELSE g[i - 1] \o q[i]
    BY <2>1
  <2>. DEFINE Good(i) == /\ g[i] \in Seq(T)
                         /\ \A t : t \in Range(g[i]) <=> \E j \in 1..i : t \in Range(q[j])
                         /\ Apart => IsInjective(g[i])
              S == {i \in 0..n : i = 0 \/ Good(i)}
  <2>. HIDE DEF Flat
  <2>3. 0 \in S
    BY <1>1
  <2>4. ASSUME NEW i \in 1..n, i - 1 \in S PROVE i \in S
    <3>1. CASE i = 1
      <4>1. g[1] = q[1] /\ 1 \in 1..n
        BY <2>2, <3>1
      <4>2. \A t : t \in Range(g[1]) <=> \E j \in 1..1 : t \in Range(q[j])
        BY <4>1
      <4>. QED
        BY <1>1, <3>1, <4>1, <4>2
    <3>2. CASE i # 1
      <4>1. i - 1 \in 1..n /\ g[i] = g[i - 1] \o q[i] /\ Good(i - 1) /\ q[i] \in Seq(T)
        <5>1. i - 1 \in 1..n /\ i - 1 # 0
          BY <1>1, <3>2
        <5>2. Good(i - 1)
          <6>. HIDE DEF Good
          <6>. QED
            BY <2>4, <5>1
        <5>3. g[i] = g[i - 1] \o q[i]
          BY <2>2, <3>2
        <5>. QED
          BY <1>1, <5>1, <5>2, <5>3
      <4>2. PICK a, b : a = g[i - 1] /\ b = q[i]
        OBVIOUS
      <4>3. /\ a \in Seq(T) /\ b \in Seq(T) /\ g[i] = a \o b
            /\ \A t : t \in Range(a) <=> \E j \in 1..(i - 1) : t \in Range(q[j])
            /\ Apart => IsInjective(a)
        BY <4>1, <4>2
      <4>4. /\ g[i] \in Seq(T) /\ Range(g[i]) = Range(a) \cup Range(b)
            /\ IsInjective(a) /\ IsInjective(b) /\ Range(a) \cap Range(b) = {} => IsInjective(g[i])
        <5>1. IsConcat(g[i], a, b)
          BY <4>3 DEF IsConcat
        <5>. QED
          BY <4>3, <5>1, ConcatIs
      <4>5. \A j \in 1..i : j = i \/ j \in 1..(i - 1)
        OBVIOUS
      <4>6. \A j \in 1..(i - 1) : j \in 1..i /\ j # i /\ j \in 1..n
        BY <1>1
      <4>7. \A t : t \in Range(g[i]) <=> \E j \in 1..i : t \in Range(q[j])
        <5>. SUFFICES ASSUME NEW t
                      PROVE  t \in Range(g[i]) <=> \E j \in 1..i : t \in Range(q[j])
          OBVIOUS
        <5>1. t \in Range(g[i]) <=> t \in Range(a) \/ t \in Range(q[i])
          BY <4>2, <4>4
        <5>2. t \in Range(a) <=> \E j \in 1..(i - 1) : t \in Range(q[j])
          BY <4>3
        <5>3. i \in 1..i
          BY <1>1
        <5>. QED
          BY <4>5, <4>6, <5>1, <5>2, <5>3, Zenon
      <4>8. Apart => IsInjective(g[i])
        <5>. SUFFICES ASSUME Apart PROVE IsInjective(a) /\ IsInjective(b) /\ Range(a) \cap Range(b) = {}
          BY <4>4
        <5>1. IsInjective(a) /\ IsInjective(b)
          BY <4>2, <4>3
        <5>2. \A j \in 1..(i - 1) : Range(q[j]) \cap Range(b) = {}
          BY <4>2, <4>6
        <5>. QED
          BY <4>3, <5>1, <5>2
      <4>. HIDE DEF Apart
      <4>. QED
        BY <4>4, <4>7, <4>8
    <3>. QED
      BY <3>1, <3>2
  <2>5. n \in S
    <3>. HIDE DEF S
    <3>1. 0..n \subseteq S
      BY <1>1, <2>3, <2>4, CountingUp
    <3>. QED
      BY <1>1, <3>1
  <2>. QED
    BY <1>4, <2>1, <2>5
<1>5. n = 0 => ~\E i \in 1..n : TRUE
  OBVIOUS
<1>. QED
  BY <1>2, <1>4, <1>5
=============================================================================
