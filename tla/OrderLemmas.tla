----------------------------- MODULE OrderLemmas -----------------------------
(***************************************************************************)
(* Least and greatest elements, for the proofs about the scans of the code *)
(* that look for the first free slot or the highest level in use, and what *)
(* the operators of RunQueue return, for the proofs about the queues that  *)
(* are kept in order with them.                                            *)
(***************************************************************************)
EXTENDS Integers, RunQueue, SequenceTheorems, WellFoundedInduction, TLAPS

\* A non-empty set of natural numbers has a least element.
LEMMA LeastElement ==
  ASSUME NEW S \in SUBSET Nat, S # {}
  PROVE  \E s \in S : \A r \in S : s <= r
  <1>1. PICK s \in S : \A r \in S : ~ (<<r, s>> \in OpToRel(<, Nat))
    BY NatLessThanWellFounded, WFMin
  <1>2. \A r \in S : ~ (r < s)
    BY <1>1 DEF OpToRel
  <1>3. QED
    BY <1>2

\* A non-empty set of natural numbers with an upper bound has a greatest element.
LEMMA GreatestElement ==
  ASSUME NEW n \in Nat, NEW S \in SUBSET (0 .. n), S # {}
  PROVE  \E s \in S : \A r \in S : s >= r
  <1> DEFINE D == {d \in 0 .. n : n - d \in S}
  <1>1. D \in SUBSET Nat
    OBVIOUS
  <1>2. PICK x \in S : TRUE
    OBVIOUS
  <1>3. x \in 0 .. n /\ n - (n - x) = x /\ n - x \in 0 .. n
    BY <1>2
  <1>4. D # {}
    BY <1>2, <1>3
  <1> HIDE DEF D
  <1>5. PICK d \in D : \A e \in D : d <= e
    BY <1>1, <1>4, LeastElement
  <1>6. d \in 0 .. n /\ n - d \in S
    BY <1>5 DEF D
  <1>7. ASSUME NEW r \in S PROVE n - d >= r
    <2>1. r \in 0 .. n /\ n - r \in 0 .. n /\ n - (n - r) = r
      BY <1>7
    <2>2. n - r \in D
      BY <1>7, <2>1 DEF D
    <2>3. d <= n - r
      BY <1>5, <2>2
    <2>4. QED
      BY <1>6, <2>1, <2>3
  <1>8. QED
    BY <1>6, <1>7

\* A function with natural values has a greatest one on a bounded set: the
\* elements up to k have, for the least k for which it is in doubt.
LEMMA GreatestValue ==
  ASSUME NEW n \in Nat, NEW S \in SUBSET (1 .. n), S # {}, NEW f \in [S -> Nat]
  PROVE  \E s \in S : \A r \in S : f[r] <= f[s]
  <1> DEFINE P(k) == \E s \in S : \A r \in S : r <= k => f[r] <= f[s]
             D == {k \in 0 .. n : ~ P(k)}
  <1>1. ASSUME D # {} PROVE FALSE
    <2>1. D \in SUBSET Nat
      OBVIOUS
    <2>2. PICK k \in D : \A e \in D : k <= e
      BY <1>1, <2>1, LeastElement
    <2>3. k \in 0 .. n /\ ~ P(k)
      BY <2>2
    <2>4. k # 0
      <3>1. \A r \in S : ~ (r <= 0)
        OBVIOUS
      <3>2. P(0)
        BY <3>1
      <3>3. QED
        BY <2>3, <3>2
    <2>5. k - 1 \in 0 .. n /\ ~ (k <= k - 1)
      BY <2>3, <2>4
    <2>6. P(k - 1)
      BY <2>2, <2>5
    <2>7. PICK s \in S : \A r \in S : r <= k - 1 => f[r] <= f[s]
      BY <2>6
    <2> HIDE DEF D, P
    <2>8. \A r \in S : r <= k => r <= k - 1 \/ r = k
      BY <2>3
    <2>9. CASE k \in S /\ f[s] < f[k]
      <3>1. \A r \in S : r <= k => f[r] <= f[k]
        BY <2>7, <2>8, <2>9
      <3>2. QED
        BY <2>3, <2>9, <3>1 DEF P
    <2>10. CASE ~ (k \in S /\ f[s] < f[k])
      <3>1. \A r \in S : r <= k => f[r] <= f[s]
        BY <2>7, <2>8, <2>10
      <3>2. QED
        BY <2>3, <3>1 DEF P
    <2>11. QED
      BY <2>9, <2>10
  <1>2. P(n)
    <2>1. n \in 0 .. n
      OBVIOUS
    <2> HIDE DEF P
    <2>2. ~ P(n) => n \in D
      BY <2>1
    <2>3. QED
      BY <1>1, <2>2
  <1>3. PICK s \in S : \A r \in S : r <= n => f[r] <= f[s]
    BY <1>2
  <1>4. QED
    BY <1>3

-----------------------------------------------------------------------------
(***************************************************************************)
(* Queues without repetitions, in falling order of eff.                    *)
(***************************************************************************)
Distinct(q) == \A i, j \in 1 .. Len(q) : q[i] = q[j] => i = j

Falling(q, eff) == \A i, j \in 1 .. Len(q) : i < j => eff[q[i]] >= eff[q[j]]

\* Where the i-th task was, its successors close up.
LEMMA WithoutAt ==
  ASSUME NEW S, NEW q \in Seq(S), NEW i \in 1 .. Len(q)
  PROVE  /\ Without(q, i) \in Seq(S)
         /\ Len(Without(q, i)) = Len(q) - 1
         /\ \A k \in 1 .. Len(q) - 1 : Without(q, i)[k] = IF k < i THEN q[k] ELSE q[k + 1]
  <1> DEFINE a == SubSeq(q, 1, i - 1)
             b == SubSeq(q, i + 1, Len(q))
  <1>0. Len(q) \in Nat /\ \A k \in 1 .. Len(q) : q[k] \in S
    BY LenProperties, ElementOfSeq
  <1>1. /\ a \in Seq(S) /\ Len(a) = i - 1
        /\ \A k \in 1 .. i - 1 : a[k] = q[k]
    <2>1. \A k \in 1 .. i - 1 : q[k] \in S
      BY <1>0
    <2>2. QED
      BY <1>0, <2>1, SubSeqProperties
  <1>2. /\ b \in Seq(S) /\ Len(b) = Len(q) - i
        /\ \A k \in 1 .. Len(q) - i : b[k] = q[i + k]
    <2>1. \A k \in i + 1 .. Len(q) : q[k] \in S
      BY <1>0
    <2>2. QED
      BY <1>0, <2>1, SubSeqProperties
  <1>3. Without(q, i) = a \o b
    BY DEF Without
  <1> HIDE DEF a, b
  <1>4. /\ a \o b \in Seq(S) /\ Len(a \o b) = Len(a) + Len(b)
        /\ \A k \in 1 .. Len(a) + Len(b) : (a \o b)[k] = IF k <= Len(a) THEN a[k] ELSE b[k - Len(a)]
    BY <1>1, <1>2, ConcatProperties
  <1>5. QED
    BY <1>0, <1>1, <1>2, <1>3, <1>4

\* add_to_cpu_queue_locked: after all the tasks in front that are not outranked.
LEMMA InsertAt ==
  ASSUME NEW S, NEW q \in Seq(S), NEW t \in S, NEW eff \in [S -> Int]
  PROVE  \E at \in 1 .. Len(q) + 1 :
           /\ Insert(q, t, eff) \in Seq(S)
           /\ Len(Insert(q, t, eff)) = Len(q) + 1
           /\ \A k \in 1 .. Len(q) + 1 :
                Insert(q, t, eff)[k] = IF k < at THEN q[k] ELSE IF k = at THEN t ELSE q[k - 1]
           /\ \A k \in 1 .. at - 1 : eff[q[k]] >= eff[t]
           /\ at <= Len(q) => eff[q[at]] < eff[t]
  <1> DEFINE lower == {i \in 1 .. Len(q) : eff[q[i]] < eff[t]}
             at == IF lower = {} THEN Len(q) + 1
                   ELSE CHOOSE i \in lower : \A j \in lower : i <= j
             a == SubSeq(q, 1, at - 1)
             b == SubSeq(q, at, Len(q))
  <1>0. Len(q) \in Nat /\ \A k \in 1 .. Len(q) : q[k] \in S
    BY LenProperties, ElementOfSeq
  <1>1. Insert(q, t, eff) = a \o <<t>> \o b
    BY DEF Insert
  <1>2. /\ at \in 1 .. Len(q) + 1
        /\ \A j \in lower : at <= j
        /\ at <= Len(q) => at \in lower
    <2>1. CASE lower = {}
      BY SMTT(30), <1>0, <2>1
    <2>2. CASE lower # {}
      <3>1. lower \in SUBSET Nat
        BY <1>0
      <3>2. \E i \in lower : \A j \in lower : i <= j
        BY <2>2, <3>1, LeastElement
      <3>3. at \in lower /\ \A j \in lower : at <= j
        BY <2>2, <3>2
      <3>4. \A j \in lower : j \in 1 .. Len(q)
        OBVIOUS
      <3> HIDE DEF lower, at
      <3>5. at \in 1 .. Len(q)
        BY <3>3, <3>4
      <3>6. QED
        BY <1>0, <3>3, <3>5
    <2>3. QED
      BY <2>1, <2>2
  <1>3. at <= Len(q) => eff[q[at]] < eff[t]
    BY <1>2
  <1>4. \A k \in 1 .. at - 1 : eff[q[k]] >= eff[t]
    <2>1. SUFFICES ASSUME NEW k \in 1 .. at - 1 PROVE eff[q[k]] >= eff[t]
      OBVIOUS
    <2> HIDE DEF at
    <2>2. k \in 1 .. Len(q) /\ ~ (at <= k)
      BY <1>0, <1>2
    <2>3. k \notin lower
      BY <1>2, <2>2
    <2>4. eff[q[k]] \in Int /\ eff[t] \in Int
      BY <1>0, <2>2
    <2>5. QED
      BY <2>2, <2>3, <2>4
  <1> HIDE DEF at, lower
  <1>5. /\ a \in Seq(S) /\ Len(a) = at - 1
        /\ \A k \in 1 .. at - 1 : a[k] = q[k]
    <2>1. \A k \in 1 .. at - 1 : q[k] \in S
      BY <1>0, <1>2
    <2>2. QED
      BY <1>0, <1>2, <2>1, SubSeqProperties
  <1>6. /\ b \in Seq(S) /\ Len(b) = Len(q) + 1 - at
        /\ \A k \in 1 .. Len(q) + 1 - at : b[k] = q[at + k - 1]
    <2>1. \A k \in at .. Len(q) : q[k] \in S
      BY <1>0, <1>2
    <2>2. QED
      BY <1>0, <1>2, <2>1, SubSeqProperties
  <1> HIDE DEF a, b
  <1>7. /\ <<t>> \in Seq(S) /\ Len(<<t>>) = 1 /\ <<t>>[1] = t
    OBVIOUS
  <1> DEFINE c == a \o <<t>>
  <1>8. /\ c \in Seq(S) /\ Len(c) = at
        /\ \A k \in 1 .. at : c[k] = IF k < at THEN q[k] ELSE t
    <2>1. /\ c \in Seq(S) /\ Len(c) = Len(a) + Len(<<t>>)
          /\ \A k \in 1 .. Len(a) + Len(<<t>>) :
               c[k] = IF k <= Len(a) THEN a[k] ELSE <<t>>[k - Len(a)]
      BY <1>5, <1>7, ConcatProperties
    <2> HIDE DEF c
    <2>2. QED
      BY SMTT(30), <1>0, <1>2, <1>5, <1>7, <2>1
  <1> HIDE DEF c
  <1> DEFINE d == c \o b
  <1>9. /\ d \in Seq(S) /\ Len(d) = Len(c) + Len(b)
        /\ \A k \in 1 .. Len(c) + Len(b) : d[k] = IF k <= Len(c) THEN c[k] ELSE b[k - Len(c)]
    BY <1>6, <1>8, ConcatProperties
  <1>10. Insert(q, t, eff) = d
    BY <1>1 DEF c
  <1> HIDE DEF d
  <1>11. \A k \in 1 .. Len(q) + 1 :
           d[k] = IF k < at THEN q[k] ELSE IF k = at THEN t ELSE q[k - 1]
    <2>1. SUFFICES ASSUME NEW k \in 1 .. Len(q) + 1
                   PROVE  d[k] = IF k < at THEN q[k] ELSE IF k = at THEN t ELSE q[k - 1]
      OBVIOUS
    <2>2. CASE k <= at
      BY SMTT(30), <1>0, <1>2, <1>6, <1>8, <1>9, <2>2
    <2>3. CASE k > at
      <3>1. k - at \in 1 .. Len(q) + 1 - at /\ at + (k - at) - 1 = k - 1
        BY <1>0, <1>2, <2>3
      <3>2. k \in 1 .. Len(c) + Len(b) /\ ~ (k <= Len(c)) /\ Len(c) = at
        BY <1>0, <1>2, <1>6, <1>8, <2>3
      <3>3. d[k] = b[k - at]
        BY <1>9, <3>2
      <3>4. QED
        BY <1>2, <1>6, <2>3, <3>1, <3>3
    <2>4. k \in Int /\ at \in Int
      BY <1>0, <1>2
    <2>5. QED
      BY <2>2, <2>3, <2>4
  <1>12. Len(d) = Len(q) + 1
    BY <1>0, <1>2, <1>6, <1>8, <1>9
  <1>13. QED
    BY <1>2, <1>3, <1>4, <1>9, <1>10, <1>11, <1>12

\* As sets, with what keeps the queue free of repetitions and in order.
LEMMA WithoutFacts ==
  ASSUME NEW S, NEW q \in Seq(S), NEW i \in 1 .. Len(q), Distinct(q)
  PROVE  /\ Without(q, i) \in Seq(S)
         /\ InQueue(Without(q, i)) = InQueue(q) \ {q[i]}
         /\ Distinct(Without(q, i))
         /\ \A eff \in [S -> Int] :
              (\A j, k \in 1 .. Len(q) : j < k /\ j # i /\ k # i => eff[q[j]] >= eff[q[k]])
                => Falling(Without(q, i), eff)
  <1> DEFINE w == Without(q, i)
             at(k) == IF k < i THEN k ELSE k + 1
  <1>0. Len(q) \in Nat
    BY LenProperties
  <1>1. /\ w \in Seq(S) /\ Len(w) = Len(q) - 1
        /\ \A k \in 1 .. Len(q) - 1 : w[k] = IF k < i THEN q[k] ELSE q[k + 1]
    BY WithoutAt
  <1> HIDE DEF w
  <1>2. \A k \in 1 .. Len(w) : at(k) \in 1 .. Len(q) /\ at(k) # i /\ w[k] = q[at(k)]
    BY <1>0, <1>1
  <1>3. \A j \in 1 .. Len(q) : j # i => \E k \in 1 .. Len(w) : at(k) = j
    <2>1. SUFFICES ASSUME NEW j \in 1 .. Len(q), j # i
                   PROVE  \E k \in 1 .. Len(w) : at(k) = j
      OBVIOUS
    <2>2. CASE j < i
      BY <1>0, <1>1, <2>2
    <2>3. CASE j > i
      <3>1. j - 1 \in 1 .. Len(w) /\ at(j - 1) = j
        BY <1>0, <1>1, <2>3
      <3>2. QED
        BY <3>1
    <2>4. QED
      BY <1>0, <2>1, <2>2, <2>3
  <1>4. \A k, l \in 1 .. Len(w) : (at(k) = at(l) => k = l) /\ (k < l => at(k) < at(l))
    BY <1>0, <1>1
  <1> HIDE DEF at
  <1>5. InQueue(w) = InQueue(q) \ {q[i]}
    <2>1. \A k \in 1 .. Len(w) : w[k] \in InQueue(q) \ {q[i]}
      BY <1>2 DEF InQueue, Distinct
    <2>2. \A j \in 1 .. Len(q) : q[j] # q[i] => q[j] \in InQueue(w)
      BY <1>2, <1>3 DEF InQueue
    <2>3. QED
      BY <2>1, <2>2 DEF InQueue
  <1>6. Distinct(w)
    BY <1>2, <1>4 DEF Distinct
  <1>7. ASSUME NEW eff \in [S -> Int],
               \A j, k \in 1 .. Len(q) : j < k /\ j # i /\ k # i => eff[q[j]] >= eff[q[k]]
        PROVE  Falling(w, eff)
    BY <1>2, <1>4, <1>7 DEF Falling
  <1>8. QED
    BY <1>1, <1>5, <1>6, <1>7 DEF w

LEMMA InsertFacts ==
  ASSUME NEW S, NEW q \in Seq(S), NEW t \in S, NEW eff \in [S -> Int],
         Distinct(q), t \notin InQueue(q)
  PROVE  /\ Insert(q, t, eff) \in Seq(S)
         /\ InQueue(Insert(q, t, eff)) = InQueue(q) \cup {t}
         /\ Distinct(Insert(q, t, eff))
         /\ Falling(q, eff) => Falling(Insert(q, t, eff), eff)
  <1> DEFINE w == Insert(q, t, eff)
  <1>0. Len(q) \in Nat /\ \A k \in 1 .. Len(q) : q[k] \in S /\ q[k] # t
    BY LenProperties, ElementOfSeq DEF InQueue
  <1>1. PICK at \in 1 .. Len(q) + 1 :
           /\ w \in Seq(S) /\ Len(w) = Len(q) + 1
           /\ \A k \in 1 .. Len(q) + 1 :
                w[k] = IF k < at THEN q[k] ELSE IF k = at THEN t ELSE q[k - 1]
           /\ \A k \in 1 .. at - 1 : eff[q[k]] >= eff[t]
           /\ at <= Len(q) => eff[q[at]] < eff[t]
    BY InsertAt
  <1> DEFINE from(k) == IF k < at THEN k ELSE k - 1
  <1> HIDE DEF w
  <1>2. w[at] = t /\ at \in 1 .. Len(w) /\ at \in Nat /\ Len(w) = Len(q) + 1
    BY <1>0, <1>1
  <1>3. \A k \in 1 .. Len(w) : k # at => from(k) \in 1 .. Len(q) /\ w[k] = q[from(k)]
    <2>1. SUFFICES ASSUME NEW k \in 1 .. Len(w), k # at
                   PROVE  from(k) \in 1 .. Len(q) /\ w[k] = q[from(k)]
      OBVIOUS
    <2>2. k \in 1 .. Len(q) + 1 /\ from(k) \in 1 .. Len(q)
      BY <1>0, <1>2, <2>1
    <2>3. QED
      BY <1>1, <2>1, <2>2
  <1>4. \A j \in 1 .. Len(q) : \E k \in 1 .. Len(w) : k # at /\ from(k) = j
    <2>1. SUFFICES ASSUME NEW j \in 1 .. Len(q)
                   PROVE  \E k \in 1 .. Len(w) : k # at /\ from(k) = j
      OBVIOUS
    <2>2. CASE j < at
      BY <1>0, <1>1, <2>2
    <2>3. CASE j >= at
      <3>1. j + 1 \in 1 .. Len(w) /\ from(j + 1) = j /\ j + 1 # at
        BY <1>0, <1>2, <2>3
      <3>2. QED
        BY <3>1
    <2>4. QED
      BY <1>0, <1>1, <2>2, <2>3
  <1>5. \A k, l \in 1 .. Len(w) : k # at /\ l # at =>
          (from(k) = from(l) => k = l) /\ (k < l => from(k) < from(l))
    BY <1>0, <1>2
  <1>6. \A k \in 1 .. Len(w) : /\ k < at => from(k) \in 1 .. at - 1
                               /\ k > at => from(k) >= at /\ at <= Len(q)
    BY <1>0, <1>1
  <1> HIDE DEF from
  <1>7. InQueue(w) = InQueue(q) \cup {t}
    <2>1. \A k \in 1 .. Len(w) : w[k] \in InQueue(q) \cup {t}
      BY <1>2, <1>3 DEF InQueue
    <2>2. \A j \in 1 .. Len(q) : q[j] \in InQueue(w)
      BY <1>3, <1>4 DEF InQueue
    <2>3. t \in InQueue(w)
      BY <1>2 DEF InQueue
    <2>4. QED
      BY <2>1, <2>2, <2>3 DEF InQueue
  <1>8. Distinct(w)
    <2>1. SUFFICES ASSUME NEW k \in 1 .. Len(w), NEW l \in 1 .. Len(w), w[k] = w[l]
                   PROVE  k = l
      BY DEF Distinct
    <2>2. CASE k # at /\ l # at
      BY <1>3, <1>5, <2>1, <2>2 DEF Distinct
    <2>3. CASE k = at \/ l = at
      BY <1>0, <1>2, <1>3, <2>1, <2>3
    <2>4. QED
      BY <2>2, <2>3
  <1>9. ASSUME Falling(q, eff) PROVE Falling(w, eff)
    <2>1. SUFFICES ASSUME NEW k \in 1 .. Len(w), NEW l \in 1 .. Len(w), k < l
                   PROVE  eff[w[k]] >= eff[w[l]]
      BY DEF Falling
    <2>2. CASE k # at /\ l # at
      BY <1>3, <1>5, <1>9, <2>1, <2>2 DEF Falling
    <2>3. CASE l = at
      <3>1. k # at /\ w[k] = q[from(k)] /\ from(k) \in 1 .. at - 1
        <4>1. k < at
          BY <2>1, <2>3
        <4>2. k # at
          BY <1>2, <4>1
        <4>3. QED
          BY <1>3, <1>6, <4>1, <4>2
      <3>2. QED
        BY <1>1, <1>2, <2>3, <3>1
    <2>4. CASE k = at
      <3>1. from(l) \in 1 .. Len(q) /\ w[l] = q[from(l)] /\ from(l) >= at /\ at <= Len(q)
        BY <1>1, <1>3, <1>6, <2>1, <2>4
      <3>2. at \in 1 .. Len(q) /\ eff[q[at]] < eff[t]
        BY <1>0, <1>1, <3>1
      <3>3. from(l) = at \/ eff[q[at]] >= eff[q[from(l)]]
        BY SMTT(30), <1>0, <1>9, <3>1, <3>2 DEF Falling
      <3>4. eff[q[at]] \in Int /\ eff[q[from(l)]] \in Int /\ eff[t] \in Int
        BY <1>0, <3>1, <3>2
      <3>5. QED
        BY <1>2, <2>4, <3>1, <3>2, <3>3, <3>4
    <2>5. QED
      BY <2>2, <2>3, <2>4
  <1>10. QED
    BY <1>1, <1>7, <1>8, <1>9 DEF w

\* reposition_locked compares a task with its neighbours only.  That is enough
\* when all the others are in order.
LEMMA RepositionFacts ==
  ASSUME NEW S, NEW q \in Seq(S), NEW t \in InQueue(q), NEW eff \in [S -> Int], Distinct(q)
  PROVE  /\ Reposition(q, t, eff) \in Seq(S)
         /\ InQueue(Reposition(q, t, eff)) = InQueue(q)
         /\ Distinct(Reposition(q, t, eff))
         /\ (\A j, k \in 1 .. Len(q) : j < k /\ q[j] # t /\ q[k] # t => eff[q[j]] >= eff[q[k]])
              => Falling(Reposition(q, t, eff), eff)
  <1> DEFINE i == CHOOSE k \in 1 .. Len(q) : q[k] = t
             w == Without(q, i)
             InOrder == \A j, k \in 1 .. Len(q) :
                          j < k /\ q[j] # t /\ q[k] # t => eff[q[j]] >= eff[q[k]]
             Stays == /\ i = 1 \/ eff[q[i - 1]] >= eff[t]
                      /\ i = Len(q) \/ eff[q[i + 1]] <= eff[t]
  <1>0. Len(q) \in Nat /\ \A k \in 1 .. Len(q) : q[k] \in S
    BY LenProperties, ElementOfSeq
  <1>1. i \in 1 .. Len(q) /\ q[i] = t
    BY DEF InQueue
  <1>2. t \in S
    BY <1>0, <1>1
  <1>3. Reposition(q, t, eff) = IF Stays THEN q ELSE Insert(w, t, eff)
    BY DEF Reposition
  <1> HIDE DEF i
  <1>4. \A k \in 1 .. Len(q) : (q[k] = t <=> k = i) /\ eff[q[k]] \in Int
    BY <1>0, <1>1 DEF Distinct
  <1>5. CASE Stays
    <2>1. ASSUME InOrder PROVE Falling(q, eff)
      <3>1. SUFFICES ASSUME NEW j \in 1 .. Len(q), NEW k \in 1 .. Len(q), j < k
                     PROVE  eff[q[j]] >= eff[q[k]]
        BY DEF Falling
      <3>2. CASE j # i /\ k # i
        BY <1>4, <2>1, <3>1, <3>2
      <3>3. CASE k = i
        <4>1. i - 1 \in 1 .. Len(q) /\ i # 1 /\ (j = i - 1 \/ j < i - 1) /\ i - 1 # i
          BY <1>0, <1>1, <3>1, <3>3
        <4>2. eff[q[i - 1]] >= eff[t]
          BY <1>5, <4>1
        <4>3. j = i - 1 \/ eff[q[j]] >= eff[q[i - 1]]
          <5>1. j # i
            BY <1>0, <1>1, <3>1, <3>3
          <5>2. QED
            BY <1>4, <2>1, <4>1, <5>1
        <4>4. QED
          BY <1>1, <1>4, <3>3, <4>1, <4>2, <4>3
      <3>4. CASE j = i
        <4>1. i + 1 \in 1 .. Len(q) /\ i # Len(q) /\ (k = i + 1 \/ i + 1 < k) /\ i + 1 # i
          BY <1>0, <1>1, <3>1, <3>4
        <4>2. eff[q[i + 1]] <= eff[t]
          BY <1>5, <4>1
        <4>3. k = i + 1 \/ eff[q[i + 1]] >= eff[q[k]]
          <5>1. k # i
            BY <1>0, <1>1, <3>1, <3>4
          <5>2. QED
            BY <1>4, <2>1, <4>1, <5>1
        <4>4. QED
          BY <1>1, <1>4, <3>4, <4>1, <4>2, <4>3
      <3>5. QED
        BY <3>2, <3>3, <3>4
    <2>2. QED
      BY <1>3, <1>5, <2>1
  <1>6. CASE ~ Stays
    <2>1. /\ w \in Seq(S) /\ InQueue(w) = InQueue(q) \ {t} /\ Distinct(w)
          /\ InOrder => Falling(w, eff)
      <3>1. InOrder => \A j, k \in 1 .. Len(q) : j < k /\ j # i /\ k # i => eff[q[j]] >= eff[q[k]]
        BY <1>4
      <3>2. QED
        BY <1>1, <3>1, WithoutFacts
    <2> HIDE DEF w, InOrder
    <2>2. /\ Insert(w, t, eff) \in Seq(S)
          /\ InQueue(Insert(w, t, eff)) = InQueue(w) \cup {t}
          /\ Distinct(Insert(w, t, eff))
          /\ Falling(w, eff) => Falling(Insert(w, t, eff), eff)
      BY <1>2, <2>1, InsertFacts
    <2>3. InQueue(w) \cup {t} = InQueue(q)
      BY <2>1
    <2>4. Reposition(q, t, eff) = Insert(w, t, eff)
      BY <1>3, <1>6
    <2>5. InOrder => Falling(Insert(w, t, eff), eff)
      BY <2>1, <2>2
    <2>6. QED
      BY <2>2, <2>3, <2>4, <2>5 DEF InOrder
  <1>7. QED
    BY <1>5, <1>6

\* pick_next_task takes the head.
LEMMA TailFacts ==
  ASSUME NEW S, NEW q \in Seq(S), q # <<>>, Distinct(q)
  PROVE  /\ Head(q) \in S /\ Head(q) \in InQueue(q)
         /\ Tail(q) \in Seq(S) /\ Len(Tail(q)) = Len(q) - 1 /\ Len(q) \in Nat
         /\ \A i \in 1 .. Len(Tail(q)) : Tail(q)[i] = q[i + 1] /\ i + 1 \in 1 .. Len(q)
         /\ InQueue(Tail(q)) = InQueue(q) \ {Head(q)}
         /\ Distinct(Tail(q))
  <1> DEFINE w == Tail(q)
  <1>0. Len(q) \in Nat /\ Len(q) >= 1 /\ Head(q) = q[1]
    OBVIOUS
  <1>1. /\ Head(q) \in S /\ w \in Seq(S) /\ Len(w) = Len(q) - 1
        /\ \A i \in 1 .. Len(w) : w[i] = q[i + 1]
    BY HeadTailProperties
  <1> HIDE DEF w
  <1>2. \A i \in 1 .. Len(w) : i + 1 \in 1 .. Len(q) /\ i + 1 # 1
    BY <1>0, <1>1
  <1>3. \A j \in 1 .. Len(q) : j # 1 => j - 1 \in 1 .. Len(w) /\ (j - 1) + 1 = j
    BY <1>0, <1>1
  <1>4. 1 \in 1 .. Len(q)
    BY <1>0
  <1>5. InQueue(w) = InQueue(q) \ {q[1]}
    <2>1. \A i \in 1 .. Len(w) : w[i] \in InQueue(q) \ {q[1]}
      BY <1>1, <1>2, <1>4 DEF InQueue, Distinct
    <2>2. \A j \in 1 .. Len(q) : q[j] # q[1] => q[j] \in InQueue(w)
      <3>1. SUFFICES ASSUME NEW j \in 1 .. Len(q), q[j] # q[1] PROVE q[j] \in InQueue(w)
        OBVIOUS
      <3>2. j - 1 \in 1 .. Len(w) /\ w[j - 1] = q[j]
        BY <1>1, <1>3, <3>1
      <3>3. QED
        BY <3>2 DEF InQueue
    <2>3. QED
      BY <2>1, <2>2 DEF InQueue
  <1>6. Distinct(w)
    <2>1. SUFFICES ASSUME NEW k \in 1 .. Len(w), NEW l \in 1 .. Len(w), w[k] = w[l]
                   PROVE  k = l
      BY DEF Distinct
    <2>2. q[k + 1] = q[l + 1] /\ k + 1 \in 1 .. Len(q) /\ l + 1 \in 1 .. Len(q)
      BY <1>1, <1>2, <2>1
    <2>3. k + 1 = l + 1
      BY <2>2 DEF Distinct
    <2>4. QED
      BY <1>0, <1>1, <2>3
  <1>7. QED
    BY <1>0, <1>1, <1>2, <1>4, <1>5, <1>6 DEF w, InQueue

\* The last place of a first-in first-out queue.
LEMMA AppendFacts ==
  ASSUME NEW S, NEW q \in Seq(S), NEW t \in S, Distinct(q), t \notin InQueue(q)
  PROVE  /\ Append(q, t) \in Seq(S)
         /\ InQueue(Append(q, t)) = InQueue(q) \cup {t}
         /\ Distinct(Append(q, t))
  <1> DEFINE w == Append(q, t)
  <1>1. /\ w \in Seq(S) /\ Len(w) = Len(q) + 1 /\ Len(q) \in Nat
        /\ \A i \in 1 .. Len(q) : w[i] = q[i]
        /\ w[Len(q) + 1] = t
    BY AppendProperties, LenProperties
  <1> HIDE DEF w
  <1>2. \A i \in 1 .. Len(w) : i = Len(q) + 1 \/ i \in 1 .. Len(q)
    BY <1>1
  <1>3. \A i \in 1 .. Len(q) : i \in 1 .. Len(w) /\ Len(q) + 1 \in 1 .. Len(w) /\ q[i] # t
    BY <1>1 DEF InQueue
  <1>4. Len(q) + 1 \in 1 .. Len(w)
    BY <1>1
  <1>5. InQueue(w) = InQueue(q) \cup {t}
    <2>1. \A i \in 1 .. Len(w) : w[i] \in InQueue(q) \cup {t}
      BY <1>1, <1>2 DEF InQueue
    <2>2. \A i \in 1 .. Len(q) : q[i] \in InQueue(w)
      BY <1>1, <1>3 DEF InQueue
    <2>3. t \in InQueue(w)
      BY <1>1, <1>4 DEF InQueue
    <2>4. QED
      BY <2>1, <2>2, <2>3 DEF InQueue
  <1>6. Distinct(w)
    BY <1>1, <1>2, <1>3 DEF Distinct
  <1>7. QED
    BY <1>1, <1>5, <1>6 DEF w
=============================================================================
