--------------------------- MODULE LimiterProofs ---------------------------
(***************************************************************************)
(* Both limiters, for every number of callers, threads and API copies,     *)
(* every limit, every window of time and every number of faults.           *)
(***************************************************************************)
EXTENDS RateLimits, FiniteSetTheorems, SequenceTheorems, TLAPS

---------------------------------------------------------------------------
(* In memory.                                                              *)

\* A full bucket has room for one request.
LEMMA FullFits == Full \in Nat /\ Cost \in Nat /\ Cost >= 1 /\ Full >= Cost
<1> DEFINE n == Capacity - 1
<1>1. n \in Nat /\ Capacity = n + 1 /\ Cost \in Nat \ {0}
  BY LimiterAssumption
<1>2. n * Cost \in Nat
  BY <1>1
<1>3. Capacity * Cost = n * Cost + Cost
  BY <1>1
<1> HIDE DEF n
<1> QED BY <1>1, <1>2, <1>3 DEF Full

\* A list without one of its members, which it has once.
LEMMA RemoveOne ==
  ASSUME NEW S, NEW s \in Seq(S), NEW i \in 1..Len(s),
         \A j \in 1..Len(s) : s[j] = s[i] => j = i
  PROVE  LET r == RemoveFirst(s, s[i])
         IN  /\ r \in Seq(S) /\ Len(r) = Len(s) - 1
             /\ \A j \in 1..(Len(s) - 1) : r[j] = IF j < i THEN s[j] ELSE s[j + 1]
<1> DEFINE a == SubSeq(s, 1, i - 1)
           b == SubSeq(s, i + 1, Len(s))
<1>1. RemoveFirst(s, s[i]) = a \o b
  <2> DEFINE I == {j \in 1..Len(s) : s[j] = s[i]}
  <2>1. I = {i}
    OBVIOUS
  <2>2. Min({i}) = i
    BY DEF Min
  <2>3. SelectInSeq(s, LAMBDA v : v = s[i]) = IF I # {} THEN Min(I) ELSE 0
    BY DEF SelectInSeq
  <2>4. RemoveFirst(s, s[i]) = RemoveAt(s, SelectInSeq(s, LAMBDA v : v = s[i]))
    BY DEF RemoveFirst
  <2> QED BY <2>1, <2>2, <2>3, <2>4 DEF RemoveAt
<1>2. /\ a \in Seq(S) /\ Len(a) = i - 1 /\ \A j \in 1..(i - 1) : a[j] = s[j]
      /\ b \in Seq(S) /\ Len(b) = Len(s) - i /\ \A j \in 1..(Len(s) - i) : b[j] = s[i + j]
  <2>1. Len(s) \in Nat /\ i \in Nat /\ 1 <= i /\ i <= Len(s) /\ \A j \in 1..Len(s) : s[j] \in S
    OBVIOUS
  <2>2. \A j \in 1..(i - 1) : s[j] \in S
    BY <2>1
  <2>3. a \in Seq(S) /\ Len(a) = (IF 1 <= i - 1 THEN (i - 1) - 1 + 1 ELSE 0)
        /\ \A j \in 1..((i - 1) - 1 + 1) : a[j] = s[1 + j - 1]
    <3>1. 1 \in Int /\ i - 1 \in Int
      BY <2>1
    <3> QED BY <2>2, <3>1, SubSeqProperties
  <2>4. \A j \in (i + 1)..Len(s) : s[j] \in S
    BY <2>1
  <2>5. b \in Seq(S) /\ Len(b) = (IF i + 1 <= Len(s) THEN Len(s) - (i + 1) + 1 ELSE 0)
        /\ \A j \in 1..(Len(s) - (i + 1) + 1) : b[j] = s[(i + 1) + j - 1]
    <3>1. i + 1 \in Int /\ Len(s) \in Int
      BY <2>1
    <3> QED BY <2>4, <3>1, SubSeqProperties
  <2> HIDE DEF a, b
  <2>6. \A j \in 1..(i - 1) : a[j] = s[j]
    BY <2>1, <2>3
  <2>7. \A j \in 1..(Len(s) - i) : b[j] = s[i + j]
    <3> SUFFICES ASSUME NEW j \in 1..(Len(s) - i) PROVE b[j] = s[i + j]
      OBVIOUS
    <3>1. j \in 1..(Len(s) - (i + 1) + 1) /\ (i + 1) + j - 1 = i + j
      BY <2>1
    <3> QED BY <2>5, <3>1
  <2> QED BY <2>1, <2>3, <2>5, <2>6, <2>7
<1> DEFINE r == RemoveFirst(s, s[i])
<1>3. /\ r \in Seq(S) /\ Len(r) = Len(s) - 1
      /\ \A j \in 1..(Len(s) - 1) : r[j] = IF j <= i - 1 THEN a[j] ELSE b[j - (i - 1)]
  <2>1. Len(s) \in Nat /\ i \in 1..Len(s)
    OBVIOUS
  <2> HIDE DEF a, b
  <2>2. /\ a \o b \in Seq(S) /\ Len(a \o b) = Len(a) + Len(b)
        /\ \A j \in 1..(Len(a) + Len(b)) : (a \o b)[j] = IF j <= Len(a) THEN a[j] ELSE b[j - Len(a)]
    BY <1>2, ConcatProperties
  <2>3. r = a \o b
    BY <1>1
  <2>4. Len(a) = i - 1 /\ Len(a) + Len(b) = Len(s) - 1
    BY <1>2, <2>1
  <2> HIDE DEF r
  <2> QED BY <2>2, <2>3, <2>4
<1>4. ASSUME NEW j \in 1..(Len(s) - 1) PROVE r[j] = IF j < i THEN s[j] ELSE s[j + 1]
  <2>1. Len(s) \in Nat /\ i \in 1..Len(s)
    OBVIOUS
  <2> HIDE DEF a, b, r
  <2>2. CASE j < i
    <3>1. j <= i - 1 /\ j \in 1..(i - 1)
      BY <2>1, <2>2
    <3> QED BY <1>2, <1>3, <2>2, <3>1
  <2>3. CASE ~ (j < i)
    <3>1. ~ (j <= i - 1) /\ j - (i - 1) \in 1..(Len(s) - i) /\ i + (j - (i - 1)) = j + 1
      BY <2>1, <2>3
    <3> QED BY <1>2, <1>3, <2>3, <3>1
  <2> QED BY <2>2, <2>3
<1> QED BY <1>3, <1>4

\* A member, old or new, moved to the end of a list.
LEMMA MovedLast ==
  ASSUME NEW S, NEW s \in Seq(S), Distinct(s), NEW k \in S
  PROVE  LET r == Append(RemoveFirst(s, k), k)
         IN  /\ r \in Seq(S) /\ Distinct(r)
             /\ k \notin Range(s) => /\ Len(r) = Len(s) + 1 /\ r[Len(s) + 1] = k
                                    /\ \A j \in 1..Len(s) : r[j] = s[j]
             /\ \A i \in 1..Len(s) : s[i] = k =>
                  /\ Len(r) = Len(s) /\ r[Len(s)] = k
                  /\ \A j \in 1..(Len(s) - 1) : r[j] = IF j < i THEN s[j] ELSE s[j + 1]
<1> DEFINE q == RemoveFirst(s, k)
           r == Append(q, k)
<1>1. Len(s) \in Nat /\ Range(s) = {s[j] : j \in 1..Len(s)}
  BY DEF Range
<1>2. ASSUME k \notin Range(s)
      PROVE  /\ r \in Seq(S) /\ Distinct(r) /\ Len(r) = Len(s) + 1 /\ r[Len(s) + 1] = k
             /\ \A j \in 1..Len(s) : r[j] = s[j]
  <2>1. q = s
    BY <1>1, <1>2 DEF RemoveFirst
  <2>2. r \in Seq(S) /\ Len(r) = Len(s) + 1 /\ r[Len(s) + 1] = k
        /\ \A j \in 1..Len(s) : r[j] = s[j] /\ s[j] # k
    <3>1. \A j \in 1..Len(s) : s[j] # k
      BY <1>1, <1>2
    <3> HIDE DEF q
    <3> QED BY <2>1, <3>1
  <2>3. Distinct(r)
    <3> HIDE DEF r, q
    <3> QED BY <1>1, <2>2 DEF Distinct
  <2> QED BY <2>2, <2>3
<1>3. ASSUME NEW i \in 1..Len(s), s[i] = k
      PROVE  /\ r \in Seq(S) /\ Distinct(r) /\ Len(r) = Len(s) /\ r[Len(s)] = k
             /\ \A j \in 1..(Len(s) - 1) : r[j] = IF j < i THEN s[j] ELSE s[j + 1]
  <2>1. /\ q \in Seq(S) /\ Len(q) = Len(s) - 1
        /\ \A j \in 1..(Len(s) - 1) : q[j] = IF j < i THEN s[j] ELSE s[j + 1]
    BY <1>3, RemoveOne DEF Distinct
  <2>2. /\ r \in Seq(S) /\ Len(r) = Len(s) /\ r[Len(s)] = k
        /\ \A j \in 1..(Len(s) - 1) : r[j] = q[j]
    <3>1. Len(q) + 1 = Len(s) /\ 1..Len(q) = 1..(Len(s) - 1)
      BY <1>1, <2>1
    <3> HIDE DEF q
    <3> QED BY <2>1, <3>1, AppendProperties
  <2>3. \A j \in 1..(Len(s) - 1) : r[j] = IF j < i THEN s[j] ELSE s[j + 1]
    <3> HIDE DEF q, r
    <3> QED BY <2>1, <2>2
  <2>4. Distinct(r)
    <3> DEFINE Old(j) == IF j = Len(s) THEN i ELSE IF j < i THEN j ELSE j + 1
    <3>1. \A j \in 1..Len(s) : Old(j) \in 1..Len(s)
      BY <1>1, <1>3
    <3>2. \A j, l \in 1..Len(s) : Old(j) = Old(l) => j = l
      BY <1>1, <1>3
    <3>3. ASSUME NEW j \in 1..Len(s) PROVE r[j] = s[Old(j)]
      <4> HIDE DEF q, r
      <4>1. CASE j = Len(s)
        BY <1>3, <2>2, <4>1
      <4>2. CASE j # Len(s)
        <5>1. j \in 1..(Len(s) - 1)
          BY <1>1, <3>3, <4>2
        <5> QED BY <2>3, <4>2, <5>1
      <4> QED BY <4>1, <4>2
    <3> HIDE DEF q, r, Old
    <3>4. ASSUME NEW j \in 1..Len(s), NEW l \in 1..Len(s), r[j] = r[l] PROVE j = l
      <4>1. s[Old(j)] = s[Old(l)] /\ Old(j) \in 1..Len(s) /\ Old(l) \in 1..Len(s)
        BY <3>1, <3>3, <3>4
      <4>2. Old(j) = Old(l)
        BY <4>1 DEF Distinct
      <4> QED BY <3>2, <4>2
    <3> QED BY <2>2, <3>4 DEF Distinct
  <2> QED BY <2>2, <2>3, <2>4
<1>4. k \in Range(s) <=> \E i \in 1..Len(s) : s[i] = k
  BY <1>1
<1> HIDE DEF r
<1>5. r \in Seq(S) /\ Distinct(r)
  BY <1>2, <1>3, <1>4
<1> QED BY <1>2, <1>3, <1>5 DEF r

\* The end of a list, element by element.
LEMMA EndOfList ==
  ASSUME NEW S, NEW q \in Seq(S), NEW p \in Seq(S), NEW n \in 0..Len(q)
  PROVE  p = SubSeq(q, Len(q) - n + 1, Len(q))
           <=> Len(p) = n /\ \A j \in 1..n : p[j] = q[(Len(q) - n) + j]
<1> DEFINE m == Len(q) - n
           e == SubSeq(q, m + 1, Len(q))
<1>1. Len(q) \in Nat /\ m \in Nat /\ m + n = Len(q) /\ n \in Nat
  OBVIOUS
<1>2. \A i \in (m + 1)..Len(q) : q[i] \in S
  BY <1>1
<1>3. /\ e \in Seq(S)
      /\ Len(e) = IF m + 1 <= Len(q) THEN Len(q) - (m + 1) + 1 ELSE 0
      /\ \A i \in 1..(Len(q) - (m + 1) + 1) : e[i] = q[(m + 1) + i - 1]
  <2>1. m + 1 \in Int /\ Len(q) \in Int
    BY <1>1
  <2> HIDE DEF m
  <2> QED BY <1>2, <2>1, SubSeqProperties
<1> HIDE DEF m, e
<1>4. e \in Seq(S) /\ Len(e) = n
  BY <1>1, <1>3
<1>5. ASSUME NEW j \in 1..n PROVE e[j] = q[m + j]
  <2>1. j \in 1..(Len(q) - (m + 1) + 1) /\ (m + 1) + j - 1 = m + j
    BY <1>1
  <2> QED BY <1>3, <2>1
<1>6. (Len(p) = n /\ \A j \in 1..n : p[j] = q[m + j]) => p = e
  BY <1>4, <1>5, SeqEqual
<1> QED BY <1>4, <1>5, <1>6 DEF m, e

\* How many keys the dict has.
Kept == IF Len(seen) <= MaxKeys THEN Len(seen) ELSE MaxKeys

LEMMA DictIsEnd ==
  ASSUME order \in Seq(Callers), seen \in Seq(Callers)
  PROVE  /\ Kept \in 0..Len(seen)
         /\ RecentCallersKept <=>
              Len(order) = Kept /\ \A j \in 1..Kept : order[j] = seen[(Len(seen) - Kept) + j]
<1>1. Kept \in 0..Len(seen)
  BY LimiterAssumption DEF Kept
<1>2. RecentCallersKept <=> order = SubSeq(seen, Len(seen) - Kept + 1, Len(seen))
  BY DEF RecentCallersKept, Kept
<1> QED BY <1>1, <1>2, EndOfList

\* Who is served goes to the end of both lists, and who is forgotten for it is
\* the first of the dict.
LEMMA OrderHolds ==
  ASSUME IInv, NEW t \in Threads, Acquire(t)
  PROVE  OrderInv'
<1>1. PICK k \in Callers : k = thread[t].key
  BY DEF IInv, BudgetTypeOK
<1> DEFINE n == Kept
           m == Len(seen)
           d == m - n
<1>2. /\ order \in Seq(Callers) /\ seen \in Seq(Callers) /\ Distinct(seen)
      /\ n \in 0..m /\ m \in Nat /\ Len(order) = n
      /\ \A j \in 1..n : order[j] = seen[d + j]
  BY DictIsEnd DEF IInv, OrderInv
<1>3. d \in Nat /\ d + n = m /\ n \in Nat
  BY <1>2
<1>4. order' = Append(Others(k), k) /\ seen' = Append(RemoveFirst(seen, k), k)
  BY <1>1 DEF Acquire
<1>5. /\ seen' \in Seq(Callers) /\ Distinct(seen')
      /\ k \notin Range(seen) => /\ Len(seen') = m + 1 /\ seen'[m + 1] = k
                                /\ \A j \in 1..m : seen'[j] = seen[j]
      /\ \A i \in 1..m : seen[i] = k =>
           /\ Len(seen') = m /\ seen'[m] = k
           /\ \A j \in 1..(m - 1) : seen'[j] = IF j < i THEN seen[j] ELSE seen[j + 1]
  <2> DEFINE q == seen
             r == Append(RemoveFirst(q, k), k)
  <2>1. r = seen'
    BY <1>4
  <2> HIDE DEF q, r
  <2> QED BY <1>2, <1>4, MovedLast
<1>6. MaxKeys \in Nat \ {0} /\ n = IF m <= MaxKeys THEN m ELSE MaxKeys
  BY LimiterAssumption DEF Kept
<1>7. Known(k) <=> \E j \in 1..n : order[j] = k
  BY <1>2 DEF Known, Range
<1> DEFINE Ends(o, s, c) == /\ o \in Seq(Callers) /\ Len(o) = c
                            /\ \A j \in 1..c : o[j] = s[(Len(s) - c) + j]
<1>8. ASSUME NEW i \in 1..m, seen[i] = k, i > d PROVE Ends(order', seen', n)
  <2>1. PICK p \in 1..n : p = i - d /\ order[p] = k
    <3>1. i - d \in 1..n /\ d + (i - d) = i
      <4>1. i \in Int /\ i <= m
        BY <1>2, <1>8
      <4> HIDE DEF d, m, n
      <4> QED BY <1>3, <1>8, <4>1
    <3> DEFINE p == i - d
    <3>2. p \in 1..n /\ order[p] = k
      <4> HIDE DEF d
      <4> QED BY <1>2, <1>8, <3>1
    <3> QED BY <3>2
  <2>2. Known(k) /\ order' = Append(RemoveFirst(order, k), k)
    BY <1>4, <1>7, <2>1 DEF Others
  <2>3. Distinct(order)
    <3>1. ASSUME NEW j \in 1..n, NEW l \in 1..n, order[j] = order[l] PROVE j = l
      <4>1. seen[d + j] = seen[d + l] /\ d + j \in 1..m /\ d + l \in 1..m
        BY <1>2, <1>3, <3>1
      <4>2. d + j = d + l
        BY <1>2, <4>1 DEF Distinct
      <4> QED BY <1>3, <4>2
    <3> QED BY <1>2, <3>1 DEF Distinct
  <2>4. /\ order' \in Seq(Callers) /\ Len(order') = n /\ order'[n] = k
        /\ \A j \in 1..(n - 1) : order'[j] = IF j < p THEN order[j] ELSE order[j + 1]
    <3> DEFINE q == order
               r == Append(RemoveFirst(q, k), k)
    <3>1. r = order'
      BY <2>2
    <3> HIDE DEF q, r
    <3>2. r \in Seq(Callers) /\ Len(r) = Len(q) /\ r[Len(q)] = k
          /\ \A j \in 1..(Len(q) - 1) : r[j] = IF j < p THEN q[j] ELSE q[j + 1]
      <4>1. q \in Seq(Callers) /\ Distinct(q) /\ p \in 1..Len(q) /\ q[p] = k
        BY <1>2, <2>1, <2>3 DEF q
      <4> QED BY <4>1, MovedLast DEF r
    <3> QED BY <1>2, <3>1, <3>2 DEF q
  <2>5. /\ Len(seen') = m /\ seen'[m] = k
        /\ \A j \in 1..(m - 1) : seen'[j] = IF j < i THEN seen[j] ELSE seen[j + 1]
    BY <1>5, <1>8
  <2>6. ASSUME NEW j \in 1..n PROVE order'[j] = seen'[d + j]
    <3>1. CASE j = n
      BY <1>3, <2>4, <2>5, <3>1
    <3>2. CASE j # n
      <4>1. /\ j \in 1..(n - 1) /\ j + 1 \in 1..n /\ d + j \in 1..(m - 1)
            /\ d + (j + 1) = (d + j) + 1 /\ (j < p <=> d + j < i)
        BY <1>3, <2>1, <2>6, <3>2
      <4>2. order[j] = seen[d + j] /\ order[j + 1] = seen[(d + j) + 1]
        BY <1>2, <2>6, <4>1
      <4> QED BY <2>4, <2>5, <4>1, <4>2
    <3> QED BY <3>1, <3>2
  <2> QED BY <2>4, <2>5, <2>6
<1>9. ASSUME n = MaxKeys, ~ Known(k)
      PROVE  /\ order' \in Seq(Callers) /\ Len(order') = n /\ order'[n] = k
             /\ \A j \in 1..(n - 1) : order'[j] = seen[d + (j + 1)]
  <2> DEFINE q == Tail(order)
  <2>1. order' = Append(q, k) /\ order # <<>>
    BY <1>2, <1>4, <1>6, <1>9 DEF Others
  <2>2. q \in Seq(Callers) /\ Len(q) = n - 1 /\ \A j \in 1..(n - 1) : q[j] = order[j + 1]
    BY <1>2, <2>1, HeadTailProperties
  <2> HIDE DEF q
  <2>3. Len(q) + 1 = n /\ 1..Len(q) = 1..(n - 1)
    BY <1>3, <2>2
  <2>4. /\ order' \in Seq(Callers) /\ Len(order') = n /\ order'[n] = k
        /\ \A j \in 1..(n - 1) : order'[j] = q[j]
    BY <2>1, <2>2, <2>3, AppendProperties
  <2>5. \A j \in 1..(n - 1) : j + 1 \in 1..n
    BY <1>3
  <2> QED BY <1>2, <2>2, <2>4, <2>5
<1>10. ASSUME NEW i \in 1..m, seen[i] = k, ~ (i > d) PROVE Ends(order', seen', n)
  <2>1. n = MaxKeys
    <3> HIDE DEF d, n, m
    <3> QED BY <1>2, <1>3, <1>6, <1>10
  <2>2. ~ Known(k)
    <3>1. ASSUME NEW j \in 1..n, order[j] = k PROVE FALSE
      <4>1. d + j \in 1..m /\ d + j # i /\ seen[d + j] = k
        BY <1>2, <1>3, <1>10, <3>1
      <4> QED BY <1>2, <1>10, <4>1 DEF Distinct
    <3> QED BY <1>7, <3>1
  <2>3. /\ Len(seen') = m /\ seen'[m] = k
        /\ \A j \in 1..(m - 1) : seen'[j] = IF j < i THEN seen[j] ELSE seen[j + 1]
    BY <1>5, <1>10
  <2>4. ASSUME NEW j \in 1..n PROVE order'[j] = seen'[d + j]
    <3>1. CASE j = n
      BY <1>3, <1>9, <2>1, <2>2, <2>3, <3>1
    <3>2. CASE j # n
      <4>1. /\ j \in 1..(n - 1) /\ d + j \in 1..(m - 1) /\ ~ (d + j < i)
            /\ d + (j + 1) = (d + j) + 1
        BY <1>3, <1>10, <2>4, <3>2
      <4> QED BY <1>9, <2>1, <2>2, <2>3, <4>1
    <3> QED BY <3>1, <3>2
  <2> QED BY <1>9, <2>1, <2>2, <2>3, <2>4
<1>11. ASSUME k \notin Range(seen)
       PROVE  Ends(order', seen', IF m + 1 <= MaxKeys THEN m + 1 ELSE MaxKeys)
  <2>1. \A i \in 1..m : seen[i] # k
    BY <1>2, <1>11 DEF Range
  <2>2. ~ Known(k)
    <3>1. \A j \in 1..n : d + j \in 1..m
      BY <1>3
    <3> QED BY <1>2, <1>7, <2>1, <3>1
  <2>3. Len(seen') = m + 1 /\ seen'[m + 1] = k /\ \A j \in 1..m : seen'[j] = seen[j]
    BY <1>5, <1>11
  <2>4. CASE m < MaxKeys
    <3>1. n = m /\ d = 0 /\ m + 1 <= MaxKeys
      <4> HIDE DEF d, n, m
      <4> QED BY <1>2, <1>3, <1>6, <2>4
    <3>2. order' = Append(order, k)
      BY <1>2, <1>4, <1>6, <2>2, <2>4, <3>1 DEF Others
    <3>3. order' \in Seq(Callers) /\ Len(order') = m + 1 /\ order'[m + 1] = k
          /\ \A j \in 1..m : order'[j] = order[j]
      BY <1>2, <3>1, <3>2, AppendProperties
    <3>4. ASSUME NEW j \in 1..(m + 1) PROVE order'[j] = seen'[((m + 1) - (m + 1)) + j]
      <4>1. ((m + 1) - (m + 1)) + j = j /\ (j = m + 1 \/ (j \in 1..m /\ d + j = j))
        BY <1>2, <3>1, <3>4
      <4> QED BY <1>2, <2>3, <3>1, <3>3, <4>1
    <3> QED BY <2>3, <3>1, <3>3, <3>4
  <2>5. CASE ~ (m < MaxKeys)
    <3>1. n = MaxKeys /\ ~ (m + 1 <= MaxKeys) /\ (m + 1) - n = d + 1
      <4> HIDE DEF d, n, m
      <4> QED BY <1>2, <1>3, <1>6, <2>5
    <3>2. ASSUME NEW j \in 1..n PROVE order'[j] = seen'[(d + 1) + j]
      <4>1. CASE j = n
        BY <1>3, <1>9, <2>2, <2>3, <3>1, <4>1
      <4>2. CASE j # n
        <5>1. j \in 1..(n - 1) /\ (d + 1) + j \in 1..m /\ d + (j + 1) = (d + 1) + j
          BY <1>3, <3>2, <4>2
        <5> QED BY <1>9, <2>2, <2>3, <3>1, <5>1
      <4> QED BY <4>1, <4>2
    <3> QED BY <1>9, <2>2, <2>3, <3>1, <3>2
  <2> QED BY <2>4, <2>5
<1>12. k \in Range(seen) <=> \E i \in 1..m : seen[i] = k
  BY <1>2 DEF Range
<1>13. \A i \in 1..m : seen[i] = k => Len(seen') = m
  BY <1>5
<1>14. k \notin Range(seen) => Len(seen') = m + 1
  BY <1>5
<1>15. Ends(order', seen', Kept')
  <2>1. Kept' = IF Len(seen') <= MaxKeys THEN Len(seen') ELSE MaxKeys
    BY DEF Kept
  <2>2. CASE k \in Range(seen)
    <3>1. Kept' = n
      BY <1>6, <1>12, <1>13, <2>1, <2>2
    <3> HIDE DEF Ends
    <3> QED BY <1>8, <1>10, <1>12, <2>2, <3>1
  <2>3. CASE k \notin Range(seen)
    <3>1. Kept' = IF m + 1 <= MaxKeys THEN m + 1 ELSE MaxKeys
      BY <1>14, <2>1, <2>3
    <3> HIDE DEF Ends
    <3> QED BY <1>11, <2>3, <3>1
  <2> QED BY <2>2, <2>3
<1>16. Kept' \in 0..Len(seen')
  BY <1>5, LimiterAssumption DEF Kept
<1>17. RecentCallersKept' <=> order' = SubSeq(seen', Len(seen') - Kept' + 1, Len(seen'))
  BY DEF RecentCallersKept, Kept
<1>18. RecentCallersKept'
  BY <1>5, <1>15, <1>16, <1>17, EndOfList
<1> QED BY <1>5, <1>15, <1>18 DEF OrderInv

\* The first bucket of every caller: none.
LEMMA InitHolds == Init => IInv
<1> SUFFICES ASSUME Init PROVE IInv
  OBVIOUS
<1>1. Range(order) = {}
  BY DEF Init, Range
<1>2. OrderInv
  <2>1. order = <<>> /\ seen = <<>>
    BY DEF Init
  <2>2. Distinct(seen) /\ Kept = 0 /\ Len(seen) = 0 /\ Len(order) = 0
    BY <2>1, LimiterAssumption DEF Distinct, Kept
  <2> QED BY <2>1, <2>2, DictIsEnd DEF OrderInv
<1> QED BY <1>1, <1>2 DEF Init, IInv, BudgetTypeOK, SpendingInv, PromiseInv, Known, Balance

\* What Acquire leaves of the ghosts of any caller.
LEMMA CountTyped ==
  ASSUME IInv, NEW k \in Callers, NEW units \in Nat, Count(k, units)
  PROVE  /\ spent' \in [Callers -> Nat]
         /\ \A j \in Callers : spent'[j] # 0 => Known(j)'
         /\ \A j \in Callers \ {k} : spent'[j] \in {0, spent[j]}
         /\ spent'[k] \in {0, spent[k] + units}
BY DEF Count, Known, IInv, BudgetTypeOK

\* The bucket of the caller that is served: the refill adds nothing to the
\* balance, and a new bucket is one that nothing was spent from.
LEMMA HaveBounds ==
  ASSUME IInv, NEW k \in Callers, NEW now \in Nat
  PROVE  /\ Have(k, now) \in Int
         /\ Have(k, now) <= Full
         /\ Known(k) => Have(k, now) - now <= Balance(k)
         /\ Have(k, now) < Cost => Have(k, now) - now = Balance(k)
<1>1. tokens[k] \in Int /\ updatedAt[k] \in Nat
  BY DEF IInv, BudgetTypeOK
<1> QED BY <1>1, FullFits DEF Have, Refilled, Balance

\* One request under the lock keeps the invariant.
LEMMA AcquireHolds ==
  ASSUME IInv, NEW t \in Threads, Acquire(t)
  PROVE  IInv'
<1>1. PICK k \in Callers, now \in Nat, have \in Int :
        k = thread[t].key /\ now = thread[t].now /\ have = Have(k, now)
  BY HaveBounds DEF IInv, BudgetTypeOK
<1>2. /\ have <= Full
      /\ Known(k) => have - now <= Balance(k)
      /\ have < Cost => have - now = Balance(k)
  BY <1>1, HaveBounds
<1>3. /\ updatedAt' = [updatedAt EXCEPT ![k] = now]
      /\ thread' = [thread EXCEPT ![t].at = "idle"] /\ UNCHANGED clock
      /\ \/ have >= Cost /\ Admit(k, now, have)
         \/ have < Cost /\ Refuse(k, now, have)
  BY <1>1 DEF Acquire
<1>4. /\ tokens \in [Callers -> Int] /\ updatedAt \in [Callers -> Nat] /\ clock \in Nat
      /\ spent \in [Callers -> Nat] /\ promised \in [Callers -> Nat]
      /\ thread \in [Threads -> [at : {"idle", "read"}, key : Callers, now : Nat]]
  BY DEF IInv, BudgetTypeOK
<1>5. SpendingInv /\ PromiseInv
  BY DEF IInv
<1> DEFINE Served(left, units, promise) ==
             /\ tokens' = [tokens EXCEPT ![k] = left]
             /\ Count(k, units)
             /\ promised' = [promised EXCEPT ![k] = promise]
             /\ left <= have
             /\ units > 0 => units = Cost /\ left = have - Cost /\ left >= 0 /\ InWindow(now)
             /\ promise # 0 => left - now + promise >= Cost
<1>6. PICK left \in Int, units \in Nat, promise \in Nat : Served(left, units, promise)
  <2>1. CASE have >= Cost /\ Admit(k, now, have)
    <3>1. have - Cost \in Int /\ have - Cost <= have /\ have - Cost >= 0
      BY <2>1, FullFits
    <3>2. CASE InWindow(now)
      <4>1. Served(have - Cost, Cost, 0)
        BY <2>1, <3>1, <3>2 DEF Admit
      <4> HIDE DEF Served
      <4> QED BY <3>1, <4>1, FullFits
    <3>3. CASE ~ InWindow(now)
      <4>1. Served(have - Cost, 0, 0)
        BY <2>1, <3>1, <3>3 DEF Admit
      <4> HIDE DEF Served
      <4> QED BY <3>1, <4>1
    <3> QED BY <3>2, <3>3
  <2>2. CASE have < Cost /\ Refuse(k, now, have)
    <3>1. now + (Cost - have) \in Nat /\ have - now + (now + (Cost - have)) >= Cost
      BY <2>2, FullFits
    <3>2. Served(have, 0, now + (Cost - have))
      BY <2>2, <3>1 DEF Refuse, Left, Wait
    <3> HIDE DEF Served
    <3> QED BY <3>1, <3>2
  <2> QED BY <2>1, <2>2, <1>3
<1>7. /\ spent' \in [Callers -> Nat]
      /\ \A j \in Callers : spent'[j] # 0 => Known(j)'
      /\ \A j \in Callers \ {k} : spent'[j] \in {0, spent[j]}
      /\ spent'[k] \in {0, spent[k] + units}
  BY <1>1, <1>6, CountTyped
<1>8. /\ \A j \in Callers \ {k} : Balance(j)' = Balance(j) /\ promised'[j] = promised[j]
      /\ Balance(k)' = left - now
      /\ promised'[k] = promise
  BY <1>1, <1>3, <1>4, <1>6 DEF Balance
<1>9. BudgetTypeOK'
  <2>1. clock' \in Nat /\ thread' \in [Threads -> [at : {"idle", "read"}, key : Callers, now : Nat]]
    BY <1>3, <1>4
  <2>2. tokens' \in [Callers -> Int] /\ promised' \in [Callers -> Nat]
    BY <1>4, <1>6
  <2>3. updatedAt' \in [Callers -> Nat]
    BY <1>1, <1>3, <1>4
  <2> QED BY <1>7, <2>1, <2>2, <2>3 DEF BudgetTypeOK
<1>10. SpendingInv'
  <2>1. From \in Nat /\ To \in Nat /\ From <= To /\ Full \in Nat
    BY FullFits, LimiterAssumption
  <2>2. ASSUME NEW j \in Callers \ {k}, spent'[j] > 0
        PROVE  Balance(j)' + spent'[j] <= Full - From /\ spent'[j] <= Full + (To - From)
    BY <2>2, <1>5, <1>7, <1>8 DEF SpendingInv
  <2>3. ASSUME spent'[k] > 0
        PROVE  Balance(k)' + spent'[k] <= Full - From /\ spent'[k] <= Full + (To - From)
    <3>1. spent'[k] = spent[k] + units /\ spent[k] \in Nat
      BY <2>3, <1>1, <1>4, <1>7
    <3>2. CASE units = 0
      <4>1. spent[k] > 0 /\ Known(k)
        BY <2>3, <3>1, <3>2, <1>1, <1>5 DEF SpendingInv
      <4>2. Balance(k) + spent[k] <= Full - From /\ spent[k] <= Full + (To - From)
        BY <4>1, <1>1, <1>5 DEF SpendingInv
      <4>3. Balance(k) \in Int
        BY <1>1, <1>4 DEF Balance
      <4> QED BY <4>1, <4>2, <4>3, <3>1, <3>2, <2>1, <1>1, <1>2, <1>6, <1>8
    <3>3. CASE units > 0
      <4>1. units = Cost /\ left = have - Cost /\ left >= 0 /\ now >= From /\ now <= To
        BY <3>3, <1>6, <2>1, <1>1 DEF InWindow
      <4>2. have - now + spent[k] <= Full - From
        <5>1. CASE spent[k] = 0
          BY <5>1, <4>1, <2>1, <1>1, <1>2
        <5>2. CASE spent[k] > 0
          <6>1. Known(k) /\ Balance(k) + spent[k] <= Full - From
            BY <5>2, <1>1, <1>5, <1>4 DEF SpendingInv
          <6>2. Balance(k) \in Int
            BY <1>1, <1>4 DEF Balance
          <6> QED BY <6>1, <6>2, <1>1, <1>2, <1>4, <2>1, <3>1
        <5> QED BY <5>1, <5>2, <3>1
      <4> QED BY <4>1, <4>2, <3>1, <2>1, <1>1, <1>2, <1>8, FullFits
    <3> QED BY <3>2, <3>3
  <2>4. \A j \in Callers : ~ Known(j)' => spent'[j] = 0
    BY <1>7
  <2> HIDE DEF Served
  <2> QED BY <2>2, <2>3, <2>4 DEF SpendingInv
<1>11. PromiseInv'
  BY <1>5, <1>6, <1>8 DEF PromiseInv
<1> QED BY <1>9, <1>10, <1>11, OrderHolds DEF IInv

\* Reading the clock and its ticking concern no bucket.
LEMMA NextHolds == IInv /\ [Next]_vars => IInv'
<1> SUFFICES ASSUME IInv, [Next]_vars PROVE IInv'
  OBVIOUS
<1>1. ASSUME UNCHANGED <<buckets, ghosts>>, BudgetTypeOK' PROVE IInv'
  BY <1>1 DEF IInv, SpendingInv, PromiseInv, OrderInv, RecentCallersKept, Balance, Known,
             buckets, ghosts
<1>2. CASE UNCHANGED vars
  <2>1. BudgetTypeOK'
    BY <1>2 DEF IInv, BudgetTypeOK, vars, buckets, ghosts
  <2> QED BY <2>1, <1>1, <1>2 DEF vars
<1>3. CASE Tick
  <2>1. BudgetTypeOK'
    BY <1>3, LimiterAssumption DEF Tick, IInv, BudgetTypeOK, buckets, ghosts
  <2> QED BY <2>1, <1>1, <1>3 DEF Tick
<1>4. ASSUME NEW t \in Threads, NEW k \in Callers, ReadClock(t, k) PROVE IInv'
  <2>1. BudgetTypeOK'
    BY <1>4 DEF ReadClock, IInv, BudgetTypeOK, buckets, ghosts
  <2> QED BY <2>1, <1>1, <1>4 DEF ReadClock
<1>5. ASSUME NEW t \in Threads, Acquire(t) PROVE IInv'
  BY <1>5, AcquireHolds
<1> QED BY <1>2, <1>3, <1>4, <1>5 DEF Next

\* The inductive invariant of the token bucket.
THEOREM MemoryInvariant == Spec => []IInv
<1> QED BY InitHolds, NextHolds, PTL DEF Spec

\* No bucket has given more than it may, in the window.
LEMMA SpendingBounds == IInv => BudgetKept
<1> SUFFICES ASSUME IInv, NEW k \in Callers PROVE spent[k] <= Full + (To - From)
  BY DEF BudgetKept
<1>1. spent[k] \in Nat /\ (spent[k] > 0 => spent[k] <= Full + (To - From))
  BY DEF IInv, BudgetTypeOK, SpendingInv
<1> QED BY <1>1, FullFits, LimiterAssumption

\* For every window of time, a caller's bucket admits at most its capacity and
\* what the window gives back, however late threads reach the lock.
THEOREM BudgetAlwaysKept == Spec => []BudgetKept
BY SpendingBounds, MemoryInvariant, PTL

\* At the bound a caller is forgotten only if max_keys others have been served
\* since: the dict has exactly the callers served last, in that order.
THEOREM RecentCallersStay == Spec => []RecentCallersKept
<1>1. IInv => RecentCallersKept
  BY DEF IInv, OrderInv
<1> QED BY <1>1, MemoryInvariant, PTL

\* Retry-After tells the truth: who comes back in time, with nothing admitted
\* for it in between, is admitted.
THEOREM RetryAfterIsKept == Spec => RetryAfterKept
<1>1. ASSUME IInv, NEW t \in Threads, Acquire(t),
             promised[thread[t].key] # 0, thread[t].now >= promised[thread[t].key]
      PROVE  promised'[thread[t].key] = 0
  <2>1. PICK k \in Callers, now \in Nat, have \in Int :
          k = thread[t].key /\ now = thread[t].now /\ have = Have(k, now)
    BY <1>1, HaveBounds DEF IInv, BudgetTypeOK
  <2>2. Balance(k) + promised[k] >= Cost /\ Balance(k) \in Int /\ promised \in [Callers -> Nat]
    BY <1>1, <2>1 DEF IInv, PromiseInv, BudgetTypeOK, Balance
  <2>3. have < Cost => have - now = Balance(k)
    BY <1>1, <2>1, HaveBounds
  <2>4. ~ (have < Cost)
    BY <1>1, <2>1, <2>2, <2>3, FullFits
  <2>5. Admit(k, now, have)
    BY <1>1, <2>1, <2>4 DEF Acquire
  <2> QED BY <2>1, <2>2, <2>5 DEF Admit
<1>2. IInv /\ [Next]_vars =>
        [\A t \in Threads :
           LET k == thread[t].key
           IN Acquire(t) /\ promised[k] # 0 /\ thread[t].now >= promised[k]
                => promised'[k] = 0]_vars
  BY <1>1
<1> QED BY <1>2, MemoryInvariant, PTL DEF Spec, RetryAfterKept

---------------------------------------------------------------------------
(* In Redis.                                                               *)

LEMMA SharedInitHolds == SharedInit => SharedIInv
<1> SUFFICES ASSUME SharedInit PROVE SharedIInv
  OBVIOUS
<1>1. SharedTypeOK
  BY RedisAssumption DEF SharedInit, SharedTypeOK, Minutes, Counters
<1> QED BY <1>1, RedisAssumption
        DEF SharedInit, SharedIInv, OutlivesMinute, Counters, Minutes, Never, SharedTypeOK

\* What the store does to counters other than this minute's own is no
\* concern: it is enough that this minute's counter is not taken back.
LEMMA CounterSteps ==
  ASSUME SharedIInv, NEW t \in Handlers,
         \/ \E k \in Keys : ReadMinute(t, k)
         \/ Incr(t) \/ Expire(t) \/ StoreFails(t) \/ CopyStops(t)
  PROVE  SharedIInv'
<1>1. /\ minute \in Minutes /\ second \in 0..(Seconds - 1)
      /\ count \in [Counters -> Nat]
      /\ expiry \in [Counters -> (Nat \X Nat) \cup {Never}]
      /\ at \in [Handlers -> {"idle", "read", "first"}]
      /\ counter \in [Handlers -> Counters]
      /\ faults \in Nat
      /\ allowed \in [Keys -> Nat]
  BY DEF SharedIInv, SharedTypeOK
<1>2. counter[t] \in Counters /\ counter[t][1] \in Keys /\ counter[t][2] <= minute
      /\ counter[t] = <<counter[t][1], counter[t][2]>> /\ minute \in Nat
  BY <1>1 DEF SharedIInv, Counters, Minutes
<1>3. /\ \A u \in Handlers : counter[u][2] <= minute
      /\ \A c \in Counters : OutlivesMinute(c) /\ (c[2] > minute => expiry[c] = Never)
      /\ \A k \in Keys : allowed[k] <= Limit /\ allowed[k] <= count[<<k, minute>>]
  BY DEF SharedIInv
<1>4. UNCHANGED <<minute, second>>
  BY DEF ReadMinute, Incr, Expire, StoreFails, CopyStops
<1>5. \A k \in Keys : <<k, minute>> \in Counters
  BY <1>1 DEF Counters
<1>6. ASSUME NEW k \in Keys, ReadMinute(t, k) PROVE SharedIInv'
  <2>1. <<k, minute>> \in Counters /\ <<k, minute>>[2] <= minute
    BY <1>1, <1>2, <1>5
  <2>2. SharedTypeOK'
    BY <1>1, <1>6, <2>1 DEF ReadMinute, SharedTypeOK, Goes, store
  <2>3. \A u \in Handlers : counter'[u][2] <= minute'
    BY <1>1, <1>3, <1>6, <2>1 DEF ReadMinute
  <2> QED BY <2>2, <2>3, <1>3, <1>6 DEF ReadMinute, SharedIInv, OutlivesMinute, store
<1>7. ASSUME Incr(t) PROVE SharedIInv'
  <2> DEFINE c == counter[t]
             n == count[c] + 1
  <2>1. n \in Nat /\ count' = [count EXCEPT ![c] = n] /\ UNCHANGED <<expiry, counter, faults>>
    BY <1>1, <1>2, <1>7 DEF Incr
  <2>2. allowed' = [allowed EXCEPT ![c[1]] = IF n <= Limit /\ c[2] = minute THEN @ + 1 ELSE @]
    BY <1>7 DEF Incr, Passes
  <2>3. at' \in [Handlers -> {"idle", "read", "first"}]
    BY <1>1, <1>7 DEF Incr, Goes
  <2>4. SharedTypeOK'
    BY <1>1, <1>2, <1>4, <2>1, <2>2, <2>3 DEF SharedTypeOK
  <2>5. ASSUME NEW k \in Keys
        PROVE  allowed'[k] <= Limit /\ allowed'[k] <= count'[<<k, minute>>]
    <3>1. allowed[k] \in Nat /\ count[<<k, minute>>] \in Nat /\ Limit \in Nat
          /\ allowed[k] <= Limit /\ allowed[k] <= count[<<k, minute>>]
      BY <1>1, <1>3, <1>5, RedisAssumption
    <3>2. CASE c = <<k, minute>>
      <4>1. count'[<<k, minute>>] = count[<<k, minute>>] + 1 /\ n = count[<<k, minute>>] + 1
        BY <3>2, <1>1, <1>5, <2>1
      <4>2. allowed'[k] = IF n <= Limit THEN allowed[k] + 1 ELSE allowed[k]
        BY <3>2, <1>1, <2>2
      <4> QED BY <3>1, <4>1, <4>2
    <3>3. CASE c # <<k, minute>>
      <4>1. count'[<<k, minute>>] = count[<<k, minute>>]
        BY <3>3, <1>1, <1>5, <2>1
      <4>2. allowed'[k] = allowed[k]
        BY <3>3, <1>1, <1>2, <2>2
      <4> QED BY <3>1, <4>1, <4>2
    <3> QED BY <3>2, <3>3
  <2> QED BY <2>1, <2>4, <2>5, <1>3, <1>4 DEF SharedIInv, OutlivesMinute
<1>8. ASSUME Expire(t) PROVE SharedIInv'
  <2> DEFINE c == counter[t]
  <2>1. PICK e \in {Never, <<minute + 1, second>>} : expiry' = [expiry EXCEPT ![c] = e]
    BY <1>8 DEF Expire, Lifetime
  <2>2. e \in (Nat \X Nat) \cup {Never} /\ (e # Never => e[1] > minute)
    BY <2>1, <1>1, <1>2
  <2>3. SharedTypeOK'
    BY <1>1, <1>2, <1>8, <2>1, <2>2 DEF Expire, SharedTypeOK, Goes
  <2>4. UNCHANGED <<minute, count, counter, allowed>>
    BY <1>8 DEF Expire
  <2>5. \A d \in Counters : OutlivesMinute(d)' /\ (d[2] > minute => expiry'[d] = Never)
    <3> SUFFICES ASSUME NEW d \in Counters
                 PROVE  OutlivesMinute(d)' /\ (d[2] > minute => expiry'[d] = Never)
      OBVIOUS
    <3>1. CASE d = c
      <4>1. expiry'[d] = e /\ minute' = minute
        BY <3>1, <1>1, <1>2, <2>1, <2>4
      <4>2. d[2] \in Nat /\ minute \in Nat /\ d[2] <= minute
        BY <3>1, <1>1, <1>2 DEF Counters, Minutes
      <4>3. ~ (d[2] > minute)
        BY <4>2
      <4> QED BY <4>1, <4>3, <2>2 DEF OutlivesMinute
    <3>2. CASE d # c
      <4>1. expiry'[d] = expiry[d]
        BY <3>2, <1>1, <1>2, <2>1
      <4> QED BY <4>1, <1>3, <2>4 DEF OutlivesMinute
    <3> QED BY <3>1, <3>2
  <2> QED BY <2>3, <2>4, <2>5, <1>3 DEF SharedIInv
<1>9. ASSUME StoreFails(t) \/ CopyStops(t) PROVE SharedIInv'
  <2>1. /\ UNCHANGED <<expiry, counter, allowed>> /\ faults' \in Nat
        /\ at' \in [Handlers -> {"idle", "read", "first"}]
    BY <1>1, <1>9 DEF StoreFails, CopyStops, Fault, Goes, store
  <2>2. count' \in [Counters -> Nat] /\ \A d \in Counters : count'[d] >= count[d]
    <3>1. count' = count \/ count' = [count EXCEPT ![counter[t]] = count[counter[t]] + 1]
      BY <1>9 DEF StoreFails, CopyStops, store
    <3> QED BY <3>1, <1>1, <1>2
  <2>3. SharedTypeOK'
    BY <1>1, <1>4, <2>1, <2>2 DEF SharedTypeOK
  <2>4. \A k \in Keys : allowed'[k] <= Limit /\ allowed'[k] <= count'[<<k, minute>>]
    <3> SUFFICES ASSUME NEW k \in Keys
                 PROVE  allowed'[k] <= Limit /\ allowed'[k] <= count'[<<k, minute>>]
      OBVIOUS
    <3>1. count'[<<k, minute>>] \in Nat /\ count[<<k, minute>>] \in Nat /\ allowed[k] \in Nat
          /\ count'[<<k, minute>>] >= count[<<k, minute>>]
      BY <1>1, <1>5, <2>2
    <3> QED BY <3>1, <1>3, <2>1
  <2> QED BY <2>1, <2>3, <2>4, <1>3, <1>4 DEF SharedIInv, OutlivesMinute
<1> QED BY <1>6, <1>7, <1>8, <1>9

\* A new minute has a counter of its own, and within a minute Redis deletes
\* none that the minute still needs.
LEMMA TickHolds ==
  ASSUME SharedIInv, NextSecond
  PROVE  SharedIInv'
<1>1. /\ minute \in Minutes /\ second \in 0..(Seconds - 1) /\ Seconds \in Nat \ {0}
      /\ count \in [Counters -> Nat]
      /\ expiry \in [Counters -> (Nat \X Nat) \cup {Never}]
      /\ counter \in [Handlers -> Counters]
      /\ allowed \in [Keys -> Nat]
      /\ MaxMinute \in Nat /\ minute \in Nat
  BY RedisAssumption DEF SharedIInv, SharedTypeOK, Minutes
<1>2. /\ minute' \in Minutes /\ minute' \in {minute, minute + 1} /\ second' \in 0..(Seconds - 1)
  BY <1>1 DEF NextSecond, Minutes
<1>3. /\ count'  = [c \in Counters |-> IF expiry[c] = <<minute', second'>> THEN 0 ELSE count[c]]
      /\ expiry' = [c \in Counters |-> IF expiry[c] = <<minute', second'>> THEN Never ELSE expiry[c]]
      /\ allowed' = [k \in Keys |-> IF minute' = minute THEN allowed[k] ELSE 0]
      /\ UNCHANGED <<at, counter, faults>>
  BY DEF NextSecond, calls
<1>4. /\ \A u \in Handlers : counter[u][2] <= minute
      /\ \A c \in Counters : OutlivesMinute(c) /\ (c[2] > minute => expiry[c] = Never)
      /\ \A k \in Keys : allowed[k] <= Limit /\ allowed[k] <= count[<<k, minute>>]
  BY DEF SharedIInv
<1>5. SharedTypeOK'
  BY <1>1, <1>2, <1>3 DEF SharedIInv, SharedTypeOK
<1>6. \A u \in Handlers : counter'[u][2] <= minute'
  <2> SUFFICES ASSUME NEW u \in Handlers PROVE counter[u][2] <= minute'
    BY <1>3
  <2>1. counter[u][2] \in Nat
    BY <1>1 DEF Counters, Minutes
  <2> QED BY <2>1, <1>1, <1>2, <1>4
<1>7. ASSUME NEW c \in Counters
      PROVE  OutlivesMinute(c)' /\ (c[2] > minute' => expiry'[c] = Never)
  <2>1. c[2] \in Nat /\ expiry'[c] \in {expiry[c], Never}
    BY <1>1, <1>3 DEF Counters, Minutes
  <2>2. c[2] > minute => expiry'[c] = Never
    BY <1>4, <2>1
  <2>3. CASE minute' = minute
    BY <2>1, <2>2, <2>3, <1>4 DEF OutlivesMinute
  <2>4. CASE minute' = minute + 1
    BY <2>1, <2>2, <2>4, <1>1 DEF OutlivesMinute
  <2> QED BY <2>3, <2>4, <1>2
<1>8. ASSUME NEW k \in Keys
      PROVE  allowed'[k] <= Limit /\ allowed'[k] <= count'[<<k, minute'>>]
  <2>1. <<k, minute'>> \in Counters /\ <<k, minute>> \in Counters /\ <<k, minute>>[2] = minute
    BY <1>1, <1>2 DEF Counters
  <2>2. CASE minute' = minute
    <3>1. expiry[<<k, minute>>] # <<minute, second'>>
      <4>1. OutlivesMinute(<<k, minute>>)
        BY <2>1, <1>4
      <4>2. <<minute, second'>>[1] = minute /\ <<minute, second'>> # Never
        BY <1>1 DEF Never
      <4> QED BY <4>1, <4>2, <2>1, <1>1 DEF OutlivesMinute
    <3>2. count'[<<k, minute>>] = count[<<k, minute>>]
      BY <3>1, <2>1, <2>2, <1>3
    <3> QED BY <3>2, <2>2, <1>3, <1>4
  <2>3. CASE minute' # minute
    <3>1. allowed'[k] = 0 /\ count'[<<k, minute'>>] \in Nat /\ Limit \in Nat
      BY <2>1, <2>3, <1>3, <1>5, RedisAssumption DEF SharedTypeOK
    <3> QED BY <3>1
  <2> QED BY <2>2, <2>3
<1> QED BY <1>5, <1>6, <1>7, <1>8 DEF SharedIInv

\* Every step of the shared limiter keeps its invariant.
LEMMA SharedNextHolds == SharedIInv /\ [SharedNext]_sharedVars => SharedIInv'
<1> SUFFICES ASSUME SharedIInv, [SharedNext]_sharedVars PROVE SharedIInv'
  OBVIOUS
<1>1. CASE UNCHANGED sharedVars
  BY <1>1 DEF SharedIInv, SharedTypeOK, OutlivesMinute, sharedVars, store, calls
<1>2. CASE RedisRestarts
  <2>1. /\ count' \in [Counters -> Nat] /\ expiry' \in [Counters -> (Nat \X Nat) \cup {Never}]
        /\ \A c \in Counters : count'[c] = 0 /\ expiry'[c] = Never
        /\ allowed' \in [Keys -> Nat] /\ \A k \in Keys : allowed'[k] = 0
        /\ UNCHANGED <<minute, second, at, counter>> /\ faults' \in Nat
    BY <1>2 DEF RedisRestarts, Fault, SharedIInv, SharedTypeOK, calls
  <2>2. SharedTypeOK'
    BY <2>1 DEF SharedIInv, SharedTypeOK
  <2>3. \A k \in Keys : <<k, minute>> \in Counters
    BY DEF SharedIInv, SharedTypeOK, Counters
  <2> QED BY <2>1, <2>2, <2>3, RedisAssumption DEF SharedIInv, OutlivesMinute
<1>3. CASE NextSecond
  BY <1>3, TickHolds
<1> QED BY <1>1, <1>2, <1>3, CounterSteps DEF SharedNext

\* The inductive invariant of the shared counters.
THEOREM SharedInvariant == SharedSpec => []SharedIInv
BY SharedInitHolds, SharedNextHolds, PTL DEF SharedSpec

\* However many copies of the API share the counters, a caller gets at most
\* Limit requests of a minute past them.
THEOREM SharedBudgetKept == SharedSpec => []SharedBudget
<1>1. SharedIInv => SharedBudget
  BY DEF SharedIInv, SharedBudget
<1> QED BY <1>1, SharedInvariant, PTL

---------------------------------------------------------------------------
(* Counters without a lifetime.                                            *)

Immortals == {c \in Counters : Immortal(c)}

\* They are few, and finite so that they can be counted.
ImmortalInv == IsFiniteSet(Immortals) /\ Cardinality(Immortals) <= faults

\* Only a fault makes a counter immortal, and it makes one.
LEMMA OneForAFault ==
  ASSUME SharedIInv, [SharedNext]_sharedVars
  PROVE  \/ Immortals' \subseteq Immortals /\ faults' \in {faults, faults + 1}
         \/ /\ faults' = faults + 1
            /\ \E t \in Handlers : Immortals' \subseteq Immortals \cup {counter[t]}
<1>1. /\ count \in [Counters -> Nat]
      /\ expiry \in [Counters -> (Nat \X Nat) \cup {Never}]
      /\ at \in [Handlers -> {"idle", "read", "first"}]
      /\ counter \in [Handlers -> Counters]
  BY DEF SharedIInv, SharedTypeOK
<1> USE <1>1 DEF Immortals, Immortal
<1>2. ASSUME NEW t \in Handlers, NEW k \in Keys, ReadMinute(t, k)
      PROVE  Immortals' \subseteq Immortals /\ faults' = faults
  BY <1>2 DEF ReadMinute, Goes, store
<1>3. ASSUME NEW t \in Handlers, Incr(t)
      PROVE  Immortals' \subseteq Immortals /\ faults' = faults
  <2>1. /\ at[t] = "read" /\ UNCHANGED <<expiry, counter, faults>>
        /\ count' = [count EXCEPT ![counter[t]] = count[counter[t]] + 1]
        /\ at' = [at EXCEPT ![t] = IF count[counter[t]] + 1 = 1 THEN "first" ELSE "idle"]
    BY <1>3 DEF Incr, IsFirst, Goes
  <2>2. ASSUME NEW c \in Counters, Immortal(c)' PROVE Immortal(c)
    <3>1. CASE c = counter[t]
      <4>1. count[c] # 0
        BY <2>1, <2>2, <3>1
      <4>2. \A u \in Handlers : at[u] = "first" => u # t /\ at'[u] = "first"
        BY <2>1
      <4> QED
        BY <2>1, <2>2, <4>1, <4>2
    <3>2. CASE c # counter[t]
      BY <2>1, <2>2, <3>2
    <3> QED
      BY <3>1, <3>2
  <2> QED
    BY <2>1, <2>2
<1>4. ASSUME NEW t \in Handlers, Expire(t)
      PROVE  Immortals' \subseteq Immortals /\ faults' = faults
  <2>1. /\ UNCHANGED <<count, counter, faults>> /\ at' = [at EXCEPT ![t] = "idle"]
        /\ expiry' = [expiry EXCEPT ![counter[t]] = IF count[counter[t]] = 0 THEN Never
                                                    ELSE <<minute + 1, second>>]
        /\ <<minute + 1, second>> # Never
    BY <1>4 DEF Expire, Lifetime, Goes, Never
  <2>2. ASSUME NEW c \in Counters, Immortal(c)' PROVE Immortal(c)
    <3>1. c # counter[t]
      BY <2>1, <2>2
    <3> QED
      BY <2>1, <2>2, <3>1
  <2> QED
    BY <2>1, <2>2
<1>5. ASSUME NEW t \in Handlers, StoreFails(t) \/ CopyStops(t)
      PROVE  faults' = faults + 1 /\ Immortals' \subseteq Immortals \cup {counter[t]}
  <2>1. /\ faults' = faults + 1 /\ UNCHANGED <<expiry, counter>>
        /\ at' = [at EXCEPT ![t] = "idle"]
        /\ \A c \in Counters \ {counter[t]} : count'[c] = count[c]
    BY <1>5 DEF StoreFails, CopyStops, Fault, Goes, store
  <2>2. ASSUME NEW c \in Counters \ {counter[t]}, Immortal(c)' PROVE Immortal(c)
    BY <2>1, <2>2
  <2> QED
    BY <2>1, <2>2
<1>6. ASSUME RedisRestarts PROVE Immortals' \subseteq Immortals /\ faults' = faults + 1
  BY <1>6 DEF RedisRestarts, Fault
<1>7. ASSUME NextSecond PROVE Immortals' \subseteq Immortals /\ faults' = faults
  BY <1>7 DEF NextSecond, calls
<1>8. CASE UNCHANGED sharedVars
  BY <1>8 DEF sharedVars, store, calls
<1> QED
  BY <1>2, <1>3, <1>4, <1>5, <1>6, <1>7, <1>8 DEF SharedNext

\* However the copies, the store and the clock behave, there are no more counters
\* without a lifetime than there were faults.
THEOREM ImmortalsCounted == SharedSpec => []CountersExpire
<1>1. SharedInit => ImmortalInv
  <2> SUFFICES ASSUME SharedInit PROVE ImmortalInv
    OBVIOUS
  <2>1. Immortals = {}
    BY DEF SharedInit, Immortals, Immortal
  <2> QED
    BY <2>1, FS_EmptySet DEF ImmortalInv, SharedInit
<1>2. SharedIInv /\ ImmortalInv /\ [SharedNext]_sharedVars => ImmortalInv'
  <2> SUFFICES ASSUME SharedIInv, ImmortalInv, [SharedNext]_sharedVars PROVE ImmortalInv'
    OBVIOUS
  <2>1. IsFiniteSet(Immortals) /\ Cardinality(Immortals) \in Nat /\ faults \in Nat
        /\ Cardinality(Immortals) <= faults
    BY FS_CardinalityType DEF ImmortalInv, SharedIInv, SharedTypeOK
  <2>2. CASE Immortals' \subseteq Immortals /\ faults' \in {faults, faults + 1}
    <3>1. IsFiniteSet(Immortals') /\ Cardinality(Immortals') <= Cardinality(Immortals)
      BY <2>1, <2>2, FS_Subset
    <3>2. Cardinality(Immortals') \in Nat
      BY <3>1, FS_CardinalityType
    <3> QED
      BY <2>1, <2>2, <3>1, <3>2 DEF ImmortalInv
  <2>3. ASSUME faults' = faults + 1, NEW t \in Handlers,
               Immortals' \subseteq Immortals \cup {counter[t]}
        PROVE  ImmortalInv'
    <3>1. IsFiniteSet(Immortals \cup {counter[t]})
          /\ Cardinality(Immortals \cup {counter[t]}) <= Cardinality(Immortals) + 1
          /\ Cardinality(Immortals \cup {counter[t]}) \in Nat
      BY <2>1, FS_AddElement, FS_CardinalityType
    <3>2. IsFiniteSet(Immortals')
          /\ Cardinality(Immortals') <= Cardinality(Immortals \cup {counter[t]})
      BY <2>3, <3>1, FS_Subset
    <3>3. Cardinality(Immortals') \in Nat
      BY <3>2, FS_CardinalityType
    <3> QED
      BY <2>1, <2>3, <3>1, <3>2, <3>3 DEF ImmortalInv
  <2> QED
    BY <2>2, <2>3, OneForAFault
<1>3. ImmortalInv => CountersExpire
  BY DEF ImmortalInv, Immortals, CountersExpire
<1> QED
  BY <1>1, <1>2, <1>3, SharedInvariant, PTL DEF SharedSpec

---------------------------------------------------------------------------
(* A process with the limiter it was configured with.                      *)

\* Whichever limiter create_app has built, the budgets it stands for are kept:
\* the one in memory for every window, with its bound on memory, and the shared
\* one for every minute; without a limiter nothing is spent.
THEOREM LimitsKept == LimitsSpec => [](BudgetKept /\ RecentCallersKept /\ SharedBudget)
<1> DEFINE Inv == IInv /\ SharedIInv
           Kinds == backend \in {"off", "memory", "redis"}
<1>1. LimitsInit => Inv
  BY InitHolds, SharedInitHolds DEF LimitsInit
<1>2. Inv /\ [LimitsNext]_<<backend, vars, sharedVars>> => Inv'
  <2> SUFFICES ASSUME Inv, [LimitsNext]_<<backend, vars, sharedVars>> PROVE Inv'
    OBVIOUS
  <2>1. [Next]_vars /\ [SharedNext]_sharedVars
    BY DEF LimitsNext
  <2> QED BY <2>1, NextHolds, SharedNextHolds
<1>3. Inv => BudgetKept /\ RecentCallersKept /\ SharedBudget
  <2>1. IInv => BudgetKept /\ RecentCallersKept
    BY SpendingBounds DEF IInv, OrderInv
  <2>2. SharedIInv => SharedBudget
    BY DEF SharedIInv, SharedBudget
  <2> QED BY <2>1, <2>2
<1> QED BY <1>1, <1>2, <1>3, PTL DEF LimitsSpec

=============================================================================
