----------------------------- MODULE Recursion -----------------------------
(***************************************************************************)
(* Induction and recursion over the natural numbers, stated of sets and    *)
(* functions: what the proofs about recursive functions rest on, and what  *)
(* they show of FlattenSeq.                                                *)
(***************************************************************************)
EXTENDS Integers, SequencesExt, WellFoundedInduction, SequenceTheorems, TLAPS

\* A set of naturals has a least element.
LEMMA LeastNatural ==
  ASSUME NEW T \in SUBSET Nat, T # {}
  PROVE  \E m \in T : \A n \in T : m <= n
<1>1. PICK m \in T : \A n \in T : ~ (<<n, m>> \in OpToRel(<, Nat))
  BY NatLessThanWellFounded, WFMin
<1>2. \A n \in T : ~ (n < m)
  BY <1>1 DEF OpToRel
<1> QED BY <1>2

\* Induction: a set that has 0 and the successor of each of its members.
LEMMA InductiveSet ==
  ASSUME NEW S \in SUBSET Nat, 0 \in S, \A n \in S : n + 1 \in S
  PROVE  S = Nat
<1> DEFINE T == Nat \ S
<1>1. SUFFICES ASSUME T # {} PROVE FALSE
  OBVIOUS
<1>2. PICK m \in T : \A n \in T : m <= n
  <2>1. T \in SUBSET Nat
    OBVIOUS
  <2> HIDE DEF T
  <2> QED BY <1>1, <2>1, LeastNatural
<1>3. m # 0 /\ m - 1 \in Nat /\ m - 1 \in S
  BY <1>2
<1> QED BY <1>2, <1>3

\* A set of naturals with an upper bound has a greatest element.
LEMMA GreatestNatural ==
  ASSUME NEW T \in SUBSET Nat, T # {}, NEW b \in Nat, \A n \in T : n <= b
  PROVE  \E m \in T : \A n \in T : n <= m
<1> DEFINE D == {b - n : n \in T}
<1>1. D \in SUBSET Nat /\ D # {}
  <2>1. \A n \in T : b - n \in Nat
    OBVIOUS
  <2> QED BY <2>1
<1>2. PICK d \in D : \A e \in D : d <= e
  <2> HIDE DEF D
  <2> QED BY <1>1, LeastNatural
<1>3. PICK m \in T : d = b - m
  BY <1>2
<1>4. ASSUME NEW n \in T PROVE n <= m
  <2>1. d <= b - n
    BY <1>2
  <2> QED BY <1>3, <2>1
<1> QED BY <1>4

---------------------------------------------------------------------------

\* h is what G makes of a, step by step.
Iterates(h, A, a, G) ==
  h \in [Nat -> A] /\ h[0] = a /\ \A n \in Nat : h[n + 1] = G[n][h[n]]

\* A function given by its first value and a step.
LEMMA Iteration ==
  ASSUME NEW A, NEW a \in A, NEW G \in [Nat -> [A -> A]]
  PROVE  \E h : Iterates(h, A, a, G)
<1> DEFINE Starts(h, n) == /\ h \in [0..n -> A] /\ h[0] = a
                           /\ \A i \in 0..n : i < n => h[i + 1] = G[i][h[i]]
<1>1. ASSUME NEW n \in Nat, NEW h, Starts(h, n), NEW k, Starts(k, n + 1)
      PROVE  \A i \in 0..n : h[i] = k[i]
  <2> DEFINE S == {i \in Nat : i <= n => h[i] = k[i]}
  <2>1. 0 \in S
    BY <1>1
  <2>2. ASSUME NEW i \in S PROVE i + 1 \in S
    <3>1. CASE i < n
      <4>1. i \in 0..n /\ i \in 0..(n + 1) /\ i < n + 1
        BY <3>1, <2>2
      <4>2. h[i + 1] = G[i][h[i]] /\ k[i + 1] = G[i][k[i]]
        BY <1>1, <3>1, <4>1
      <4> QED BY <2>2, <3>1, <4>2
    <3> QED BY <3>1
  <2>3. S = Nat
    <3> HIDE DEF S
    <3>1. S \in SUBSET Nat BY DEF S
    <3> QED BY <2>1, <2>2, <3>1, InductiveSet
  <2> QED BY <2>3
<1>2. \A n \in Nat : \E h : Starts(h, n)
  <2> DEFINE S == {n \in Nat : \E h : Starts(h, n)}
  <2>1. 0 \in S
    <3>1. Starts([i \in 0..0 |-> a], 0)
      OBVIOUS
    <3> QED BY <3>1
  <2>2. ASSUME NEW n \in S PROVE n + 1 \in S
    <3>1. PICK h : Starts(h, n)
      BY <2>2
    <3> DEFINE k == [i \in 0..(n + 1) |-> IF i = n + 1 THEN G[n][h[n]] ELSE h[i]]
    <3>2. n \in Nat /\ h \in [0..n -> A] /\ h[n] \in A
      BY <2>2, <3>1
    <3>3. k \in [0..(n + 1) -> A] /\ k[0] = a
      BY <3>1, <3>2
    <3>4. ASSUME NEW i \in 0..(n + 1), i < n + 1 PROVE k[i + 1] = G[i][k[i]]
      <4>1. i \in 0..n /\ k[i] = h[i]
        BY <3>2, <3>4
      <4>2. CASE i = n
        BY <3>2, <4>1, <4>2
      <4>3. CASE i < n
        <5>1. k[i + 1] = h[i + 1] /\ h[i + 1] = G[i][h[i]]
          BY <3>1, <3>2, <4>1, <4>3
        <5> QED BY <4>1, <5>1
      <4> QED BY <3>2, <4>1, <4>2, <4>3
    <3>5. Starts(k, n + 1)
      BY <3>3, <3>4
    <3>6. n + 1 \in Nat /\ \E g : Starts(g, n + 1)
      <4> HIDE DEF Starts, k
      <4> QED BY <3>2, <3>5
    <3> QED BY <3>6
  <2>3. S = Nat
    <3> HIDE DEF S
    <3>1. S \in SUBSET Nat BY DEF S
    <3> QED BY <2>1, <2>2, <3>1, InductiveSet
  <2> QED BY <2>3
<1> DEFINE H == [n \in Nat |-> CHOOSE h : Starts(h, n)]
           f == [n \in Nat |-> H[n][n]]
<1>3. \A n \in Nat : Starts(H[n], n)
  BY <1>2
<1> HIDE DEF H
<1>4. f \in [Nat -> A] /\ f[0] = a
  BY <1>3
<1>5. ASSUME NEW n \in Nat PROVE f[n + 1] = G[n][f[n]]
  <2>1. Starts(H[n], n) /\ Starts(H[n + 1], n + 1)
    BY <1>3
  <2>2. H[n][n] = H[n + 1][n]
    <3> HIDE DEF Starts
    <3> QED BY <1>1, <2>1
  <2>3. H[n + 1][n + 1] = G[n][H[n + 1][n]]
    <3>1. n \in 0..(n + 1) /\ n < n + 1
      OBVIOUS
    <3> QED BY <2>1, <3>1
  <2> QED BY <2>2, <2>3
<1> QED BY <1>4, <1>5 DEF Iterates

---------------------------------------------------------------------------
(* FlattenSeq.                                                             *)

\* What FlattenSeq's recursive function is.
LEMMA Flattened ==
  ASSUME NEW A, NEW s \in Seq(Seq(A)), s # <<>>
  PROVE  \E f : /\ FlattenSeq(s) = f[Len(s)]
                /\ f[1] = s[1]
                /\ \A i \in 1..Len(s) : f[i] \in Seq(A)
                /\ \A i \in 1..Len(s) : i < Len(s) => f[i + 1] = f[i] \o s[i + 1]
<1> DEFINE n == Len(s)
           IsFlat(f) == f = [i \in 1..n |-> IF i = 1 THEN s[i] ELSE f[i - 1] \o s[i]]
           flat == CHOOSE f : IsFlat(f)
           G == [i \in Nat |-> [t \in Seq(A) |-> IF i < n THEN t \o s[i + 1] ELSE t]]
<1>1. n \in Nat /\ n # 0 /\ \A i \in 1..n : s[i] \in Seq(A)
  OBVIOUS
<1>2. <<>> \in Seq(A) /\ \A t, u \in Seq(A) : t \o u \in Seq(A)
  OBVIOUS
<1>3. G \in [Nat -> [Seq(A) -> Seq(A)]]
  BY <1>1, <1>2
<1>4. PICK h : Iterates(h, Seq(A), <<>>, G)
  <2> HIDE DEF G
  <2> QED BY <1>2, <1>3, Iteration
<1>5. /\ h \in [Nat -> Seq(A)] /\ h[0] = <<>>
      /\ \A i \in Nat : i < n => h[i + 1] = h[i] \o s[i + 1]
  BY <1>4 DEF Iterates
<1>6. h[1] = s[1]
  <2>1. 0 < n /\ 0 \in Nat /\ 0 + 1 = 1 /\ s[1] \in Seq(A)
    BY <1>1
  <2>2. h[1] = <<>> \o s[1]
    <3> HIDE DEF n, G
    <3> QED BY <1>5, <2>1
  <2> QED BY <2>1, <2>2
<1>7. IsFlat([i \in 1..n |-> h[i]])
  <2>1. ASSUME NEW i \in 1..n, i # 1 PROVE h[i] = h[i - 1] \o s[i] /\ i - 1 \in 1..n
    <3>1. i - 1 \in Nat /\ i - 1 < n /\ (i - 1) + 1 = i /\ i - 1 \in 1..n
      BY <1>1, <2>1
    <3> QED BY <1>5, <3>1
  <2> QED BY <1>6, <2>1
<1>8. IsFlat(flat)
  <2> HIDE DEF IsFlat
  <2> QED BY <1>7
<1>9. FlattenSeq(s) = flat[n]
  BY <1>1 DEF FlattenSeq
<1> HIDE DEF flat, n
<1>10. flat[1] = s[1]
  BY <1>1, <1>8
<1>11. ASSUME NEW i \in 1..n, i < n PROVE flat[i + 1] = flat[i] \o s[i + 1]
  <2>1. i + 1 \in 1..n /\ i + 1 # 1 /\ (i + 1) - 1 = i
    BY <1>1, <1>11
  <2> QED BY <1>8, <2>1
<1>12. \A i \in 1..n : flat[i] = h[i]
  <2> DEFINE S == {i \in Nat : i + 1 <= n => flat[i + 1] = h[i + 1]}
  <2>1. 0 \in S
    BY <1>6, <1>10
  <2>2. ASSUME NEW i \in S PROVE i + 1 \in S
    <3>1. SUFFICES ASSUME (i + 1) + 1 <= n PROVE flat[(i + 1) + 1] = h[(i + 1) + 1]
      OBVIOUS
    <3>2. i + 1 \in 1..n /\ i + 1 \in Nat /\ i + 1 < n /\ flat[i + 1] = h[i + 1]
      BY <1>1, <3>1
    <3> QED BY <1>5, <1>11, <3>2
  <2>3. S = Nat
    <3> HIDE DEF S
    <3>1. S \in SUBSET Nat BY DEF S
    <3> QED BY <2>1, <2>2, <3>1, InductiveSet
  <2>4. ASSUME NEW i \in 1..n PROVE flat[i] = h[i]
    <3>1. i - 1 \in S /\ (i - 1) + 1 = i /\ i <= n
      <4> HIDE DEF S
      <4> QED BY <1>1, <2>3
    <3> QED BY <3>1
  <2> QED BY <2>4
<1>13. \A i \in 1..n : flat[i] \in Seq(A)
  <2>1. \A i \in 1..n : i \in Nat
    BY <1>1
  <2>2. \A i \in Nat : h[i] \in Seq(A)
    BY <1>5
  <2> QED BY <1>12, <2>1, <2>2
<1> QED BY <1>9, <1>10, <1>11, <1>13 DEF n

\* A sequence more is that sequence at the end.
LEMMA FlattenAppend ==
  ASSUME NEW A, NEW s \in Seq(Seq(A)), NEW p \in Seq(A)
  PROVE  /\ FlattenSeq(<<>>) = <<>>
         /\ FlattenSeq(s) \in Seq(A)
         /\ FlattenSeq(Append(s, p)) = FlattenSeq(s) \o p
<1>1. FlattenSeq(<<>>) = <<>>
  BY DEF FlattenSeq
<1>2. <<>> \in Seq(A) /\ \A t \in Seq(A) : <<>> \o t = t
  BY EmptySeq, ConcatEmptySeq
<1> DEFINE u == Append(s, p)
           n == Len(s)
<1>3. /\ u \in Seq(Seq(A)) /\ u # <<>> /\ Len(u) = n + 1 /\ n \in Nat
      /\ u[n + 1] = p /\ \A i \in 1..n : u[i] = s[i]
  <2>1. n \in Nat
    OBVIOUS
  <2> QED BY <2>1, AppendProperties
<1>4. PICK g : /\ FlattenSeq(u) = g[Len(u)]
               /\ g[1] = u[1]
               /\ \A i \in 1..Len(u) : g[i] \in Seq(A)
               /\ \A i \in 1..Len(u) : i < Len(u) => g[i + 1] = g[i] \o u[i + 1]
  <2> HIDE DEF u
  <2> QED BY <1>3, Flattened
<1>5. CASE s = <<>>
  <2>1. n = 0 /\ FlattenSeq(u) = p
    BY <1>3, <1>4, <1>5
  <2> QED BY <1>1, <1>2, <1>5, <2>1
<1>6. CASE s # <<>>
  <2>1. PICK f : /\ FlattenSeq(s) = f[Len(s)]
                 /\ f[1] = s[1]
                 /\ \A i \in 1..Len(s) : f[i] \in Seq(A)
                 /\ \A i \in 1..Len(s) : i < Len(s) => f[i + 1] = f[i] \o s[i + 1]
    BY <1>6, Flattened
  <2>2. n # 0
    BY <1>6
  <2> DEFINE S == {i \in Nat : i + 1 <= n => f[i + 1] = g[i + 1]}
  <2> HIDE DEF u
  <2>3. 0 \in S
    BY <1>3, <1>4, <2>1
  <2>4. ASSUME NEW i \in S PROVE i + 1 \in S
    <3>1. SUFFICES ASSUME (i + 1) + 1 <= n PROVE f[(i + 1) + 1] = g[(i + 1) + 1]
      OBVIOUS
    <3>2. /\ i + 1 \in 1..n /\ i + 1 \in 1..(n + 1) /\ i + 1 < n /\ i + 1 < n + 1
          /\ (i + 1) + 1 \in 1..n /\ f[i + 1] = g[i + 1]
      <4>1. i \in Nat /\ (i + 1 <= n => f[i + 1] = g[i + 1])
        BY <2>4
      <4> HIDE DEF n, S
      <4> QED BY <1>3, <3>1, <4>1
    <3>3. f[(i + 1) + 1] = f[i + 1] \o s[(i + 1) + 1]
      BY <2>1, <3>2
    <3>4. g[(i + 1) + 1] = g[i + 1] \o u[(i + 1) + 1]
      BY <1>3, <1>4, <3>2
    <3>5. u[(i + 1) + 1] = s[(i + 1) + 1]
      BY <1>3, <3>2
    <3> QED BY <3>2, <3>3, <3>4, <3>5
  <2>5. S = Nat
    <3> HIDE DEF S
    <3>1. S \in SUBSET Nat BY DEF S
    <3> QED BY <2>3, <2>4, <3>1, InductiveSet
  <2>6. f[n] = g[n] /\ n \in 1..n /\ n \in 1..(n + 1) /\ n < n + 1
    <3>1. n - 1 \in S /\ (n - 1) + 1 = n
      <4> HIDE DEF S, n
      <4> QED BY <1>3, <2>2, <2>5
    <3> QED BY <1>3, <2>2, <3>1
  <2>7. FlattenSeq(u) = g[n] \o p
    BY <1>3, <1>4, <2>6
  <2>8. FlattenSeq(s) = f[n] /\ f[n] \in Seq(A)
    BY <2>1, <2>6
  <2> QED BY <1>1, <2>6, <2>7, <2>8 DEF u
<1> QED BY <1>5, <1>6

\* The first sequences are the start of the whole.
LEMMA FlattenStart ==
  ASSUME NEW A, NEW s \in Seq(Seq(A)), NEW n \in 0..Len(s)
  PROVE  \E r \in Seq(A) : FlattenSeq(s) = FlattenSeq(SubSeq(s, 1, n)) \o r
<1> DEFINE S == {d \in Nat : n + d <= Len(s) =>
                   \E r \in Seq(A) : FlattenSeq(SubSeq(s, 1, n + d)) = FlattenSeq(SubSeq(s, 1, n)) \o r}
<1>1. \A k \in 0..Len(s) : SubSeq(s, 1, k) \in Seq(Seq(A))
  BY SubSeqProperties
<1>2. <<>> \in Seq(A) /\ \A t, u \in Seq(A) : t \o u \in Seq(A)
  OBVIOUS
<1>3. \A k \in 0..Len(s) : FlattenSeq(SubSeq(s, 1, k)) \in Seq(A)
  BY <1>1, <1>2, FlattenAppend
<1>4. 0 \in S
  <2>1. n + 0 = n /\ FlattenSeq(SubSeq(s, 1, n)) \in Seq(A)
    BY <1>3
  <2>2. FlattenSeq(SubSeq(s, 1, n)) = FlattenSeq(SubSeq(s, 1, n)) \o <<>>
    BY <2>1
  <2> QED BY <1>2, <2>1, <2>2
<1>5. ASSUME NEW d \in S PROVE d + 1 \in S
  <2>0. d \in Nat /\ (n + d <= Len(s) =>
          \E r \in Seq(A) : FlattenSeq(SubSeq(s, 1, n + d)) = FlattenSeq(SubSeq(s, 1, n)) \o r)
    BY <1>5
  <2>1. SUFFICES ASSUME n + (d + 1) <= Len(s)
                 PROVE  \E r \in Seq(A) :
                          FlattenSeq(SubSeq(s, 1, n + (d + 1))) = FlattenSeq(SubSeq(s, 1, n)) \o r
    <3>1. d + 1 \in Nat
      BY <2>0
    <3> QED BY <3>1
  <2> DEFINE k == n + d
  <2>2. /\ k \in 0..Len(s) /\ n + d <= Len(s) /\ k + 1 \in 1..Len(s)
        /\ k + 1 = n + (d + 1)
    BY <2>0, <2>1
  <2>3. PICK r \in Seq(A) : FlattenSeq(SubSeq(s, 1, k)) = FlattenSeq(SubSeq(s, 1, n)) \o r
    <3> HIDE DEF S
    <3> QED BY <2>0, <2>2
  <2>4. SubSeq(s, 1, k + 1) = Append(SubSeq(s, 1, k), s[k + 1]) /\ s[k + 1] \in Seq(A)
    BY <2>2
  <2>5. FlattenSeq(SubSeq(s, 1, k + 1)) = FlattenSeq(SubSeq(s, 1, k)) \o s[k + 1]
    BY <1>1, <2>2, <2>4, FlattenAppend
  <2>6. (FlattenSeq(SubSeq(s, 1, n)) \o r) \o s[k + 1] = FlattenSeq(SubSeq(s, 1, n)) \o (r \o s[k + 1])
    <3>1. ASSUME NEW t \in Seq(A), NEW u \in Seq(A), NEW v \in Seq(A)
          PROVE  (t \o u) \o v = t \o (u \o v)
      BY ConcatAssociative, SMTT(30)
    <3> QED BY <1>3, <2>3, <2>4, <3>1
  <2>7. r \o s[k + 1] \in Seq(A)
    BY <1>2, <2>4
  <2> QED BY <2>2, <2>3, <2>5, <2>6, <2>7
<1>6. S = Nat
  <2> HIDE DEF S
  <2>1. S \in SUBSET Nat BY DEF S
  <2> QED BY <1>4, <1>5, <2>1, InductiveSet
<1>7. Len(s) - n \in S /\ n + (Len(s) - n) = Len(s)
  <2> HIDE DEF S
  <2> QED BY <1>6
<1>8. SubSeq(s, 1, Len(s)) = s
  OBVIOUS
<1>9. \E r \in Seq(A) : FlattenSeq(SubSeq(s, 1, Len(s))) = FlattenSeq(SubSeq(s, 1, n)) \o r
  <2>1. n + (Len(s) - n) <= Len(s)
    BY <1>7
  <2>2. \E r \in Seq(A) :
          FlattenSeq(SubSeq(s, 1, n + (Len(s) - n))) = FlattenSeq(SubSeq(s, 1, n)) \o r
    BY <1>7, <2>1
  <2> QED BY <1>7, <2>2
<1> QED BY <1>8, <1>9

=============================================================================
