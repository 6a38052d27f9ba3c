--------------------------- MODULE SequenceFacts ---------------------------
(***************************************************************************)
(* Facts about the operators on sequences that the models' lists and       *)
(* queues are built from: which elements the result has, at which places,  *)
(* and that none is there twice.                                           *)
(***************************************************************************)
EXTENDS Integers, Sequences, FiniteSets, SequencesExt, Sublists, TLAPS,
        SequenceTheorems, FiniteSetTheorems

\* No element twice.
Distinct(s) == \A i, j \in 1..Len(s) : s[i] = s[j] => i = j

\* e is an element, by its place.
Has(s, e) == \E i \in 1..Len(s) : s[i] = e

-----------------------------------------------------------------------------
(* A non-empty set of naturals has a least element: the sets 0..n of its   *)
(* elements are finite, and strict inclusion is well founded on these.     *)
LEMMA LeastElement ==
  ASSUME NEW T \in SUBSET Nat, T # {}
  PROVE  \E m \in T : \A k \in T : m <= k
<1> DEFINE R == StrictSubsetOrdering(Nat)
           F == FiniteSubsetsOf(Nat)
           B == {0..n : n \in T}
<1>1. IsWellFoundedOn(R, F)
  BY FS_StrictSubsetOrderingWellFounded
<1>2. B \subseteq F /\ B # {}
  <2>1. \A n \in T : 0..n \in SUBSET Nat /\ IsFiniteSet(0..n)
    BY FS_Interval
  <2> QED BY <2>1 DEF FiniteSubsetsOf
<1>3. PICK b \in B : \A c \in B : <<c, b>> \notin R
  <2> HIDE DEF R, F, B
  <2> QED BY <1>1, <1>2, WFMin
<1>4. PICK m \in T : b = 0..m
  BY <1>3
<1>5. ASSUME NEW k \in T, k < m
      PROVE  FALSE
  <2>1. <<0..k, 0..m>> \notin R
    BY <1>3, <1>4
  <2>2. 0..k \in SUBSET Nat /\ 0..m \in SUBSET Nat
    OBVIOUS
  <2>3. 0..k \subseteq 0..m
    BY <1>5
  <2>4. m \in 0..m /\ m \notin 0..k
    BY <1>5
  <2>5. 0..k # 0..m
    BY <2>4
  <2> QED BY <2>1, <2>2, <2>3, <2>5 DEF StrictSubsetOrdering
<1> QED BY <1>4, <1>5

\* Induction over the places of a sequence, as a statement about sets.
LEMMA IntervalInduction ==
  ASSUME NEW N \in Nat, NEW A, 0 \in A, \A i \in 1..N : i - 1 \in A => i \in A
  PROVE  0..N \subseteq A
<1> DEFINE B == (0..N) \ A
<1>1. SUFFICES ASSUME B # {} PROVE FALSE
  OBVIOUS
<1>2. B \in SUBSET Nat
  OBVIOUS
<1>3. PICK m \in B : \A k \in B : m <= k
  <2> HIDE DEF B
  <2> QED BY <1>1, <1>2, LeastElement
<1>4. m \in 1..N /\ m - 1 \in 0..N
  BY <1>3
<1>5. m - 1 \in A
  BY <1>3, <1>4
<1> QED BY <1>3, <1>4, <1>5

\* Min of the community modules is the least element, if there is one.
LEMMA MinIsLeast ==
  ASSUME NEW T \in SUBSET Nat, T # {}
  PROVE  Min(T) \in T /\ \A k \in T : Min(T) <= k
<1>1. \E m \in T : \A k \in T : m <= k
  BY LeastElement
<1>2. PICK m \in T : \A k \in T : m <= k
  BY <1>1
<1>3. Min(T) = CHOOSE x \in T : \A y \in T : x <= y
  BY DEF Min
<1> QED BY <1>1, <1>3

-----------------------------------------------------------------------------
LEMMA ToSetHas ==
  ASSUME NEW S, NEW s \in Seq(S), NEW e
  PROVE  e \in ToSet(s) <=> Has(s, e)
<1>1. DOMAIN s = 1..Len(s)
  BY LenProperties
<1> QED BY <1>1 DEF ToSet, Has

\* The form in which the models say it.
LEMMA DistinctByCardinality ==
  ASSUME NEW S, NEW s \in Seq(S)
  PROVE  Cardinality(ToSet(s)) = Len(s) <=> Distinct(s)
<1>1. s \in [1..Len(s) -> S] /\ DOMAIN s = 1..Len(s) /\ Len(s) \in Nat
  BY LenProperties
<1>2. s \in [1..Len(s) -> ToSet(s)]
  BY <1>1 DEF ToSet
<1>3. s \in Surjection(1..Len(s), ToSet(s))
  BY <1>1, <1>2 DEF ToSet, Surjection
<1>4. IsFiniteSet(1..Len(s)) /\ Cardinality(1..Len(s)) = Len(s)
  <2>1. /\ IsFiniteSet(1..Len(s))
        /\ Cardinality(1..Len(s)) = IF 1 > Len(s) THEN 0 ELSE Len(s) - 1 + 1
    BY <1>1, FS_Interval
  <2> QED BY <1>1, <2>1
<1>5. Cardinality(ToSet(s)) = Len(s) <=> s \in Injection(1..Len(s), ToSet(s))
  BY <1>3, <1>4, FS_Surjection
<1>6. s \in Injection(1..Len(s), ToSet(s)) <=> Distinct(s)
  BY <1>1, <1>2 DEF Injection, IsInjective, Distinct
<1> QED BY <1>5, <1>6

LEMMA AppendFacts ==
  ASSUME NEW S, NEW s \in Seq(S), NEW e \in S
  PROVE  /\ Append(s, e) \in Seq(S)
         /\ \A x : Has(Append(s, e), x) <=> Has(s, x) \/ x = e
         /\ Distinct(s) /\ ~Has(s, e) => Distinct(Append(s, e))
<1>1. /\ Append(s, e) \in Seq(S) /\ Len(Append(s, e)) = Len(s) + 1
      /\ \A i \in 1..Len(s) : Append(s, e)[i] = s[i]
      /\ Append(s, e)[Len(s) + 1] = e
  BY AppendProperties
<1>2. Len(s) \in Nat
  BY LenProperties
<1> QED BY <1>1, <1>2 DEF Has, Distinct

LEMMA ConcatFacts ==
  ASSUME NEW S, NEW s \in Seq(S), NEW t \in Seq(S)
  PROVE  /\ s \o t \in Seq(S) /\ Len(s \o t) = Len(s) + Len(t)
         /\ \A x : Has(s \o t, x) <=> Has(s, x) \/ Has(t, x)
<1>1. /\ s \o t \in Seq(S) /\ Len(s \o t) = Len(s) + Len(t)
      /\ \A i \in 1..(Len(s) + Len(t)) :
           (s \o t)[i] = IF i <= Len(s) THEN s[i] ELSE t[i - Len(s)]
  BY ConcatProperties
<1>2. Len(s) \in Nat /\ Len(t) \in Nat
  BY LenProperties
<1> DEFINE u == s \o t
<1> HIDE DEF u
<1>3. ASSUME NEW x, Has(u, x)
      PROVE  Has(s, x) \/ Has(t, x)
  <2>1. PICK i \in 1..Len(u) : u[i] = x
    BY <1>3 DEF Has
  <2>2. i <= Len(s) \/ i - Len(s) \in 1..Len(t)
    BY <1>1, <1>2 DEF u
  <2> QED BY <2>1, <2>2, <1>1, <1>2 DEF Has, u
<1>4. ASSUME NEW x, Has(s, x)
      PROVE  Has(u, x)
  BY <1>4, <1>1, <1>2 DEF Has, u
<1>5. ASSUME NEW x, Has(t, x)
      PROVE  Has(u, x)
  <2>1. PICK i \in 1..Len(t) : t[i] = x
    BY <1>5 DEF Has
  <2>2. i + Len(s) \in 1..Len(u) /\ u[i + Len(s)] = t[i]
    BY <1>1, <1>2 DEF u
  <2> QED BY <2>1, <2>2 DEF Has
<1> QED BY <1>1, <1>3, <1>4, <1>5 DEF u

LEMMA TailFacts ==
  ASSUME NEW S, NEW s \in Seq(S), s # <<>>
  PROVE  /\ Tail(s) \in Seq(S) /\ Head(s) \in S /\ Head(s) = s[1]
         /\ Len(Tail(s)) = Len(s) - 1 /\ Len(s) \in Nat \ {0}
         /\ \A i \in 1..Len(Tail(s)) : Tail(s)[i] = s[i + 1]
         /\ Has(s, Head(s))
         /\ \A x : Has(s, x) <=> Has(Tail(s), x) \/ x = Head(s)
         /\ Distinct(s) => Distinct(Tail(s)) /\ ~Has(Tail(s), Head(s))
<1>1. /\ Tail(s) \in Seq(S) /\ Head(s) \in S /\ Len(Tail(s)) = Len(s) - 1
      /\ \A i \in 1..Len(Tail(s)) : Tail(s)[i] = s[i + 1]
  BY HeadTailProperties
<1>2. Len(s) \in Nat \ {0} /\ Head(s) = s[1]
  BY LenProperties, EmptySeq
<1>3. Has(s, Head(s))
  BY <1>2 DEF Has
<1>4. ASSUME NEW x
      PROVE  Has(s, x) <=> Has(Tail(s), x) \/ x = Head(s)
  <2>1. ASSUME Has(s, x) PROVE Has(Tail(s), x) \/ x = Head(s)
    <3>1. PICK i \in 1..Len(s) : s[i] = x
      BY <2>1 DEF Has
    <3>2. CASE i = 1 BY <3>1, <3>2, <1>2
    <3>3. CASE i # 1
      <4>1. i - 1 \in 1..Len(Tail(s)) /\ Tail(s)[i - 1] = s[i]
        BY <3>1, <3>3, <1>1, <1>2
      <4> QED BY <4>1, <3>1 DEF Has
    <3> QED BY <3>2, <3>3
  <2>2. ASSUME Has(Tail(s), x) PROVE Has(s, x)
    BY <2>2, <1>1, <1>2 DEF Has
  <2> QED BY <2>1, <2>2, <1>3
<1>5. ASSUME Distinct(s)
      PROVE  Distinct(Tail(s)) /\ ~Has(Tail(s), Head(s))
  BY <1>5, <1>1, <1>2 DEF Distinct, Has
<1> QED BY <1>1, <1>2, <1>3, <1>4, <1>5

\* A sequence with one more element, wherever it is put: at place m.
InsertedAt(s, t, m, e) ==
  /\ Len(t) = Len(s) + 1 /\ m \in 1..Len(t)
  /\ \A i \in 1..Len(t) : t[i] = IF i < m THEN s[i] ELSE IF i = m THEN e ELSE s[i - 1]

LEMMA InsertedFacts ==
  ASSUME NEW S, NEW s \in Seq(S), NEW t \in Seq(S), NEW e, NEW m, InsertedAt(s, t, m, e)
  PROVE  /\ \A x : Has(t, x) <=> Has(s, x) \/ x = e
         /\ Distinct(s) /\ ~Has(s, e) => Distinct(t)
<1>1. Len(s) \in Nat /\ Len(t) = Len(s) + 1 /\ m \in 1..Len(t)
  BY LenProperties DEF InsertedAt
<1>2. \A i \in 1..Len(t) : /\ i < m => t[i] = s[i] /\ i \in 1..Len(s)
                           /\ i = m => t[i] = e
                           /\ i > m => t[i] = s[i - 1] /\ i - 1 \in 1..Len(s)
  BY <1>1 DEF InsertedAt
<1>3. ASSUME NEW x
      PROVE  Has(t, x) <=> Has(s, x) \/ x = e
  <2>1. ASSUME Has(t, x) PROVE Has(s, x) \/ x = e
    BY <2>1, <1>1, <1>2 DEF Has
  <2>2. ASSUME Has(s, x) PROVE Has(t, x)
    <3>1. PICK i \in 1..Len(s) : s[i] = x
      BY <2>2 DEF Has
    <3>2. CASE i < m
      BY SMTT(30), <3>1, <3>2, <1>1, <1>2 DEF Has
    <3>3. CASE i >= m
      <4>1. i + 1 \in 1..Len(t) /\ t[i + 1] = s[i]
        BY <3>1, <3>3, <1>1, <1>2
      <4> QED BY <4>1, <3>1 DEF Has
    <3> QED BY <3>2, <3>3, <1>1
  <2>3. ASSUME x = e PROVE Has(t, x)
    BY <2>3, <1>1, <1>2 DEF Has
  <2> QED BY <2>1, <2>2, <2>3
<1>4. ASSUME Distinct(s), ~Has(s, e), NEW i \in 1..Len(t), NEW j \in 1..Len(t),
             t[i] = t[j], i < j
      PROVE  FALSE
  <2>1. CASE i < m /\ j < m  BY <2>1, <1>1, <1>2, <1>4 DEF Distinct
  <2>2. CASE i < m /\ j = m  BY <2>2, <1>1, <1>2, <1>4 DEF Has
  <2>3. CASE i < m /\ j > m  BY SMTT(30), <2>3, <1>1, <1>2, <1>4 DEF Distinct
  <2>4. CASE i = m /\ j > m  BY <2>4, <1>1, <1>2, <1>4 DEF Has
  <2>5. CASE i > m /\ j > m  BY <2>5, <1>1, <1>2, <1>4 DEF Distinct
  <2> QED BY <2>1, <2>2, <2>3, <2>4, <2>5, <1>1, <1>4
<1>5. Distinct(s) /\ ~Has(s, e) => Distinct(t)
  BY <1>4, <1>1 DEF Distinct
<1> QED BY <1>3, <1>5

LEMMA ConsFacts ==
  ASSUME NEW S, NEW s \in Seq(S), NEW e \in S
  PROVE  <<e>> \o s \in Seq(S) /\ InsertedAt(s, <<e>> \o s, 1, e)
<1>1. <<e>> \in Seq(S) /\ Len(<<e>>) = 1 /\ <<e>>[1] = e
  OBVIOUS
<1>2. Len(s) \in Nat
  BY LenProperties
<1>3. /\ <<e>> \o s \in Seq(S) /\ Len(<<e>> \o s) = 1 + Len(s)
      /\ \A i \in 1..(1 + Len(s)) : (<<e>> \o s)[i] = IF i <= 1 THEN <<e>>[i] ELSE s[i - 1]
  <2> HIDE <1>1
  <2> QED BY <1>1, ConcatProperties
<1> QED BY <1>1, <1>2, <1>3 DEF InsertedAt

LEMMA InsertAtFacts ==
  ASSUME NEW S, NEW s \in Seq(S), NEW e \in S, NEW m \in 1..Len(s)
  PROVE  InsertAt(s, m, e) \in Seq(S) /\ InsertedAt(s, InsertAt(s, m, e), m, e)
<1> DEFINE a == SubSeq(s, 1, m - 1)
           b == <<e>>
           c == SubSeq(s, m, Len(s))
<1>1. Len(s) \in Nat /\ \A i \in 1..Len(s) : s[i] \in S
  BY LenProperties, ElementOfSeq
<1>2. /\ a \in Seq(S) /\ Len(a) = m - 1
      /\ \A i \in 1..(m - 1) : a[i] = s[i]
  BY <1>1, SubSeqProperties
<1>3. b \in Seq(S) /\ Len(b) = 1 /\ b[1] = e
  OBVIOUS
<1>4. /\ c \in Seq(S) /\ Len(c) = Len(s) - m + 1
      /\ \A i \in 1..(Len(s) - m + 1) : c[i] = s[m + i - 1]
  BY <1>1, SubSeqProperties
<1> HIDE DEF a, b, c
<1>5. /\ a \o b \in Seq(S) /\ Len(a \o b) = m
      /\ \A i \in 1..m : (a \o b)[i] = IF i < m THEN s[i] ELSE e
  <2>1. /\ a \o b \in Seq(S) /\ Len(a \o b) = Len(a) + Len(b)
        /\ \A i \in 1..(Len(a) + Len(b)) :
             (a \o b)[i] = IF i <= Len(a) THEN a[i] ELSE b[i - Len(a)]
    BY <1>2, <1>3, ConcatProperties
  <2> QED BY <2>1, <1>1, <1>2, <1>3
<1> DEFINE d == a \o b
<1> HIDE DEF d
<1>6. /\ d \in Seq(S) /\ Len(d) = m
      /\ \A i \in 1..m : d[i] = IF i < m THEN s[i] ELSE e
  BY <1>5 DEF d
<1>7. /\ d \o c \in Seq(S) /\ Len(d \o c) = Len(d) + Len(c)
      /\ \A i \in 1..(Len(d) + Len(c)) :
           (d \o c)[i] = IF i <= Len(d) THEN d[i] ELSE c[i - Len(d)]
  BY <1>4, <1>6, ConcatProperties
<1>8. InsertAt(s, m, e) = d \o c
  BY DEF InsertAt, a, b, c, d
<1>9. InsertedAt(s, d \o c, m, e)
  BY <1>1, <1>4, <1>6, <1>7 DEF InsertedAt
<1> QED BY <1>7, <1>8, <1>9

\* A sequence without the element at place m.
LEMMA RemoveAtFacts ==
  ASSUME NEW S, NEW s \in Seq(S), NEW m \in 1..Len(s)
  PROVE  /\ RemoveAt(s, m) \in Seq(S)
         /\ InsertedAt(RemoveAt(s, m), s, m, s[m])
<1> DEFINE a == SubSeq(s, 1, m - 1)
           c == SubSeq(s, m + 1, Len(s))
<1>1. Len(s) \in Nat /\ \A i \in 1..Len(s) : s[i] \in S
  BY LenProperties, ElementOfSeq
<1>2. /\ a \in Seq(S) /\ Len(a) = m - 1
      /\ \A i \in 1..(m - 1) : a[i] = s[i]
  BY <1>1, SubSeqProperties
<1>4. /\ c \in Seq(S) /\ Len(c) = Len(s) - m
      /\ \A i \in 1..(Len(s) - m) : c[i] = s[m + i]
  BY <1>1, SubSeqProperties
<1> HIDE DEF a, c
<1>7. /\ a \o c \in Seq(S) /\ Len(a \o c) = Len(a) + Len(c)
      /\ \A i \in 1..(Len(a) + Len(c)) :
           (a \o c)[i] = IF i <= Len(a) THEN a[i] ELSE c[i - Len(a)]
  BY <1>2, <1>4, ConcatProperties
<1>8. RemoveAt(s, m) = a \o c
  BY DEF RemoveAt, a, c
<1> DEFINE d == a \o c
<1> HIDE DEF d
<1>9. Len(s) = Len(d) + 1
  BY <1>1, <1>2, <1>4, <1>7 DEF d
<1>10. ASSUME NEW i \in 1..Len(s), i < m
       PROVE  s[i] = d[i]
  BY <1>10, <1>1, <1>2, <1>4, <1>7 DEF d
<1>11. ASSUME NEW i \in 1..Len(s), i > m
       PROVE  s[i] = d[i - 1]
  <2>1. i - 1 \in 1..(Len(a) + Len(c)) /\ ~(i - 1 <= Len(a))
    BY <1>11, <1>1, <1>2, <1>4
  <2>2. d[i - 1] = c[i - 1 - Len(a)] /\ i - m \in 1..(Len(s) - m)
    BY <2>1, <1>7, <1>1, <1>11 DEF d
  <2>3. i - 1 - Len(a) = i - m /\ m + (i - m) = i
    BY <1>1, <1>2
  <2> QED BY <2>2, <2>3, <1>4
<1>12. InsertedAt(d, s, m, s[m])
  BY <1>1, <1>9, <1>10, <1>11 DEF InsertedAt
<1> QED BY <1>7, <1>8, <1>12 DEF d

\* What is left of a list when the link at place m goes.
LEMMA RemovedFacts ==
  ASSUME NEW S, NEW s \in Seq(S), NEW t \in Seq(S), NEW m, InsertedAt(t, s, m, s[m]),
         Distinct(s)
  PROVE  /\ Distinct(t) /\ ~Has(t, s[m])
         /\ \A x : Has(t, x) <=> Has(s, x) /\ x # s[m]
<1>1. Len(t) \in Nat /\ Len(s) = Len(t) + 1 /\ m \in 1..Len(s)
  BY LenProperties DEF InsertedAt
<1>2. \A i \in 1..Len(t) : /\ i < m => t[i] = s[i]
                           /\ i >= m => t[i] = s[i + 1]
                           /\ i \in 1..Len(s) /\ i + 1 \in 1..Len(s)
  <2>1. ASSUME NEW i \in 1..Len(t), i < m
        PROVE  t[i] = s[i]
    BY <2>1, <1>1 DEF InsertedAt
  <2>2. ASSUME NEW i \in 1..Len(t), i >= m
        PROVE  t[i] = s[i + 1]
    <3>1. i + 1 \in 1..Len(s) /\ ~(i + 1 < m) /\ i + 1 # m /\ (i + 1) - 1 = i
      BY <2>2, <1>1
    <3>2. s[i + 1] = t[(i + 1) - 1]
      BY <3>1 DEF InsertedAt
    <3> QED BY <3>1, <3>2
  <2> QED BY <2>1, <2>2, <1>1
<1>3. ~Has(t, s[m])
  BY <1>1, <1>2 DEF Has, Distinct
<1>4. ASSUME NEW i \in 1..Len(t), NEW j \in 1..Len(t), t[i] = t[j], i < j
      PROVE  FALSE
  <2>1. CASE i < m /\ j < m   BY SMTT(30), <2>1, <1>1, <1>2, <1>4 DEF Distinct
  <2>2. CASE i < m /\ j >= m  BY <2>2, <1>1, <1>2, <1>4 DEF Distinct
  <2>3. CASE i >= m          BY <2>3, <1>1, <1>2, <1>4 DEF Distinct
  <2> QED BY <2>1, <2>2, <2>3, <1>1
<1>5. Distinct(t)
  BY <1>4, <1>1 DEF Distinct
<1>6. \A x : Has(s, x) <=> Has(t, x) \/ x = s[m]
  BY InsertedFacts
<1> QED BY <1>3, <1>5, <1>6

\* RemoveFirst of the community modules, where e is in the list.
LEMMA RemoveFirstFacts ==
  ASSUME NEW S, NEW s \in Seq(S), NEW e, Has(s, e)
  PROVE  /\ RemoveFirst(s, e) \in Seq(S)
         /\ \E m \in 1..Len(s) : s[m] = e /\ InsertedAt(RemoveFirst(s, e), s, m, s[m])
<1> DEFINE I == {i \in 1..Len(s) : s[i] = e}
<1>1. I \in SUBSET Nat /\ I # {}
  BY LenProperties DEF Has
<1>2. Min(I) \in I
  BY <1>1, MinIsLeast
<1>3. SelectInSeq(s, LAMBDA v : v = e) = Min(I)
  BY <1>1 DEF SelectInSeq
<1>4. RemoveFirst(s, e) = RemoveAt(s, Min(I))
  BY <1>3 DEF RemoveFirst, Has
<1> QED BY <1>2, <1>4, RemoveAtFacts

-----------------------------------------------------------------------------
(* Without takes out what it says and keeps everything else, in order.      *)

\* The values of the function that Without recurs on.
Unrolls(f, q, S) ==
  /\ f[0] = <<>>
  /\ \A i \in 1..Len(q) : f[i] = IF q[i] \in S THEN f[i - 1] ELSE Append(f[i - 1], q[i])

LEMMA WithoutUnrolls ==
  ASSUME NEW T, NEW q \in Seq(T), NEW S
  PROVE  \E f : Unrolls(f, q, S) /\ Without(q, S) = f[Len(q)]
<1> DEFINE Step(g, i) == IF i = 0 THEN <<>>
                         ELSE IF q[i] \in S THEN g[i - 1] ELSE Append(g[i - 1], q[i])
           Upto(n) == \E g : g = [i \in 0..n |-> Step(g, i)]
           f == CHOOSE g : g = [i \in 0..Len(q) |-> Step(g, i)]
<1>1. Len(q) \in Nat
  BY LenProperties
<1>2. Upto(0)
  <2>1. [i \in 0..0 |-> <<>>] = [i \in 0..0 |-> Step([j \in 0..0 |-> <<>>], i)]
    OBVIOUS
  <2> QED BY <2>1
<1>3. ASSUME NEW n \in Nat, Upto(n)
      PROVE  Upto(n + 1)
  <2>1. PICK g : g = [i \in 0..n |-> Step(g, i)]
    BY <1>3
  <2>2. \A i \in 0..n : g[i] = Step(g, i)
    <3> HIDE DEF Step
    <3> QED BY <2>1
  <2> DEFINE h == [i \in 0..(n + 1) |-> IF i = n + 1 THEN Step(g, i) ELSE g[i]]
  <2>3. \A i \in 0..(n + 1) : h[i] = Step(h, i)
    <3> TAKE i \in 0..(n + 1)
    <3>1. CASE i = n + 1
      <4>1. h[i] = Step(g, i) /\ i - 1 \in 0..n /\ h[i - 1] = g[i - 1] /\ i # 0
        BY <3>1
      <4> QED BY <4>1
    <3>2. CASE i # n + 1
      <4>1. i \in 0..n /\ h[i] = g[i] /\ g[i] = Step(g, i)
        BY <2>2, <3>2
      <4>2. CASE i = 0
        BY <4>1, <4>2
      <4>3. CASE i # 0
        <5>1. i - 1 \in 0..n /\ h[i - 1] = g[i - 1]
          BY <3>2, <4>3
        <5> HIDE DEF h
        <5> QED BY <4>1, <4>3, <5>1
      <4> QED BY <4>2, <4>3
    <3> QED BY <3>1, <3>2
  <2>4. h = [i \in 0..(n + 1) |-> Step(h, i)]
    <3>1. h = [i \in 0..(n + 1) |-> h[i]]
      OBVIOUS
    <3> HIDE DEF h, Step
    <3> QED BY <2>3, <3>1
  <2> HIDE DEF h
  <2> QED BY <2>4
<1>4. Upto(Len(q))
  <2> DEFINE A == {n \in Nat : Upto(n)}
  <2> HIDE DEF Upto
  <2>1. 0 \in A
    BY <1>2
  <2>2. ASSUME NEW i \in 1..Len(q), i - 1 \in A
        PROVE  i \in A
    <3>1. i - 1 \in Nat /\ (i - 1) + 1 = i
      OBVIOUS
    <3>2. Upto((i - 1) + 1)
      BY <1>3, <2>2, <3>1
    <3> QED BY <3>1, <3>2
  <2> HIDE DEF A
  <2>3. 0..Len(q) \subseteq A
    BY <1>1, <2>1, <2>2, IntervalInduction
  <2> QED BY <1>1, <2>3 DEF A
<1>5. f = [i \in 0..Len(q) |-> Step(f, i)]
  BY <1>4
<1>6. Without(q, S) = f[Len(q)]
  BY DEF Without
<1> HIDE DEF f
<1>7. \A i \in 0..Len(q) : f[i] = Step(f, i)
  <2> HIDE DEF Step
  <2> QED BY <1>5
<1>8. Unrolls(f, q, S)
  BY <1>1, <1>7 DEF Unrolls
<1> QED BY <1>6, <1>8

LEMMA WithoutFacts ==
  ASSUME NEW T, NEW q \in Seq(T), NEW S
  PROVE  /\ Without(q, S) \in Seq(T)
         /\ \A x : Has(Without(q, S), x) <=> Has(q, x) /\ x \notin S
<1>1. PICK f : Unrolls(f, q, S) /\ Without(q, S) = f[Len(q)]
  BY WithoutUnrolls
<1>2. Len(q) \in Nat /\ \A i \in 1..Len(q) : q[i] \in T
  BY LenProperties, ElementOfSeq
<1> DEFINE Good(i) == /\ f[i] \in Seq(T)
                      /\ \A x : Has(f[i], x) <=> (\E j \in 1..i : q[j] = x) /\ x \notin S
           A == {i \in 0..Len(q) : Good(i)}
<1>3. 0 \in A
  <2>1. f[0] = <<>> /\ 0 \in 0..Len(q)
    BY <1>1, <1>2 DEF Unrolls
  <2>2. f[0] \in Seq(T) /\ \A x : ~Has(f[0], x)
    BY <2>1 DEF Has
  <2>3. \A x : ~(\E j \in 1..0 : q[j] = x)
    OBVIOUS
  <2>4. Good(0)
    BY <2>2, <2>3
  <2> QED BY <2>1, <2>4
<1>4. ASSUME NEW i \in 1..Len(q), i - 1 \in A
      PROVE  i \in A
  <2>1. \A x : (\E j \in 1..i : q[j] = x) <=> (\E j \in 1..(i - 1) : q[j] = x) \/ x = q[i]
    OBVIOUS
  <2>2. f[i] = IF q[i] \in S THEN f[i - 1] ELSE Append(f[i - 1], q[i])
    BY <1>1 DEF Unrolls
  <2>3. Good(i - 1)
    BY <1>4
  <2>4. CASE q[i] \in S
    <3>1. Good(i)
      BY <2>1, <2>2, <2>3, <2>4
    <3> QED BY <1>2, <3>1
  <2>5. CASE q[i] \notin S
    <3>1. /\ f[i] \in Seq(T)
          /\ \A x : Has(f[i], x) <=> Has(f[i - 1], x) \/ x = q[i]
      BY <1>2, <2>2, <2>3, <2>5, AppendFacts
    <3>2. Good(i)
      BY <2>1, <2>3, <2>5, <3>1
    <3> QED BY <1>2, <3>2
  <2> QED BY <2>4, <2>5
<1> HIDE DEF A
<1>5. 0..Len(q) \subseteq A
  BY <1>2, <1>3, <1>4, IntervalInduction
<1>6. Good(Len(q))
  <2> HIDE DEF Good
  <2>1. Len(q) \in A
    BY <1>2, <1>5
  <2> QED BY <2>1 DEF A
<1> QED BY <1>1, <1>6 DEF Has

LEMMA WithoutAppend ==
  ASSUME NEW T, NEW q \in Seq(T), NEW S, NEW c \in T
  PROVE  Without(Append(q, c), S) = IF c \in S THEN Without(q, S) ELSE Append(Without(q, S), c)
<1> DEFINE r == Append(q, c)
<1>1. /\ r \in Seq(T) /\ Len(r) = Len(q) + 1 /\ r[Len(q) + 1] = c
      /\ \A i \in 1..Len(q) : r[i] = q[i]
      /\ Len(q) \in Nat
  BY AppendProperties, LenProperties
<1> HIDE DEF r
<1>2. PICK f : Unrolls(f, q, S) /\ Without(q, S) = f[Len(q)]
  BY WithoutUnrolls
<1>3. PICK g : Unrolls(g, r, S) /\ Without(r, S) = g[Len(r)]
  BY <1>1, WithoutUnrolls
<1> DEFINE A == {i \in 0..Len(q) : f[i] = g[i]}
<1>4. 0 \in A
  BY <1>1, <1>2, <1>3 DEF Unrolls
<1>5. ASSUME NEW i \in 1..Len(q), i - 1 \in A
      PROVE  i \in A
  BY <1>1, <1>2, <1>3, <1>5 DEF Unrolls
<1> HIDE DEF A
<1>6. 0..Len(q) \subseteq A
  BY <1>1, <1>4, <1>5, IntervalInduction
<1>7. f[Len(q)] = g[Len(q)]
  BY <1>1, <1>6 DEF A
<1>8. g[Len(q) + 1] = IF c \in S THEN g[Len(q)] ELSE Append(g[Len(q)], c)
  <2>1. Len(q) + 1 \in 1..Len(r) /\ (Len(q) + 1) - 1 = Len(q)
    BY <1>1
  <2> QED BY <1>1, <1>3, <2>1 DEF Unrolls
<1> QED BY <1>1, <1>2, <1>3, <1>7, <1>8 DEF r

LEMMA WithoutCons ==
  ASSUME NEW T, NEW q \in Seq(T), NEW S, NEW c \in T
  PROVE  Without(<<c>> \o q, S) = IF c \in S THEN Without(q, S) ELSE <<c>> \o Without(q, S)
<1> DEFINE r == <<c>> \o q
<1>1. /\ r \in Seq(T) /\ Len(r) = Len(q) + 1 /\ r[1] = c
      /\ \A i \in 1..Len(q) : r[i + 1] = q[i]
      /\ Len(q) \in Nat
  BY ConsFacts, LenProperties DEF InsertedAt
<1> HIDE DEF r
<1>2. PICK f : Unrolls(f, q, S) /\ Without(q, S) = f[Len(q)]
  BY WithoutUnrolls
<1>3. PICK g : Unrolls(g, r, S) /\ Without(r, S) = g[Len(r)]
  BY <1>1, WithoutUnrolls
<1> DEFINE A == {i \in 0..Len(q) : /\ f[i] \in Seq(T)
                                   /\ g[i + 1] = IF c \in S THEN f[i] ELSE <<c>> \o f[i]}
<1>4. 0 \in A
  <2>1. g[0] = <<>> /\ g[1] = IF c \in S THEN g[0] ELSE Append(g[0], c)
    <3>1. 1 \in 1..Len(r) /\ 1 - 1 = 0
      BY <1>1
    <3>2. g[1] = IF r[1] \in S THEN g[1 - 1] ELSE Append(g[1 - 1], r[1])
      BY <1>3, <3>1 DEF Unrolls
    <3> QED BY <1>1, <1>3, <3>1, <3>2 DEF Unrolls
  <2>2. f[0] = <<>>
    BY <1>2 DEF Unrolls
  <2>3. Append(<<>>, c) = <<c>> \o <<>>
    OBVIOUS
  <2>4. f[0] \in Seq(T) /\ g[0 + 1] = IF c \in S THEN f[0] ELSE <<c>> \o f[0]
    BY <2>1, <2>2, <2>3
  <2> QED BY <1>1, <2>4
<1>5. ASSUME NEW i \in 1..Len(q), i - 1 \in A
      PROVE  i \in A
  <2>1. f[i] = IF q[i] \in S THEN f[i - 1] ELSE Append(f[i - 1], q[i])
    BY <1>2 DEF Unrolls
  <2>2. g[i + 1] = IF q[i] \in S THEN g[i] ELSE Append(g[i], q[i])
    <3>1. i + 1 \in 1..Len(r) /\ (i + 1) - 1 = i /\ r[i + 1] = q[i]
      BY <1>1
    <3> QED BY <1>3, <3>1 DEF Unrolls
  <2>3. /\ f[i - 1] \in Seq(T) /\ q[i] \in T
        /\ g[i] = IF c \in S THEN f[i - 1] ELSE <<c>> \o f[i - 1]
    <3>1. (i - 1) + 1 = i
      OBVIOUS
    <3> QED BY <1>1, <1>5, <3>1, ElementOfSeq
  <2>4. Append(<<c>> \o f[i - 1], q[i]) = <<c>> \o Append(f[i - 1], q[i])
    BY SMTT(30), <2>3
  <2>5. f[i] \in Seq(T)
    BY <2>1, <2>3, AppendProperties
  <2>6. g[i + 1] = IF c \in S THEN f[i] ELSE <<c>> \o f[i]
    BY <2>1, <2>2, <2>3, <2>4
  <2> QED BY <1>1, <2>5, <2>6
<1> HIDE DEF A
<1>6. 0..Len(q) \subseteq A
  BY <1>1, <1>4, <1>5, IntervalInduction
<1>7. g[Len(q) + 1] = IF c \in S THEN f[Len(q)] ELSE <<c>> \o f[Len(q)]
  BY <1>1, <1>6 DEF A
<1> QED BY <1>1, <1>2, <1>3, <1>7 DEF r

\* What is left of a sequence without repetitions has none.
LEMMA WithoutDistinct ==
  ASSUME NEW T, NEW q \in Seq(T), NEW S, Distinct(q)
  PROVE  Distinct(Without(q, S))
<1>1. PICK f : Unrolls(f, q, S) /\ Without(q, S) = f[Len(q)]
  BY WithoutUnrolls
<1>2. Len(q) \in Nat /\ \A i \in 1..Len(q) : q[i] \in T
  BY LenProperties, ElementOfSeq
<1> DEFINE Good(i) == /\ f[i] \in Seq(T) /\ Distinct(f[i])
                      /\ \A x : Has(f[i], x) => \E j \in 1..i : q[j] = x
           A == {i \in 0..Len(q) : Good(i)}
<1>3. 0 \in A
  <2>1. f[0] = <<>> /\ 0 \in 0..Len(q)
    BY <1>1, <1>2 DEF Unrolls
  <2>2. f[0] \in Seq(T) /\ Distinct(f[0]) /\ \A x : ~Has(f[0], x)
    BY <2>1 DEF Has, Distinct
  <2>3. Good(0)
    BY <2>2
  <2> QED BY <2>1, <2>3
<1>4. ASSUME NEW i \in 1..Len(q), i - 1 \in A
      PROVE  i \in A
  <2>1. f[i] = IF q[i] \in S THEN f[i - 1] ELSE Append(f[i - 1], q[i])
    BY <1>1 DEF Unrolls
  <2>2. Good(i - 1)
    BY <1>4
  <2>3. \A x : Has(f[i - 1], x) => \E j \in 1..i : q[j] = x /\ j # i
    BY <2>2
  <2>4. CASE q[i] \in S
    <3>1. Good(i)
      BY <2>1, <2>2, <2>3, <2>4
    <3> QED BY <1>2, <3>1
  <2>5. CASE q[i] \notin S
    <3>1. ~Has(f[i - 1], q[i])
      BY <2>3, <1>2 DEF Distinct
    <3>2. /\ f[i] \in Seq(T) /\ Distinct(f[i])
          /\ \A x : Has(f[i], x) <=> Has(f[i - 1], x) \/ x = q[i]
      BY <1>2, <2>1, <2>2, <2>5, <3>1, AppendFacts
    <3>3. Good(i)
      BY <2>3, <3>2
    <3> QED BY <1>2, <3>3
  <2> QED BY <2>4, <2>5
<1> HIDE DEF A
<1>5. 0..Len(q) \subseteq A
  BY <1>2, <1>3, <1>4, IntervalInduction
<1>6. Good(Len(q))
  <2> HIDE DEF Good
  <2>1. Len(q) \in A
    BY <1>2, <1>5
  <2> QED BY <2>1 DEF A
<1> QED BY <1>1, <1>6

\* Two sequences without repetitions that have nothing in common, one after the other.
LEMMA ConcatDistinct ==
  ASSUME NEW S, NEW s \in Seq(S), NEW t \in Seq(S), Distinct(s), Distinct(t),
         \A x : ~(Has(s, x) /\ Has(t, x))
  PROVE  Distinct(s \o t)
<1> DEFINE u == s \o t
           m == Len(s)
           n == Len(t)
<1>1. /\ Len(u) = m + n
      /\ \A i \in 1..(m + n) : u[i] = IF i <= m THEN s[i] ELSE t[i - m]
  BY ConcatProperties
<1>2. m \in Nat /\ n \in Nat
  BY LenProperties
<1>3. \A i \in 1..m, j \in 1..n : s[i] # t[j]
  BY DEF Has
<1>4. /\ \A i, j \in 1..m : s[i] = s[j] => i = j
      /\ \A i, j \in 1..n : t[i] = t[j] => i = j
  BY DEF Distinct
<1> HIDE DEF u, m, n
<1>5. ASSUME NEW i \in 1..(m + n), NEW j \in 1..(m + n), u[i] = u[j]
      PROVE  i = j
  <2>1. CASE i <= m /\ j <= m
    BY <1>1, <1>2, <1>4, <1>5, <2>1
  <2>2. CASE i > m /\ j > m
    <3>1. i - m \in 1..n /\ j - m \in 1..n /\ t[i - m] = t[j - m]
      BY <1>1, <1>2, <1>5, <2>2
    <3> QED BY <3>1, <1>2, <1>4
  <2>3. CASE i <= m /\ j > m
    <3>1. i \in 1..m /\ j - m \in 1..n /\ s[i] = t[j - m]
      BY <1>1, <1>2, <1>5, <2>3
    <3> QED BY <3>1, <1>3
  <2>4. CASE i > m /\ j <= m
    <3>1. j \in 1..m /\ i - m \in 1..n /\ s[j] = t[i - m]
      BY <1>1, <1>2, <1>5, <2>4
    <3> QED BY <3>1, <1>3
  <2> QED BY <1>2, <2>1, <2>2, <2>3, <2>4
<1>6. Distinct(u)
  BY <1>1, <1>5 DEF Distinct
<1> QED BY <1>6 DEF u
=============================================================================
