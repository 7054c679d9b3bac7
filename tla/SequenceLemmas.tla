---------------------------- MODULE SequenceLemmas ----------------------------
(***************************************************************************)
(* Lemmas about the operators on sequences the modules are built from, and *)
(* about counting the entries of a list from which one is taken.           *)
(***************************************************************************)
EXTENDS Integers, SequencesExt, Selection, SequenceTheorems, FiniteSetTheorems,
        WellFoundedInduction, TLAPS

(* A set of naturals has a least element.                                   *)
LEMMA LeastNat ==
  ASSUME NEW S \in SUBSET Nat, S # {}
  PROVE  \E m \in S : \A k \in S : m <= k
<1>1. PICK m \in S : \A k \in S : << k, m >> \notin OpToRel(<, Nat)
  BY WFMin, NatLessThanWellFounded, Zenon
<1>2. \A k \in S : ~(k < m)
  BY <1>1, Zenon DEF OpToRel
<1>3. \A k \in S : m <= k
  BY <1>2
<1> QED
  BY <1>3

(* Min picks it: SelectInSeq finds the first entry that passes its test.    *)
LEMMA MinMember ==
  ASSUME NEW S \in SUBSET Nat, S # {}
  PROVE  Min(S) \in S /\ \A k \in S : Min(S) <= k
BY LeastNat DEF Min

(* Concatenation, with the lengths named.                                   *)
LEMMA ConcatSeq ==
  ASSUME NEW T, NEW a \in Seq(T), NEW b \in Seq(T),
         NEW k \in Nat, NEW l \in Nat, Len(a) = k, Len(b) = l
  PROVE  /\ a \o b \in Seq(T) /\ Len(a \o b) = k + l
         /\ \A j \in 1 .. k : (a \o b)[j] = a[j]
         /\ \A j \in 1 .. l : (a \o b)[k + j] = b[j]
<1>1. /\ a \o b \in Seq(T) /\ Len(a \o b) = Len(a) + Len(b)
      /\ \A j \in 1 .. Len(a) + Len(b) : (a \o b)[j] = IF j <= Len(a) THEN a[j] ELSE b[j - Len(a)]
  BY ConcatProperties
<1>2. /\ Len(a \o b) = k + l
      /\ \A j \in 1 .. k + l : (a \o b)[j] = IF j <= k THEN a[j] ELSE b[j - k]
  BY <1>1
<1>3. ASSUME NEW j \in 1 .. l PROVE (a \o b)[k + j] = b[j]
  <2>1. k + j \in 1 .. k + l /\ ~(k + j <= k) /\ (k + j) - k = j
    OBVIOUS
  <2>2. QED
    BY <1>2, <2>1
<1>4. QED
  BY <1>1, <1>2, <1>3

(* RemoveAt takes out one entry, and those behind it move up.               *)
LEMMA RemoveAtSeq ==
  ASSUME NEW T, NEW q \in Seq(T), NEW i \in 1 .. Len(q)
  PROVE  /\ RemoveAt(q, i) \in Seq(T) /\ Len(RemoveAt(q, i)) = Len(q) - 1
         /\ \A j \in 1 .. Len(q) - 1 :
              RemoveAt(q, i)[j] = IF j < i THEN q[j] ELSE q[j + 1]
<1> DEFINE n == Len(q)
           a == SubSeq(q, 1, i - 1)
           b == SubSeq(q, i + 1, n)
<1>1. n \in Nat /\ i \in 1 .. n /\ \A j \in 1 .. n : q[j] \in T
  BY LenProperties, ElementOfSeq
<1>2. a \in Seq(T) /\ Len(a) = i - 1 /\ \A j \in 1 .. i - 1 : a[j] = q[j]
  <2>1. \A j \in 1 .. i - 1 : q[j] \in T
    BY <1>1
  <2>2. /\ SubSeq(q, 1, i - 1) \in Seq(T)
        /\ Len(SubSeq(q, 1, i - 1)) = IF 1 <= i - 1 THEN (i - 1) - 1 + 1 ELSE 0
        /\ \A j \in 1 .. (i - 1) - 1 + 1 : SubSeq(q, 1, i - 1)[j] = q[1 + j - 1]
    BY <1>1, <2>1, SubSeqProperties
  <2>3. QED
    BY <1>1, <2>2
<1>3. b \in Seq(T) /\ Len(b) = n - i /\ \A j \in 1 .. n - i : b[j] = q[j + i]
  <2>1. \A j \in i + 1 .. n : q[j] \in T
    BY <1>1
  <2>2. /\ SubSeq(q, i + 1, n) \in Seq(T)
        /\ Len(SubSeq(q, i + 1, n)) = IF i + 1 <= n THEN n - (i + 1) + 1 ELSE 0
        /\ \A j \in 1 .. n - (i + 1) + 1 : SubSeq(q, i + 1, n)[j] = q[(i + 1) + j - 1]
    BY <1>1, <2>1, SubSeqProperties
  <2>3. QED
    BY <1>1, <2>2
<1>4. RemoveAt(q, i) = a \o b
  BY DEF RemoveAt
<1> HIDE DEF n, a, b
<1>5. /\ a \o b \in Seq(T) /\ Len(a \o b) = (i - 1) + (n - i)
      /\ \A j \in 1 .. i - 1 : (a \o b)[j] = a[j]
      /\ \A j \in 1 .. n - i : (a \o b)[(i - 1) + j] = b[j]
  <2>1. PICK k \in Nat, l \in Nat : k = i - 1 /\ l = n - i
    BY <1>1
  <2>2. Len(a) = k /\ Len(b) = l
    BY <1>2, <1>3, <2>1
  <2>3. /\ a \o b \in Seq(T) /\ Len(a \o b) = k + l
        /\ \A j \in 1 .. k : (a \o b)[j] = a[j]
        /\ \A j \in 1 .. l : (a \o b)[k + j] = b[j]
    <3>1. a \in Seq(T) /\ b \in Seq(T)
      BY <1>2, <1>3
    <3>2. a \o b \in Seq(T)
      BY <2>2, <3>1, ConcatSeq
    <3>3. Len(a \o b) = k + l
      BY <2>2, <3>1, ConcatSeq
    <3>4. \A j \in 1 .. k : (a \o b)[j] = a[j]
      BY <2>2, <3>1, ConcatSeq
    <3>5. \A j \in 1 .. l : (a \o b)[k + j] = b[j]
      BY <2>2, <3>1, ConcatSeq, SMTT(20)
    <3>6. QED
      BY <3>2, <3>3, <3>4, <3>5
  <2>4. QED
    BY <2>1, <2>3
<1>6. ASSUME NEW j \in 1 .. n - 1
      PROVE  (a \o b)[j] = IF j < i THEN q[j] ELSE q[j + 1]
  <2>2. CASE j < i
    BY <1>1, <1>2, <1>5, <2>2
  <2>3. CASE ~(j < i)
    <3>1. PICK k \in 1 .. n - i : j = (i - 1) + k
      <4>1. j - (i - 1) \in 1 .. n - i /\ j = (i - 1) + (j - (i - 1))
        BY <1>1, <2>3
      <4>2. QED
        BY <4>1
    <3>2. (a \o b)[j] = b[k] /\ b[k] = q[k + i]
      BY <1>3, <1>5, <3>1, Zenon
    <3>3. k + i = j + 1
      BY <1>1, <3>1
    <3>4. QED
      BY <2>3, <3>2, <3>3
  <2>4. QED
    BY <2>2, <2>3
<1>7. QED
  BY <1>1, <1>4, <1>5, <1>6 DEF n

(* All but the first entry.                                                 *)
LEMMA DropFirst ==
  ASSUME NEW T, NEW q \in Seq(T), NEW n \in Nat, Len(q) = n + 1
  PROVE  /\ SubSeq(q, 2, Len(q)) \in Seq(T) /\ Len(SubSeq(q, 2, Len(q))) = n
         /\ \A k \in 1 .. n : SubSeq(q, 2, Len(q))[k] = q[k + 1]
<1>1. \A k \in 2 .. n + 1 : q[k] \in T
  BY ElementOfSeq
<1>2. /\ SubSeq(q, 2, n + 1) \in Seq(T)
      /\ Len(SubSeq(q, 2, n + 1)) = IF 2 <= n + 1 THEN (n + 1) - 2 + 1 ELSE 0
      /\ \A k \in 1 .. (n + 1) - 2 + 1 : SubSeq(q, 2, n + 1)[k] = q[2 + k - 1]
  BY <1>1, SubSeqProperties
<1>3. \A k \in 1 .. n : k \in 1 .. (n + 1) - 2 + 1 /\ 2 + k - 1 = k + 1
  OBVIOUS
<1>4. (IF 2 <= n + 1 THEN (n + 1) - 2 + 1 ELSE 0) = n
  OBVIOUS
<1> QED
  BY <1>2, <1>3, <1>4

(* InsertAt undoes RemoveAt.                                                *)
LEMMA InsertAtSeq ==
  ASSUME NEW T, NEW q \in Seq(T), NEW e \in T, NEW i \in 1 .. Len(q) + 1
  PROVE  /\ InsertAt(q, i, e) \in Seq(T) /\ Len(InsertAt(q, i, e)) = Len(q) + 1
         /\ InsertAt(q, i, e)[i] = e
         /\ \A j \in 1 .. Len(q) :
              q[j] = IF j < i THEN InsertAt(q, i, e)[j] ELSE InsertAt(q, i, e)[j + 1]
<1> DEFINE n == Len(q)
           a == SubSeq(q, 1, i - 1)
           b == SubSeq(q, i, n)
<1>1. n \in Nat /\ i \in 1 .. n + 1 /\ \A j \in 1 .. n : q[j] \in T
  BY LenProperties, ElementOfSeq
<1>2. a \in Seq(T) /\ Len(a) = i - 1 /\ \A j \in 1 .. i - 1 : a[j] = q[j]
  <2>1. \A j \in 1 .. i - 1 : q[j] \in T
    BY <1>1
  <2>2. /\ SubSeq(q, 1, i - 1) \in Seq(T)
        /\ Len(SubSeq(q, 1, i - 1)) = IF 1 <= i - 1 THEN (i - 1) - 1 + 1 ELSE 0
        /\ \A j \in 1 .. (i - 1) - 1 + 1 : SubSeq(q, 1, i - 1)[j] = q[1 + j - 1]
    BY <1>1, <2>1, SubSeqProperties
  <2>3. QED
    BY <1>1, <2>2
<1>3. b \in Seq(T) /\ Len(b) = n - i + 1 /\ \A j \in 1 .. n - i + 1 : b[j] = q[j + i - 1]
  <2>1. \A j \in i .. n : q[j] \in T
    BY <1>1
  <2>2. /\ SubSeq(q, i, n) \in Seq(T)
        /\ Len(SubSeq(q, i, n)) = IF i <= n THEN n - i + 1 ELSE 0
        /\ \A j \in 1 .. n - i + 1 : SubSeq(q, i, n)[j] = q[i + j - 1]
    BY <1>1, <2>1, SubSeqProperties
  <2>3. QED
    BY <1>1, <2>2
<1> DEFINE c == Append(a, e)
<1>4. InsertAt(q, i, e) = c \o b
  BY <1>2, AppendIsConcat DEF InsertAt
<1>5. /\ c \in Seq(T) /\ Len(c) = Len(a) + 1
      /\ \A j \in 1 .. Len(a) : c[j] = a[j]
      /\ c[Len(a) + 1] = e
  BY <1>2, AppendProperties
<1>6. /\ c \in Seq(T) /\ Len(c) = i
      /\ \A j \in 1 .. i - 1 : c[j] = q[j]
      /\ c[i] = e
  BY <1>1, <1>2, <1>5
<1> HIDE DEF n, a, b, c
<1>7. /\ c \o b \in Seq(T) /\ Len(c \o b) = i + (n - i + 1)
      /\ \A j \in 1 .. i : (c \o b)[j] = c[j]
      /\ \A j \in 1 .. n - i + 1 : (c \o b)[i + j] = b[j]
  <2>1. PICK k \in Nat, l \in Nat : k = i /\ l = n - i + 1
    BY <1>1
  <2>2. Len(c) = k /\ Len(b) = l
    BY <1>3, <1>6, <2>1
  <2>3. /\ c \o b \in Seq(T) /\ Len(c \o b) = k + l
        /\ \A j \in 1 .. k : (c \o b)[j] = c[j]
        /\ \A j \in 1 .. l : (c \o b)[k + j] = b[j]
    <3>1. c \in Seq(T) /\ b \in Seq(T)
      BY <1>3, <1>6
    <3>2. c \o b \in Seq(T)
      BY <2>2, <3>1, ConcatSeq
    <3>3. Len(c \o b) = k + l
      BY <2>2, <3>1, ConcatSeq
    <3>4. \A j \in 1 .. k : (c \o b)[j] = c[j]
      BY <2>2, <3>1, ConcatSeq
    <3>5. ASSUME NEW j \in 1 .. l PROVE (c \o b)[k + j] = b[j]
      <4>1. (c \o b)[k + j] = IF k + j <= k THEN c[k + j] ELSE b[(k + j) - k]
        BY <2>2, <3>1, ConcatProperties
      <4>2. QED
        BY <4>1
    <3>6. QED
      BY <3>2, <3>3, <3>4, <3>5
  <2>4. QED
    BY <2>1, <2>3
<1>8. ASSUME NEW j \in 1 .. n
      PROVE  q[j] = IF j < i THEN (c \o b)[j] ELSE (c \o b)[j + 1]
  <2>1. CASE j < i
    BY <1>1, <1>6, <1>7, <2>1
  <2>2. CASE ~(j < i)
    <3>1. PICK k \in 1 .. n - i + 1 : j + 1 = i + k
      <4>1. (j + 1) - i \in 1 .. n - i + 1 /\ j + 1 = i + ((j + 1) - i)
        BY <1>1, <2>2
      <4>2. QED
        BY <4>1
    <3>2. (c \o b)[j + 1] = q[k + i - 1] /\ k + i - 1 = j
      BY <1>1, <1>3, <1>7, <3>1
    <3>3. QED
      BY <2>2, <3>2
  <2>3. QED
    BY <2>1, <2>2
<1>9. (c \o b)[i] = e
  BY <1>1, <1>6, <1>7
<1>10. QED
  BY <1>1, <1>4, <1>7, <1>8, <1>9 DEF n

(* Front takes the last entry.                                              *)
LEMMA FrontSeq ==
  ASSUME NEW T, NEW q \in Seq(T), q # << >>
  PROVE  /\ Front(q) \in Seq(T) /\ Len(Front(q)) = Len(q) - 1 /\ Len(q) \in Nat \ {0}
         /\ \A j \in 1 .. Len(q) - 1 : Front(q)[j] = q[j]
         /\ Last(q) = q[Len(q)] /\ Last(q) \in T
<1> DEFINE n == Len(q)
<1>1. n \in Nat \ {0} /\ \A j \in 1 .. n : q[j] \in T
  BY EmptySeq, LenProperties, ElementOfSeq
<1>2. /\ SubSeq(q, 1, n - 1) \in Seq(T)
      /\ Len(SubSeq(q, 1, n - 1)) = IF 1 <= n - 1 THEN (n - 1) - 1 + 1 ELSE 0
      /\ \A j \in 1 .. (n - 1) - 1 + 1 : SubSeq(q, 1, n - 1)[j] = q[1 + j - 1]
  BY <1>1, SubSeqProperties
<1> DEFINE f == SubSeq(q, 1, n - 1)
<1>3. Front(q) = f /\ Last(q) = q[n]
  BY DEF Front, Last
<1> HIDE DEF n
<1>4. /\ f \in Seq(T) /\ Len(f) = n - 1
      /\ \A j \in 1 .. n - 1 : f[j] = q[j]
  BY <1>1, <1>2
<1> HIDE DEF f
<1>5. QED
  BY <1>1, <1>3, <1>4 DEF n

(* Counting the entries of a list of n, with and without the one at i.      *)
LEMMA CountWithout ==
  ASSUME NEW n \in Nat, NEW i \in 1 .. n,
         NEW A \in SUBSET (1 .. n), NEW B \in SUBSET (1 .. n - 1),
         \A j \in 1 .. n - 1 : j \in B <=> (IF j < i THEN j ELSE j + 1) \in A
  PROVE  /\ IsFiniteSet(A) /\ IsFiniteSet(B)
         /\ Cardinality(A) \in Nat /\ Cardinality(B) \in Nat
         /\ Cardinality(A) = Cardinality(B) + (IF i \in A THEN 1 ELSE 0)
<1> DEFINE up(j) == IF j < i THEN j ELSE j + 1
           f == [j \in B |-> up(j)]
<1>1. IsFiniteSet(A) /\ IsFiniteSet(B)
  <2>1. IsFiniteSet(1 .. n) /\ IsFiniteSet(1 .. n - 1)
    BY FS_Interval
  <2>2. QED
    BY <2>1, FS_Subset, Zenon
<1>2. f \in Bijection(B, A \ {i})
  <2>1. f \in [B -> A \ {i}]
    OBVIOUS
  <2>2. \A x, y \in B : f[x] = f[y] => x = y
    OBVIOUS
  <2>3. ASSUME NEW k \in A \ {i} PROVE \E j \in B : f[j] = k
    <3>1. CASE k < i
      <4>1. k \in B /\ f[k] = k
        BY <2>3, <3>1
      <4>2. QED
        BY <4>1
    <3>2. CASE ~(k < i)
      <4>1. k - 1 \in 1 .. n - 1 /\ up(k - 1) = k
        BY <2>3, <3>2
      <4>2. k - 1 \in B /\ f[k - 1] = k
        BY <2>3, <4>1
      <4>3. QED
        BY <4>2
    <3>3. QED
      BY <3>1, <3>2
  <2> HIDE DEF f
  <2>4. QED
    BY <2>1, <2>2, <2>3 DEF Bijection, Injection, Surjection, IsInjective
<1>3. Cardinality(A \ {i}) = Cardinality(B)
  BY <1>1, <1>2, FS_Bijection DEF ExistsBijection
<1>4. Cardinality(A \ {i}) = IF i \in A THEN Cardinality(A) - 1 ELSE Cardinality(A)
  BY <1>1, FS_RemoveElement
<1>5. Cardinality(A) \in Nat /\ Cardinality(B) \in Nat
  BY <1>1, FS_CardinalityType
<1>6. QED
  BY <1>1, <1>3, <1>4, <1>5

(* The function Keep is built from exists.                                  *)
KeepFrom(f, q, S, n) ==
  f = [i \in 0 .. n |->
        IF i = 0 THEN << >> ELSE IF q[i] \in S THEN Append(f[i - 1], q[i]) ELSE f[i - 1]]

(* The function Keep is defined by exists.                                  *)
LEMMA KeptExists ==
  ASSUME NEW q, NEW S, NEW n \in Nat
  PROVE  \E f : KeepFrom(f, q, S, n)
<1> USE DEF KeepFrom
<1> DEFINE Has(m) == \E f : f = [i \in 0 .. m |->
             IF i = 0 THEN << >> ELSE IF q[i] \in S THEN Append(f[i - 1], q[i]) ELSE f[i - 1]]
           bad == {m \in Nat : ~Has(m)}
<1>1. Has(0)
  <2> DEFINE f == [i \in 0 .. 0 |-> << >>]
  <2>1. f = [i \in 0 .. 0 |->
           IF i = 0 THEN << >> ELSE IF q[i] \in S THEN Append(f[i - 1], q[i]) ELSE f[i - 1]]
    OBVIOUS
  <2> QED
    BY <2>1
<1>2. ASSUME NEW m \in Nat, Has(m)
      PROVE  Has(m + 1)
  <2>1. PICK f : f = [i \in 0 .. m |->
           IF i = 0 THEN << >> ELSE IF q[i] \in S THEN Append(f[i - 1], q[i]) ELSE f[i - 1]]
    BY <1>2
  <2> DEFINE g == [i \in 0 .. m + 1 |->
             IF i = m + 1 THEN IF q[m + 1] \in S THEN Append(f[m], q[m + 1]) ELSE f[m]
             ELSE f[i]]
  <2>2. \A i \in 0 .. m + 1 :
          g[i] = IF i = 0 THEN << >> ELSE IF q[i] \in S THEN Append(g[i - 1], q[i]) ELSE g[i - 1]
    <3>1. TAKE i \in 0 .. m + 1
    <3>2. CASE i = m + 1
      <4>1. i # 0 /\ i - 1 = m /\ m \in 0 .. m + 1 /\ m # m + 1
        BY <3>2
      <4>2. g[i - 1] = f[m]
        BY <4>1
      <4> QED
        BY <3>2, <4>1, <4>2
    <3>3. CASE i = 0
      BY <2>1, <3>3
    <3>4. CASE i \in 1 .. m
      <4>1. i \in 0 .. m /\ i # 0 /\ i # m + 1 /\ i - 1 \in 0 .. m /\ i - 1 # m + 1
        BY <3>4
      <4>2. g[i] = f[i] /\ g[i - 1] = f[i - 1]
        BY <4>1
      <4>3. f[i] = IF q[i] \in S THEN Append(f[i - 1], q[i]) ELSE f[i - 1]
        BY <2>1, <4>1
      <4> QED
        BY <4>1, <4>2, <4>3
    <3> QED
      BY <3>2, <3>3, <3>4
  <2>3. g = [i \in 0 .. m + 1 |->
           IF i = 0 THEN << >> ELSE IF q[i] \in S THEN Append(g[i - 1], q[i]) ELSE g[i - 1]]
    <3>1. g = [i \in 0 .. m + 1 |-> g[i]]
      OBVIOUS
    <3> HIDE DEF g
    <3> QED
      BY <2>2, <3>1
  <2> QED
    BY <2>3
<1> HIDE DEF Has
<1>3. bad = {}
  <2> SUFFICES ASSUME bad # {} PROVE FALSE
    OBVIOUS
  <2>1. PICK m \in bad : \A k \in bad : m <= k
    BY LeastNat
  <2>2. m # 0
    BY <1>1, <2>1
  <2>3. m - 1 \in Nat /\ ~(m <= m - 1)
    BY <2>1, <2>2
  <2>4. Has(m - 1)
    BY <2>1, <2>3
  <2> QED
    BY <1>2, <2>1, <2>3, <2>4
<1> QED
  BY <1>3 DEF Has

(* An increasing map from the places of the result to the places of what is *)
(* kept.                                                                    *)
Embeds(e, q, n, S, r) ==
  /\ e \in [1 .. Len(r) -> 1 .. n]
  /\ \A k, l \in 1 .. Len(r) : k < l => e[k] < e[l]
  /\ \A k \in 1 .. Len(r) : r[k] = q[e[k]] /\ q[e[k]] \in S
  /\ \A i \in 1 .. n : q[i] \in S => \E k \in 1 .. Len(r) : e[k] = i

(* One more entry is kept, or not.                                          *)
LEMMA KeepOne ==
  ASSUME NEW T, NEW q \in Seq(T), NEW S, NEW r \in Seq(T), NEW e,
         NEW n \in Nat, n + 1 <= Len(q), Embeds(e, q, n, S, r)
  PROVE  LET s == IF q[n + 1] \in S THEN Append(r, q[n + 1]) ELSE r
         IN  s \in Seq(T) /\ \E d : Embeds(d, q, n + 1, S, s)
<1>1. Len(q) \in Nat /\ n + 1 \in 1 .. Len(q) /\ q[n + 1] \in T
  BY LenProperties, ElementOfSeq
<1>2. CASE q[n + 1] \notin S
  <2>1. e \in [1 .. Len(r) -> 1 .. n + 1]
    BY DEF Embeds
  <2>2. \A i \in 1 .. n + 1 : q[i] \in S => \E k \in 1 .. Len(r) : e[k] = i
    BY <1>2 DEF Embeds
  <2>3. Embeds(e, q, n + 1, S, r)
    BY <2>1, <2>2 DEF Embeds
  <2> QED
    BY <1>2, <2>3
<1>3. CASE q[n + 1] \in S
  <2> DEFINE s == Append(r, q[n + 1])
  <2>1. PICK m \in Nat : Len(r) = m
    BY LenProperties
  <2>2. /\ s \in Seq(T) /\ Len(s) = m + 1 /\ s[m + 1] = q[n + 1]
        /\ \A k \in 1 .. m : s[k] = r[k]
    BY <1>1, <2>1, AppendProperties
  <2> DEFINE d == [k \in 1 .. m + 1 |-> IF k = m + 1 THEN n + 1 ELSE e[k]]
  <2>3. \A k \in 1 .. m : d[k] = e[k] /\ e[k] \in 1 .. n
    BY <2>1 DEF Embeds
  <2>4. d[m + 1] = n + 1 /\ d \in [1 .. m + 1 -> 1 .. n + 1]
    <3>1. m + 1 \in 1 .. m + 1 /\ n + 1 \in 1 .. n + 1 /\ \A j \in 1 .. n : j \in 1 .. n + 1
      OBVIOUS
    <3>2. \A k \in 1 .. m + 1 : k = m + 1 \/ k \in 1 .. m
      OBVIOUS
    <3>3. \A k \in 1 .. m + 1 : d[k] \in 1 .. n + 1
      BY <2>3, <3>1, <3>2
    <3> QED
      BY <3>1, <3>3
  <2> HIDE DEF d, s
  <2>5. \A k, l \in 1 .. m + 1 : k < l => d[k] < d[l]
    <3>1. TAKE k, l \in 1 .. m + 1
    <3>2. CASE l = m + 1 /\ k < l
      <4>1. k \in 1 .. m
        BY <3>2
      <4> QED
        BY <2>3, <2>4, <3>2, <4>1
    <3>3. CASE l # m + 1 /\ k < l
      <4>1. k \in 1 .. m /\ l \in 1 .. m
        BY <3>3
      <4>2. e[k] < e[l]
        BY <2>1, <3>3, <4>1 DEF Embeds
      <4> QED
        BY <2>3, <4>1, <4>2
    <3> QED
      BY <3>2, <3>3
  <2>6. \A k \in 1 .. m + 1 : s[k] = q[d[k]] /\ q[d[k]] \in S
    <3>1. TAKE k \in 1 .. m + 1
    <3>2. CASE k = m + 1
      BY <1>3, <2>2, <2>4, <3>2
    <3>3. CASE k \in 1 .. m
      BY <2>1, <2>2, <2>3, <3>3 DEF Embeds
    <3> QED
      BY <3>2, <3>3
  <2>7. \A i \in 1 .. n + 1 : q[i] \in S => \E k \in 1 .. m + 1 : d[k] = i
    <3>1. TAKE i \in 1 .. n + 1
    <3>2. CASE i = n + 1
      BY <2>4, <3>2
    <3>3. CASE i \in 1 .. n /\ q[i] \in S
      <4>1. PICK k \in 1 .. m : e[k] = i
        BY <2>1, <3>3 DEF Embeds
      <4> QED
        BY <2>3, <4>1
    <3> QED
      BY <3>2, <3>3
  <2>8. Embeds(d, q, n + 1, S, s)
    BY <2>2, <2>4, <2>5, <2>6, <2>7 DEF Embeds
  <2> QED
    BY <1>3, <2>2, <2>8 DEF s
<1> QED
  BY <1>2, <1>3

(* Keep is a subsequence with all that is to be kept.                       *)
LEMMA KeepSeq ==
  ASSUME NEW T, NEW q \in Seq(T), NEW S
  PROVE  Keep(q, S) \in Seq(T) /\ \E e : Embeds(e, q, Len(q), S, Keep(q, S))
<1> DEFINE n == Len(q)
           f == CHOOSE f : KeepFrom(f, q, S, n)
<1>1. n \in Nat
  BY LenProperties
<1>0. KeepFrom(f, q, S, n)
  BY <1>1, KeptExists
<1>3. Keep(q, S) = f[n]
  BY DEF Keep, KeepFrom
<1>2. f = [i \in 0 .. n |->
          IF i = 0 THEN << >> ELSE IF q[i] \in S THEN Append(f[i - 1], q[i]) ELSE f[i - 1]]
  BY <1>0 DEF KeepFrom
<1> HIDE DEF f, n
<1> DEFINE Good(m) == f[m] \in Seq(T) /\ \E e : Embeds(e, q, m, S, f[m])
           bad == {m \in 0 .. n : ~Good(m)}
<1>4. Good(0)
  <2>1. f[0] = << >>
    BY <1>1, <1>2
  <2> DEFINE e == [k \in 1 .. 0 |-> 0]
  <2>2. Len(<< >>) = 0 /\ << >> \in Seq(T)
    BY EmptySeq
  <2>3. Embeds(e, q, 0, S, << >>)
    BY <2>2 DEF Embeds
  <2> QED
    BY <2>1, <2>2, <2>3
<1>5. ASSUME NEW m \in Nat, m + 1 <= n, Good(m)
      PROVE  Good(m + 1)
  <2>1. f[m + 1] = IF q[m + 1] \in S THEN Append(f[m], q[m + 1]) ELSE f[m]
    <3>1. m + 1 \in 0 .. n /\ m + 1 # 0 /\ (m + 1) - 1 = m
      BY <1>1, <1>5
    <3> QED
      BY <1>2, <3>1
  <2>2. PICK e : Embeds(e, q, m, S, f[m])
    BY <1>5
  <2> QED
    BY <1>5, <2>1, <2>2, KeepOne DEF n
<1> HIDE DEF Good
<1>6. bad = {}
  <2> SUFFICES ASSUME bad # {} PROVE FALSE
    OBVIOUS
  <2>0. bad \in SUBSET Nat
    BY <1>1
  <2>1. PICK m \in bad : \A k \in bad : m <= k
    BY <2>0, LeastNat
  <2>2. m # 0
    BY <1>4, <2>1
  <2>3. m - 1 \in Nat /\ ~(m <= m - 1) /\ m - 1 \in 0 .. n /\ (m - 1) + 1 = m /\ m <= n
    BY <1>1, <2>1, <2>2
  <2>4. Good(m - 1)
    BY <2>1, <2>3
  <2> QED
    BY <1>5, <2>1, <2>3, <2>4
<1>7. Good(n)
  BY <1>1, <1>6
<1> QED
  BY <1>3, <1>7 DEF Good, n

(* It is no longer than what it is taken from.                              *)
LEMMA KeepShorter ==
  ASSUME NEW T, NEW q \in Seq(T), NEW S
  PROVE  Len(Keep(q, S)) \in Nat /\ Len(Keep(q, S)) <= Len(q)
<1>1. PICK m \in Nat, n \in Nat : m = Len(Keep(q, S)) /\ n = Len(q)
  BY KeepSeq, LenProperties
<1>2. PICK e : Embeds(e, q, n, S, Keep(q, S))
  BY <1>1, KeepSeq
<1>3. /\ e \in [1 .. m -> 1 .. n]
      /\ \A k, l \in 1 .. m : k < l => e[k] < e[l]
  BY <1>1, <1>2 DEF Embeds
<1> DEFINE low == {k \in 1 .. m : e[k] < k}
<1>4. low = {}
  <2> SUFFICES ASSUME low # {} PROVE FALSE
    OBVIOUS
  <2>1. low \in SUBSET Nat
    OBVIOUS
  <2>2. PICK k \in low : \A l \in low : k <= l
    BY <2>1, LeastNat
  <2>3. k \in 1 .. m /\ e[k] < k /\ e[k] \in 1 .. n
    BY <1>3, <2>2
  <2>4. k - 1 \in 1 .. m /\ k - 1 < k
    BY <2>3
  <2>5. e[k - 1] < e[k] /\ e[k - 1] \in 1 .. n
    BY <1>3, <2>3, <2>4
  <2>6. k - 1 \in low
    BY <2>3, <2>4, <2>5
  <2> QED
    BY <2>2, <2>3, <2>6
<1>5. CASE m = 0
  BY <1>1, <1>5
<1>6. CASE m # 0
  <2>1. m \in 1 .. m
    BY <1>6
  <2>2. e[m] \in 1 .. n /\ ~(e[m] < m)
    BY <1>3, <1>4, <2>1
  <2> QED
    BY <1>1, <2>2
<1> QED
  BY <1>5, <1>6

(* R puts the elements of S in one order.                                   *)
Orders(R, S) ==
  /\ \A a, b, c \in S : <<a, b>> \in R /\ <<b, c>> \in R => <<a, c>> \in R
  /\ \A a, b \in S : a # b => <<a, b>> \in R \/ <<b, a>> \in R

(* One of finitely many elements comes first.                               *)
LEMMA FirstExists ==
  ASSUME NEW S, IsFiniteSet(S), S # {}, NEW R, Orders(R, S)
  PROVE  \E m \in S : \A k \in S \ {m} : <<m, k>> \in R
<1> DEFINE HasFirst(T) == \E m \in T : \A k \in T \ {m} : <<m, k>> \in R
           bad == {n \in Nat : \E T \in SUBSET S :
                     IsFiniteSet(T) /\ Cardinality(T) = n + 1 /\ ~HasFirst(T)}
<1>1. /\ \A a, b, c \in S : <<a, b>> \in R /\ <<b, c>> \in R => <<a, c>> \in R
      /\ \A a, b \in S : a # b => <<a, b>> \in R \/ <<b, a>> \in R
  BY DEF Orders
<1>2. ASSUME NEW n \in Nat, NEW T \in SUBSET S, IsFiniteSet(T), Cardinality(T) = n + 1,
             \A U \in SUBSET S : IsFiniteSet(U) /\ Cardinality(U) = n /\ U # {} => HasFirst(U)
      PROVE  HasFirst(T)
  <2>1. PICK x : x \in T
    BY <1>2, FS_EmptySet
  <2> DEFINE U == T \ {x}
  <2>2. IsFiniteSet(U) /\ Cardinality(U) = n /\ U \in SUBSET S
    BY <1>2, <2>1, FS_RemoveElement
  <2>3. CASE U = {}
    BY <2>1, <2>3
  <2>4. CASE U # {}
    <3>1. HasFirst(U)
      BY <1>2, <2>2, <2>4
    <3>2. PICK m \in U : \A k \in U \ {m} : <<m, k>> \in R
      BY <3>1
    <3>3. CASE <<m, x>> \in R
      <4>1. m \in T /\ \A k \in T \ {m} : <<m, k>> \in R
        BY <3>2, <3>3
      <4> QED
        BY <4>1
    <3>4. CASE <<m, x>> \notin R
      <4>1. <<x, m>> \in R
        BY <1>1, <2>1, <3>2, <3>4
      <4>2. \A k \in T \ {x} : <<x, k>> \in R
        BY <1>1, <2>1, <3>2, <4>1
      <4> QED
        BY <2>1, <4>2
    <3> QED
      BY <3>3, <3>4
  <2> QED
    BY <2>3, <2>4
<1> HIDE DEF HasFirst
<1>3. bad = {}
  <2> SUFFICES ASSUME bad # {} PROVE FALSE
    OBVIOUS
  <2>1. bad \in SUBSET Nat
    OBVIOUS
  <2>2. PICK n \in bad : \A k \in bad : n <= k
    BY <2>1, LeastNat
  <2>3. PICK T \in SUBSET S : IsFiniteSet(T) /\ Cardinality(T) = n + 1 /\ ~HasFirst(T)
    BY <2>2
  <2>4. ASSUME NEW U \in SUBSET S, IsFiniteSet(U), Cardinality(U) = n, U # {}
        PROVE  HasFirst(U)
    <3>1. n # 0
      BY <2>4, FS_EmptySet
    <3>2. n - 1 \in Nat /\ (n - 1) + 1 = n /\ ~(n <= n - 1)
      BY <2>1, <3>1
    <3>3. n - 1 \notin bad
      BY <2>2, <3>2
    <3> QED
      BY <2>4, <3>2, <3>3
  <2> QED
    BY <1>2, <2>1, <2>3, <2>4
<1>4. PICK n \in Nat : Cardinality(S) = n + 1
  <2>1. Cardinality(S) \in Nat /\ Cardinality(S) # 0
    BY FS_CardinalityType, FS_EmptySet
  <2>2. Cardinality(S) - 1 \in Nat /\ Cardinality(S) = (Cardinality(S) - 1) + 1
    BY <2>1
  <2> QED
    BY <2>2
<1>5. n \notin bad
  BY <1>3
<1>6. HasFirst(S)
  BY <1>4, <1>5
<1> QED
  BY <1>6 DEF HasFirst

(* s lists the elements of S in the order R.                                *)
Lists(s, R, S) ==
  /\ s \in [1 .. Cardinality(S) -> S]
  /\ \A i, j \in DOMAIN s : i < j => <<s[i], s[j]>> \in R

(* The elements of a finite set can be listed in an order.                  *)
LEMMA ListExists ==
  ASSUME NEW S, IsFiniteSet(S), NEW R, Orders(R, S)
  PROVE  \E s : Lists(s, R, S)
<1> DEFINE Listed(T) == \E s : Lists(s, R, T)
           bad == {n \in Nat : \E T \in SUBSET S :
                     IsFiniteSet(T) /\ Cardinality(T) = n /\ ~Listed(T)}
<1>1. ASSUME NEW T \in SUBSET S, IsFiniteSet(T), Cardinality(T) = 0
      PROVE  Listed(T)
  <2>1. T = {}
    BY <1>1, FS_EmptySet
  <2> DEFINE s == [i \in 1 .. 0 |-> CHOOSE x \in T : TRUE]
  <2>2. Lists(s, R, T)
    BY <1>1, <2>1 DEF Lists
  <2> QED
    BY <2>2
<1>2. ASSUME NEW n \in Nat \ {0}, NEW T \in SUBSET S, IsFiniteSet(T), Cardinality(T) = n,
             \A U \in SUBSET S : IsFiniteSet(U) /\ Cardinality(U) = n - 1 => Listed(U)
      PROVE  Listed(T)
  <2>1. T # {} /\ Orders(R, T)
    BY <1>2, FS_EmptySet DEF Orders
  <2>2. PICK m \in T : \A k \in T \ {m} : <<m, k>> \in R
    BY <1>2, <2>1, FirstExists
  <2> DEFINE U == T \ {m}
  <2>3. IsFiniteSet(U) /\ Cardinality(U) = n - 1 /\ U \in SUBSET S
    BY <1>2, <2>2, FS_RemoveElement
  <2>4. PICK s : Lists(s, R, U)
    BY <1>2, <2>3
  <2>5. /\ s \in [1 .. n - 1 -> U]
        /\ \A i, j \in 1 .. n - 1 : i < j => <<s[i], s[j]>> \in R
    BY <2>3, <2>4 DEF Lists
  <2> DEFINE r == [i \in 1 .. n |-> IF i = 1 THEN m ELSE s[i - 1]]
  <2>6. ASSUME NEW i \in 1 .. n, i # 1
        PROVE  i - 1 \in 1 .. n - 1 /\ r[i] = s[i - 1] /\ r[i] \in U
    <3>1. i - 1 \in 1 .. n - 1
      BY <2>6
    <3>2. s[i - 1] \in U
      BY <2>5, <3>1
    <3> QED
      BY <2>6, <3>1, <3>2
  <2>7. r[1] = m /\ 1 \in 1 .. n
    OBVIOUS
  <2>8. r \in [1 .. n -> T]
    BY <2>2, <2>6, <2>7
  <2> HIDE DEF r
  <2>9. ASSUME NEW i \in 1 .. n, NEW j \in 1 .. n, i < j PROVE <<r[i], r[j]>> \in R
    <3>1. j # 1
      BY <2>9
    <3>2. CASE i = 1
      <4>1. r[j] \in T \ {m}
        BY <2>6, <3>1
      <4> QED
        BY <2>2, <2>7, <3>2, <4>1
    <3>3. CASE i # 1
      <4>1. i - 1 < j - 1
        BY <2>9
      <4> QED
        BY <2>5, <2>6, <3>1, <3>3, <4>1
    <3> QED
      BY <3>2, <3>3
  <2>10. Lists(r, R, T)
    BY <1>2, <2>8, <2>9 DEF Lists
  <2> QED
    BY <2>10
<1> HIDE DEF Listed
<1>3. bad = {}
  <2> SUFFICES ASSUME bad # {} PROVE FALSE
    OBVIOUS
  <2>1. bad \in SUBSET Nat
    OBVIOUS
  <2>2. PICK n \in bad : \A k \in bad : n <= k
    BY <2>1, LeastNat
  <2>3. PICK T \in SUBSET S : IsFiniteSet(T) /\ Cardinality(T) = n /\ ~Listed(T)
    BY <2>2
  <2>4. n # 0 /\ n \in Nat
    BY <1>1, <2>2, <2>3
  <2>5. n - 1 \in Nat /\ ~(n <= n - 1)
    BY <2>4
  <2>6. n - 1 \notin bad
    BY <2>2, <2>5
  <2>7. \A U \in SUBSET S : IsFiniteSet(U) /\ Cardinality(U) = n - 1 => Listed(U)
    BY <2>5, <2>6
  <2> QED
    BY <1>2, <2>3, <2>4, <2>7
<1>4. PICK n : n = Cardinality(S) /\ n \in Nat
  BY FS_CardinalityType
<1>5. n \notin bad
  BY <1>3
<1>6. Listed(S)
  BY <1>4, <1>5
<1> QED
  BY <1>6 DEF Listed

(* The members of a finite set of numbers, in their order.                  *)
Sorts(s, S) ==
  /\ s \in [1 .. Cardinality(S) -> S]
  /\ \A i, j \in DOMAIN s : i < j => s[i] < s[j]

(* The members can be sorted.                                               *)
LEMMA SortedExists ==
  ASSUME NEW S \in SUBSET Nat, IsFiniteSet(S)
  PROVE  \E s : Sorts(s, S)
<1> DEFINE R == {p \in S \X S : p[1] < p[2]}
<1>1. \A a, b \in S : <<a, b>> \in R <=> a < b
  OBVIOUS
<1> HIDE DEF R
<1>2. \A a, b \in S : a \in Nat /\ b \in Nat
  OBVIOUS
<1>3. Orders(R, S)
  BY <1>1, <1>2 DEF Orders
<1>4. PICK s : Lists(s, R, S)
  BY <1>3, ListExists
<1>5. Sorts(s, S)
  BY <1>1, <1>4 DEF Lists, Sorts
<1> QED
  BY <1>5
=============================================================================
