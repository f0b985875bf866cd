------------------------- MODULE OrderedIds_proofs -------------------------
(***************************************************************************)
(* ORDER BY id: a finite set of ids can be put into ascending and into     *)
(* descending order, and a list that has each of them once has them all.   *)
(* GoEmployees lists employees in ascending order of their ids and         *)
(* GoHistoryPages rows of sync_history in descending order.                *)
(***************************************************************************)
EXTENDS Integers, Sequences, FiniteSets, SequencesExt, FiniteSetTheorems, TLAPS

\* A list that has each element of a finite set at most once, and as many elements,
\* has them all.
LEMMA SeqsOfSet ==
    ASSUME NEW S, IsFiniteSet(S), NEW s \in SetToSeqs(S)
    PROVE  /\ s \in Seq(S) /\ Len(s) = Cardinality(S) /\ Cardinality(S) \in Nat
           /\ DOMAIN s = 1 .. Cardinality(S)
           /\ \A i, j \in DOMAIN s : i # j => s[i] # s[j]
           /\ \A x \in S : \E i \in DOMAIN s : s[i] = x
<1> DEFINE n == Cardinality(S)
           D == 1 .. n
<1>1. n \in Nat
  BY FS_CardinalityType
<1>2. IsFiniteSet(D) /\ Cardinality(D) = n
  BY <1>1, FS_Interval
<1>3. s \in [D -> S] /\ \A i, j \in D : i # j => s[i] # s[j]
  BY DEF SetToSeqs
<1>4. s \in Injection(D, S)
  BY <1>3 DEF Injection, IsInjective
<1>5. s \in Surjection(D, S)
  BY <1>2, <1>4, FS_Injection
<1>6. \A x \in S : \E i \in D : s[i] = x
  BY <1>5 DEF Surjection
<1>7. s \in Seq(S) /\ Len(s) = n
  BY <1>1, <1>3
<1> QED
  BY <1>1, <1>3, <1>6, <1>7

\* The elements up to an element are its rank; ranks are the positions of the
\* ascending order.
LEMMA AscendingExists ==
    ASSUME NEW S, S \subseteq Int, IsFiniteSet(S)
    PROVE  \E s \in SetToSeqs(S) : \A j, k \in DOMAIN s : j < k => s[j] < s[k]
<1> DEFINE n == Cardinality(S)
           D == 1 .. n
           upTo(x) == {y \in S : y <= x}
           rank == [x \in S |-> Cardinality(upTo(x))]
<1>1. n \in Nat
  BY FS_CardinalityType
<1>2. IsFiniteSet(D) /\ Cardinality(D) = n
  BY <1>1, FS_Interval
<1>3. ASSUME NEW x \in S
      PROVE  IsFiniteSet(upTo(x)) /\ Cardinality(upTo(x)) \in D
  <2>1. upTo(x) \in SUBSET S /\ x \in upTo(x)
    OBVIOUS
  <2>2. IsFiniteSet(upTo(x)) /\ Cardinality(upTo(x)) <= n
    BY <2>1, FS_Subset
  <2>3. Cardinality(upTo(x)) \in Nat
    BY <2>2, FS_CardinalityType
  <2>4. Cardinality(upTo(x)) # 0
    BY <2>1, <2>2, FS_EmptySet
  <2> QED
    BY <1>1, <2>2, <2>3, <2>4
<1>4. ASSUME NEW x \in S, NEW z \in S, x < z
      PROVE  Cardinality(upTo(x)) < Cardinality(upTo(z))
  <2>1. upTo(x) \in SUBSET upTo(z) /\ upTo(x) # upTo(z)
    <3>1. z \in upTo(z) /\ z \notin upTo(x)
      BY <1>4
    <3>2. \A y \in S : y <= x => y <= z
      BY <1>4
    <3> QED
      BY <3>1, <3>2
  <2>2. Cardinality(upTo(x)) <= Cardinality(upTo(z)) /\ Cardinality(upTo(x)) # Cardinality(upTo(z))
    BY <1>3, <2>1, FS_Subset
  <2>3. Cardinality(upTo(x)) \in Nat /\ Cardinality(upTo(z)) \in Nat
    BY <1>1, <1>3
  <2> QED
    BY <2>2, <2>3
<1>5. /\ rank \in [S -> D]
      /\ \A x, z \in S : x < z => rank[x] < rank[z]
  BY <1>3, <1>4
<1> HIDE DEF rank
<1>6. rank \in Injection(S, D)
  <2>1. \A x, z \in S : rank[x] = rank[z] => x = z
    BY <1>1, <1>5
  <2> QED
    BY <1>5, <2>1 DEF Injection, IsInjective
<1>7. rank \in Surjection(S, D)
  BY <1>2, <1>6, FS_Injection
<1>8. \A i \in D : \E x \in S : rank[x] = i
  BY <1>7 DEF Surjection
<1> DEFINE s == [i \in D |-> CHOOSE x \in S : rank[x] = i]
<1>9. s \in [D -> S] /\ \A i \in D : rank[s[i]] = i
  BY <1>8
<1> HIDE DEF s
<1>10. \A i, j \in D : i # j => s[i] # s[j]
  BY <1>9
<1>11. ASSUME NEW j \in D, NEW k \in D, j < k
       PROVE  s[j] < s[k]
  <2>1. s[j] \in S /\ s[k] \in S /\ s[j] \in Int /\ s[k] \in Int
    BY <1>9
  <2>2. rank[s[j]] < rank[s[k]]
    BY <1>9, <1>11
  <2>3. ~(s[k] < s[j]) /\ s[j] # s[k]
    BY <1>1, <1>5, <1>9, <1>11, <2>1, <2>2
  <2> QED
    BY <2>1, <2>3
<1>12. s \in SetToSeqs(S)
  BY <1>9, <1>10 DEF SetToSeqs
<1> QED
  BY <1>9, <1>11, <1>12

\* The descending order is the ascending one read backwards.
LEMMA DescendingExists ==
    ASSUME NEW S, S \subseteq Int, IsFiniteSet(S)
    PROVE  \E s \in SetToSeqs(S) : \A j, k \in DOMAIN s : j < k => s[j] > s[k]
<1>1. PICK up \in SetToSeqs(S) : \A j, k \in DOMAIN up : j < k => up[j] < up[k]
  BY AscendingExists
<1> DEFINE n == Cardinality(S)
           D == 1 .. n
           s == [i \in D |-> up[n + 1 - i]]
<1>2. n \in Nat
  BY FS_CardinalityType
<1>3. up \in [D -> S] /\ \A i, j \in D : i # j => up[i] # up[j]
  BY DEF SetToSeqs
<1>4. \A i \in D : n + 1 - i \in D
  BY <1>2
<1>5. s \in [D -> S] /\ \A i \in D : s[i] = up[n + 1 - i]
  BY <1>3, <1>4
<1> HIDE DEF s
<1>6. \A j, k \in D : j # k => s[j] # s[k]
  BY <1>2, <1>3, <1>4, <1>5
<1>7. ASSUME NEW j \in D, NEW k \in D, j < k
      PROVE  s[j] > s[k]
  <2>1. up[n + 1 - k] < up[n + 1 - j]
    BY <1>1, <1>2, <1>3, <1>4, <1>7
  <2> QED
    BY <1>5, <2>1
<1>8. s \in SetToSeqs(S)
  BY <1>5, <1>6 DEF SetToSeqs
<1> QED
  BY <1>5, <1>7, <1>8
=============================================================================
