------------------------------ MODULE Counting ------------------------------
(***************************************************************************)
(* Lemmas on finite sets that several proofs share.                        *)
(*                                                                         *)
(* Byte totals: the sum of the sizes of a set of blocks is the number of   *)
(* pairs of a block and one of its bytes, a column of pairs per block.     *)
(*                                                                         *)
(* Ranks: the i-th smallest of a set of numbers is the one with i - 1      *)
(* below it, and there is one way to list the set in ascending order.      *)
(***************************************************************************)
EXTENDS Subsequences, FiniteSetTheorems, WellFoundedInduction, TLAPS

-----------------------------------------------------------------------------
(* Byte totals.                                                            *)

\* A column is as large as its block.
LEMMA ColumnSize ==
  ASSUME NEW k, NEW n \in Nat
  PROVE  IsFiniteSet({k} \X (1..n)) /\ Cardinality({k} \X (1..n)) = n
  <1>1. IsFiniteSet({k}) /\ Cardinality({k}) = 1
    BY FS_Singleton
  <1>2. IsFiniteSet(1..n) /\ Cardinality(1..n) = n
    BY FS_Interval
  <1>3. /\ IsFiniteSet({k} \X (1..n))
        /\ Cardinality({k} \X (1..n)) = Cardinality({k}) * Cardinality(1..n)
    BY <1>1, <1>2, FS_Product
  <1> QED
    BY <1>1, <1>2, <1>3

LEMMA DisjointUnionSize ==
  ASSUME NEW R, NEW C, IsFiniteSet(R), IsFiniteSet(C), R \cap C = {}
  PROVE  IsFiniteSet(R \cup C) /\ Cardinality(R \cup C) = Cardinality(R) + Cardinality(C)
  <1>1. Cardinality(R) \in Nat /\ Cardinality(C) \in Nat
    BY FS_CardinalityType
  <1>2. Cardinality(R \cap C) = 0
    BY FS_EmptySet
  <1>3. /\ IsFiniteSet(R \cup C)
        /\ Cardinality(R \cup C) = Cardinality(R) + Cardinality(C) - Cardinality(R \cap C)
    BY FS_Union
  <1> QED
    BY <1>1, <1>2, <1>3

\* Replacing one key's column of bytes changes the sum by the difference.
LEMMA ColumnUpdate ==
  ASSUME NEW K, NEW k \in K, NEW f, NEW g, f[k] \in Nat, g[k] \in Nat,
         \A j \in K : j # k => g[j] = f[j],
         IsFiniteSet(UNION {{j} \X (1..f[j]) : j \in K})
  PROVE  LET old == UNION {{j} \X (1..f[j]) : j \in K}
             new == UNION {{j} \X (1..g[j]) : j \in K}
         IN  IsFiniteSet(new) /\ Cardinality(new) = Cardinality(old) + g[k] - f[k]
  <1> DEFINE old == UNION {{j} \X (1..f[j]) : j \in K}
             new == UNION {{j} \X (1..g[j]) : j \in K}
             rest == UNION {{j} \X (1..f[j]) : j \in K \ {k}}
             a == {k} \X (1..f[k])
             b == {k} \X (1..g[k])
  <1>1. old = rest \cup a
    OBVIOUS
  <1>2. new = rest \cup b
    <2>1. \A j \in K \ {k} : {j} \X (1..g[j]) = {j} \X (1..f[j])
      OBVIOUS
    <2>2. UNION {{j} \X (1..g[j]) : j \in K \ {k}} = rest
      BY <2>1
    <2> QED
      BY <2>2
  <1>3. rest \cap a = {} /\ rest \cap b = {}
    OBVIOUS
  <1>4. IsFiniteSet(a) /\ Cardinality(a) = f[k] /\ IsFiniteSet(b) /\ Cardinality(b) = g[k]
    BY ColumnSize
  <1>5. IsFiniteSet(old)
    OBVIOUS
  <1>6. rest \in SUBSET old
    BY <1>1
  <1> HIDE DEF old, new, rest, a, b
  <1>7. IsFiniteSet(rest) /\ Cardinality(rest) \in Nat
    BY <1>5, <1>6, FS_Subset, FS_CardinalityType
  <1>8. Cardinality(old) = Cardinality(rest) + f[k]
    BY <1>1, <1>3, <1>4, <1>7, DisjointUnionSize
  <1>9. IsFiniteSet(new) /\ Cardinality(new) = Cardinality(rest) + g[k]
    BY <1>2, <1>3, <1>4, <1>7, DisjointUnionSize
  <1>10. IsFiniteSet(new) /\ Cardinality(new) = Cardinality(old) + g[k] - f[k]
    BY <1>7, <1>8, <1>9
  <1> QED
    BY <1>10 DEF old, new

-----------------------------------------------------------------------------
(* Numbers in ascending order.                                             *)

Lower(K, k) == {j \in K : j < k}

LEMMA Smallest ==
  ASSUME NEW S, S \subseteq Nat, S # {}
  PROVE  \E n \in S : \A i \in S : n <= i
<1>1. IsWellFoundedOn(OpToRel(<, Nat), Nat)
  BY NatLessThanWellFounded, Zenon
<1>2. PICK n \in S : \A i \in S : ~(<<i, n>> \in OpToRel(<, Nat))
  BY <1>1, WFMin, Zenon
<1>3. ASSUME NEW i \in S, i < n
      PROVE  FALSE
  <2>1. <<i, n>> \in Nat \X Nat /\ <<i, n>>[1] < <<i, n>>[2]
    BY <1>3, Zenon
  <2>2. <<i, n>> \in OpToRel(<, Nat)
    BY <2>1, Zenon DEF OpToRel
  <2> QED
    BY <1>2, <2>2, Zenon
<1>4. \A i \in S : n <= i
  BY <1>3
<1> QED
  BY <1>4, Zenon

\* A number has fewer numbers below it than there are, and a larger one has more.
LEMMA RankType ==
  ASSUME NEW K \in SUBSET Nat, IsFiniteSet(K), NEW k \in K
  PROVE  IsFiniteSet(Lower(K, k)) /\ Cardinality(Lower(K, k)) \in 0..(Cardinality(K) - 1)
<1>1. Lower(K, k) \in SUBSET K /\ k \notin Lower(K, k)
  BY DEF Lower
<1>2. /\ IsFiniteSet(Lower(K, k)) /\ Cardinality(Lower(K, k)) <= Cardinality(K)
      /\ Cardinality(K) = Cardinality(Lower(K, k)) => K = Lower(K, k)
  BY <1>1, FS_Subset, Zenon
<1>3. Cardinality(K) \in Nat /\ Cardinality(Lower(K, k)) \in Nat
  BY <1>2, FS_CardinalityType, Zenon
<1>4. Cardinality(K) # Cardinality(Lower(K, k))
  BY <1>1, <1>2, Zenon
<1> QED
  BY <1>2, <1>3, <1>4

LEMMA RankGrows ==
  ASSUME NEW K \in SUBSET Nat, IsFiniteSet(K), NEW j \in K, NEW k \in K, j < k
  PROVE  Cardinality(Lower(K, j)) < Cardinality(Lower(K, k))
<1>1. Lower(K, j) \in SUBSET Lower(K, k) /\ j \in Lower(K, k) /\ j \notin Lower(K, j)
  <2>1. \A i \in K : i < j => i < k
    OBVIOUS
  <2>2. ~(j < j)
    OBVIOUS
  <2> QED
    BY <2>1, <2>2, Zenon DEF Lower
<1>2. IsFiniteSet(Lower(K, k))
  BY RankType, Zenon
<1>3. /\ IsFiniteSet(Lower(K, j)) /\ Cardinality(Lower(K, j)) <= Cardinality(Lower(K, k))
      /\ Cardinality(Lower(K, k)) = Cardinality(Lower(K, j)) => Lower(K, k) = Lower(K, j)
  BY <1>1, <1>2, FS_Subset, Zenon
<1>4. Cardinality(Lower(K, j)) \in Nat /\ Cardinality(Lower(K, k)) \in Nat
  BY <1>2, <1>3, FS_CardinalityType, Zenon
<1>5. Cardinality(Lower(K, k)) # Cardinality(Lower(K, j))
  BY <1>1, <1>3, Zenon
<1> QED
  BY <1>3, <1>4, <1>5

\* Every rank below the size of the set is taken.
LEMMA RankOnto ==
  ASSUME NEW K \in SUBSET Nat, IsFiniteSet(K), NEW r \in 0..(Cardinality(K) - 1)
  PROVE  \E k \in K : Cardinality(Lower(K, k)) = r
<1> DEFINE c == Cardinality(K)
           f == [k \in K |-> Cardinality(Lower(K, k))]
<1>1. c \in Nat
  BY FS_CardinalityType, Zenon
<1>2. f \in [K -> 0..(c - 1)]
  BY RankType, Zenon
<1>3. ASSUME NEW j \in K, NEW k \in K, f[j] = f[k]
      PROVE  j = k
  <2>1. ~(j < k) /\ ~(k < j)
    <3>1. Cardinality(Lower(K, j)) = Cardinality(Lower(K, k))
      BY <1>3
    <3>2. Cardinality(Lower(K, j)) \in 0..(c - 1) /\ Cardinality(Lower(K, k)) \in 0..(c - 1)
      BY RankType, Zenon
    <3>3. j < k => Cardinality(Lower(K, j)) < Cardinality(Lower(K, k))
      BY RankGrows, Zenon
    <3>4. k < j => Cardinality(Lower(K, k)) < Cardinality(Lower(K, j))
      BY RankGrows, Zenon
    <3> HIDE DEF c
    <3> QED
      BY <1>1, <3>1, <3>2, <3>3, <3>4
  <2> QED
    BY <2>1
<1>4. f \in Injection(K, 0..(c - 1))
  BY <1>2, <1>3, Zenon DEF Injection, IsInjective
<1>5. IsFiniteSet(0..(c - 1)) /\ Cardinality(0..(c - 1)) = c
  <2> HIDE DEF c
  <2> QED
    BY <1>1, FS_Interval
<1>6. f \in Surjection(K, 0..(c - 1))
  BY <1>4, <1>5, FS_Injection, Zenon
<1>7. PICK k \in K : f[k] = r
  BY <1>6, Zenon DEF Surjection
<1> QED
  BY <1>7

\* Nth is told by the rank.
LEMMA NthIs ==
  ASSUME NEW K \in SUBSET Nat, IsFiniteSet(K), NEW k \in K, NEW i,
         Cardinality(Lower(K, k)) = i - 1
  PROVE  Nth(K, i) = k
<1> DEFINE a == Nth(K, i)
<1>1. a = CHOOSE j \in K : Cardinality(Lower(K, j)) = i - 1
  BY Zenon DEF Nth, Lower
<1>2. a \in K /\ Cardinality(Lower(K, a)) = Cardinality(Lower(K, k))
  BY <1>1, Zenon
<1> HIDE DEF a
<1>3. /\ a < k => Cardinality(Lower(K, a)) < Cardinality(Lower(K, k))
      /\ k < a => Cardinality(Lower(K, k)) < Cardinality(Lower(K, a))
  BY <1>2, RankGrows, Zenon
<1>4. Cardinality(Lower(K, k)) \in Nat
  BY RankType, FS_CardinalityType, Zenon
<1>5. ~(a < k) /\ ~(k < a)
  BY <1>2, <1>3, <1>4
<1>6. a = k
  BY <1>2, <1>5
<1> QED
  BY <1>6, Zenon DEF a

\* Nth enumerates the set in ascending order.
LEMMA NthFacts ==
  ASSUME NEW K \in SUBSET Nat, IsFiniteSet(K)
  PROVE  /\ \A i \in 1..Cardinality(K) : Nth(K, i) \in K
         /\ \A i, j \in 1..Cardinality(K) : i < j => Nth(K, i) < Nth(K, j)
         /\ \A k \in K : \E i \in 1..Cardinality(K) : Nth(K, i) = k
<1> DEFINE c == Cardinality(K)
<1>1. c \in Nat
  BY FS_CardinalityType, Zenon
<1>2. ASSUME NEW i \in 1..c
      PROVE  Nth(K, i) \in K /\ Cardinality(Lower(K, Nth(K, i))) = i - 1
  <2>1. i - 1 \in 0..(c - 1)
    BY <1>1
  <2>2. \E k \in K : Cardinality(Lower(K, k)) = i - 1
    BY <2>1, RankOnto, Zenon
  <2>3. Nth(K, i) = CHOOSE k \in K : Cardinality(Lower(K, k)) = i - 1
    BY Zenon DEF Nth, Lower
  <2> QED
    BY <2>2, <2>3, Zenon
<1>3. ASSUME NEW i \in 1..c, NEW j \in 1..c, i < j
      PROVE  Nth(K, i) < Nth(K, j)
  <2> DEFINE a == Nth(K, i)
             b == Nth(K, j)
  <2>1. /\ a \in K /\ b \in K
        /\ Cardinality(Lower(K, a)) = i - 1 /\ Cardinality(Lower(K, b)) = j - 1
    BY <1>2, Zenon
  <2>2. b < a => Cardinality(Lower(K, b)) < Cardinality(Lower(K, a))
    BY <2>1, RankGrows, Zenon
  <2>3. a # b
    BY <1>3, <2>1
  <2> HIDE DEF a, b, c
  <2>4. a < b
    BY <1>1, <1>3, <2>1, <2>2, <2>3
  <2> QED
    BY <2>4 DEF a, b
<1>4. ASSUME NEW k \in K
      PROVE  \E i \in 1..c : Nth(K, i) = k
  <2> DEFINE i == Cardinality(Lower(K, k)) + 1
  <2>1. Cardinality(Lower(K, k)) \in 0..(c - 1)
    BY RankType, Zenon
  <2>2. i \in 1..c /\ i - 1 = Cardinality(Lower(K, k))
    <3> HIDE DEF c
    <3> QED
      BY <1>1, <2>1
  <2> HIDE DEF i
  <2>3. Nth(K, i) = k
    BY <2>2, NthIs, Zenon
  <2> QED
    BY <2>2, <2>3, Zenon
<1> QED
  BY <1>2, <1>3, <1>4, Zenon

Apart(f, n) == \A i, j \in 1..n : f[i] = f[j] => i = j

\* The image of 1..n under a function that tells its arguments apart has n elements.
LEMMA ImageSize ==
  ASSUME NEW n \in Nat, NEW f, Apart(f, n)
  PROVE  IsFiniteSet({f[i] : i \in 1..n}) /\ Cardinality({f[i] : i \in 1..n}) = n
<1> DEFINE S == {f[i] : i \in 1..n}
           g == [i \in 1..n |-> f[i]]
<1>1. g \in [1..n -> S] /\ \A i \in 1..n : g[i] = f[i]
  BY Zenon
<1>2. g \in Injection(1..n, S)
  BY <1>1, Zenon DEF Injection, IsInjective, Apart
<1>3. g \in Surjection(1..n, S)
  BY <1>1, Zenon DEF Surjection
<1>4. ExistsBijection(1..n, S)
  BY <1>2, <1>3, Zenon DEF ExistsBijection, Bijection
<1>5. IsFiniteSet(1..n) /\ Cardinality(1..n) = n
  BY FS_Interval
<1>6. IsFiniteSet(S) /\ Cardinality(S) = Cardinality(1..n)
  BY <1>4, <1>5, FS_Bijection, Zenon
<1> QED
  BY <1>5, <1>6, Zenon

Growing(f, n) ==
  /\ \A i \in 1..n : f[i] \in Nat
  /\ \A i, j \in 1..n : i < j => f[i] < f[j]

\* There is one way to enumerate a set of numbers in ascending order.
LEMMA NthUnique ==
  ASSUME NEW n \in Nat, NEW f, Growing(f, n)
  PROVE  /\ {f[i] : i \in 1..n} \in SUBSET Nat
         /\ IsFiniteSet({f[i] : i \in 1..n}) /\ Cardinality({f[i] : i \in 1..n}) = n
         /\ \A i \in 1..n : Nth({f[j] : j \in 1..n}, i) = f[i]
<1> DEFINE K == {f[i] : i \in 1..n}
<1>1. K \in SUBSET Nat
  BY Zenon DEF Growing
<1>2. Apart(f, n)
  <2> SUFFICES ASSUME NEW i \in 1..n, NEW j \in 1..n, f[i] = f[j]
               PROVE  i = j
    BY Zenon DEF Apart
  <2>1. f[i] \in Nat /\ (i < j => f[i] < f[j]) /\ (j < i => f[j] < f[i])
    BY Zenon DEF Growing
  <2> QED
    BY <2>1
<1>3. IsFiniteSet(K) /\ Cardinality(K) = n
  BY <1>2, ImageSize, Zenon
<1>4. ASSUME NEW i \in 1..n
      PROVE  Nth(K, i) = f[i]
  <2> DEFINE m == i - 1
  <2>1. m \in Nat /\ 1..m \in SUBSET (1..n)
    OBVIOUS
  <2>2. Lower(K, f[i]) = {f[j] : j \in 1..m}
    <3>1. ASSUME NEW j \in 1..n
          PROVE  f[j] < f[i] <=> j \in 1..m
      <4>1. f[i] \in Nat /\ f[j] \in Nat /\ (i < j => f[i] < f[j]) /\ (j < i => f[j] < f[i])
        BY Zenon DEF Growing
      <4> QED
        BY <4>1
    <3> HIDE DEF m
    <3> QED
      BY <2>1, <3>1, Zenon DEF Lower
  <2>3. Cardinality({f[j] : j \in 1..m}) = m
    <3> HIDE DEF m
    <3>1. Apart(f, m)
      BY <1>2, <2>1, Zenon DEF Apart
    <3> QED
      BY <2>1, <3>1, ImageSize, Zenon
  <2>4. f[i] \in K
    BY Zenon
  <2> HIDE DEF K
  <2> QED
    BY <1>1, <1>3, <2>2, <2>3, <2>4, NthIs, Zenon
<1> QED
  BY <1>1, <1>3, <1>4, Zenon

-----------------------------------------------------------------------------
(* Subsequences.                                                           *)

\* A subsequence has the chosen elements, in the order they had.
LEMMA SubsequenceFacts ==
  ASSUME NEW A, NEW s \in Seq(A), NEW K \in SUBSET (DOMAIN s)
  PROVE  /\ IsFiniteSet(K) /\ Cardinality(K) \in Nat
         /\ Subsequence(s, K) \in Seq(A) /\ DOMAIN Subsequence(s, K) = 1..Cardinality(K)
         /\ Len(Subsequence(s, K)) = Cardinality(K)
         /\ \A i \in 1..Cardinality(K) : Nth(K, i) \in K /\ Subsequence(s, K)[i] = s[Nth(K, i)]
         /\ \A i, j \in 1..Cardinality(K) : i < j => Nth(K, i) < Nth(K, j)
         /\ \A k \in K : \E i \in 1..Cardinality(K) : Nth(K, i) = k
<1> DEFINE n == Len(s)
           c == Cardinality(K)
<1>1. n \in Nat /\ DOMAIN s = 1..n
  OBVIOUS
<1>2. K \in SUBSET (1..n)
  BY <1>1, Zenon
<1>3. K \in SUBSET Nat
  BY <1>1, <1>2
<1>4. IsFiniteSet(1..n)
  BY <1>1, FS_Interval
<1>5. IsFiniteSet(K)
  BY <1>2, <1>4, FS_Subset, Zenon
<1>6. c \in Nat
  BY <1>5, FS_CardinalityType, Zenon
<1>7. /\ \A i \in 1..c : Nth(K, i) \in K
      /\ \A i, j \in 1..c : i < j => Nth(K, i) < Nth(K, j)
      /\ \A k \in K : \E i \in 1..c : Nth(K, i) = k
  BY <1>3, <1>5, NthFacts, Zenon
<1>8. Subsequence(s, K) = [i \in 1..c |-> s[Nth(K, i)]]
  BY Zenon DEF Subsequence
<1>9. \A k \in K : s[k] \in A
  BY <1>1, <1>2
<1>10. \A i \in 1..c : s[Nth(K, i)] \in A
  BY <1>7, <1>9, Zenon
<1> HIDE DEF c, n
<1>11. /\ Subsequence(s, K) \in Seq(A) /\ DOMAIN Subsequence(s, K) = 1..c
       /\ Len(Subsequence(s, K)) = c
       /\ \A i \in 1..c : Subsequence(s, K)[i] = s[Nth(K, i)]
  BY <1>6, <1>8, <1>10
<1> QED
  BY <1>5, <1>6, <1>7, <1>11, Zenon DEF c

\* Keeping the elements of a set that holds them all changes nothing.
LEMMA AmongAll ==
  ASSUME NEW A, NEW s \in Seq(A), NEW S, \A i \in DOMAIN s : s[i] \in S
  PROVE  Among(s, S) = s
<1> DEFINE n == Len(s)
           K == {i \in DOMAIN s : s[i] \in S}
           f == [i \in 1..n |-> i]
<1>1. n \in Nat /\ DOMAIN s = 1..n /\ s = [i \in 1..n |-> s[i]]
  OBVIOUS
<1> HIDE DEF n
<1>2. K = 1..n /\ {f[i] : i \in 1..n} = 1..n
  <2>1. K = 1..n
    BY <1>1, Zenon
  <2>2. \A i \in 1..n : f[i] = i
    BY Zenon
  <2>3. {f[i] : i \in 1..n} = 1..n
    BY <2>2, Zenon
  <2> QED
    BY <2>1, <2>3, Zenon
<1>3. Growing(f, n)
  BY <1>1 DEF Growing
<1>4. Cardinality(1..n) = n
  BY <1>1, FS_Interval
<1>5. \A i \in 1..n : Nth(K, i) = i
  <2>1. \A i \in 1..n : f[i] = i
    BY Zenon
  <2> HIDE DEF f
  <2>2. \A i \in 1..n : Nth({f[j] : j \in 1..n}, i) = f[i]
    BY <1>1, <1>3, NthUnique, Zenon
  <2> QED
    BY <1>2, <2>1, <2>2, Zenon
<1>6. Among(s, S) = [i \in 1..n |-> s[Nth(K, i)]]
  BY <1>2, <1>4, Zenon DEF Among, Subsequence
<1>7. [i \in 1..n |-> s[Nth(K, i)]] = [i \in 1..n |-> s[i]]
  BY <1>5, Zenon
<1> QED
  BY <1>1, <1>6, <1>7, Zenon
=============================================================================
