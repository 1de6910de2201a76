---------------------------- MODULE RouterProofs ----------------------------
(***************************************************************************)
(* The safety properties of Router, for every set of nodes, every number   *)
(* of virtual points and every placement of them on the circle.            *)
(*                                                                         *)
(* The ring is a function of the members alone: Ring.Add sorts one node's  *)
(* points into the circle of the others, Ring.Remove takes them out of it, *)
(* and there is one ascending sequence of a set of points.  So whatever    *)
(* the loops of SetMembers did before, in whatever order, points is the    *)
(* circle of members (IInv).  The clockwise walk from a key meets the      *)
(* points by growing distance, hence the nodes by the distance of their    *)
(* nearest point, which no other node's coming or going changes.           *)
(***************************************************************************)
EXTENDS Router, Counting, SequenceTheorems

-----------------------------------------------------------------------------
(* Points in the order of the circle.                                      *)

Ascending(ps) == \A i, j \in DOMAIN ps : i < j => ps[i].hash < ps[j].hash
Distinct(S) == \A p, q \in S : p.hash = q.hash => p = q
Hashes(S) == {p.hash : p \in S}

\* The points of a set in the order of the circle.
Circle(S) == [i \in 1..Cardinality(S) |-> CHOOSE p \in S : p.hash = Nth(Hashes(S), i)]

LEMMA PointType ==
  ASSUME NEW p \in Points
  PROVE  p.hash \in Nat /\ p.hash \in 0..(Space - 1) /\ p.node \in Nodes
<1>1. p.hash \in 0..(Space - 1) /\ p.node \in Nodes
  BY Zenon DEF Points
<1>2. Space \in Nat
  BY RouterAssumption, Zenon
<1> QED
  BY <1>1, <1>2

LEMMA HashesSize ==
  ASSUME NEW S \in SUBSET Points, IsFiniteSet(S), Distinct(S)
  PROVE  /\ Hashes(S) \in SUBSET Nat /\ IsFiniteSet(Hashes(S))
         /\ Cardinality(Hashes(S)) = Cardinality(S)
<1>1. Hashes(S) \in SUBSET Nat
  BY PointType, Zenon DEF Hashes
<1> DEFINE f == [p \in S |-> p.hash]
<1>2. f \in [S -> Hashes(S)] /\ \A p \in S : f[p] = p.hash
  BY Zenon DEF Hashes
<1>3. f \in Injection(S, Hashes(S))
  BY <1>2, Zenon DEF Injection, IsInjective, Distinct
<1>4. f \in Surjection(S, Hashes(S))
  BY <1>2, Zenon DEF Surjection, Hashes
<1>5. ExistsBijection(S, Hashes(S))
  BY <1>3, <1>4, Zenon DEF ExistsBijection, Bijection
<1> QED
  BY <1>1, <1>5, FS_Bijection, Zenon

LEMMA CircleFacts ==
  ASSUME NEW S \in SUBSET Points, IsFiniteSet(S), Distinct(S)
  PROVE  /\ Circle(S) \in Seq(Points) /\ DOMAIN Circle(S) = 1..Cardinality(S)
         /\ Len(Circle(S)) = Cardinality(S) /\ Range(Circle(S)) = S /\ Ascending(Circle(S))
<1> DEFINE H == Hashes(S)
           c == Cardinality(S)
           r == Circle(S)
<1>1. H \in SUBSET Nat /\ IsFiniteSet(H) /\ Cardinality(H) = c
  BY HashesSize, Zenon
<1>2. c \in Nat
  BY FS_CardinalityType, Zenon
<1> HIDE DEF H
<1>3. /\ \A i \in 1..Cardinality(H) : Nth(H, i) \in H
      /\ \A i, j \in 1..Cardinality(H) : i < j => Nth(H, i) < Nth(H, j)
      /\ \A k \in H : \E i \in 1..Cardinality(H) : Nth(H, i) = k
  BY <1>1, NthFacts, Zenon
<1>4. r = [i \in 1..c |-> CHOOSE p \in S : p.hash = Nth(H, i)]
  BY Zenon DEF Circle, H
<1> HIDE DEF c, r
<1>5. ASSUME NEW i \in 1..c
      PROVE  r[i] \in S /\ r[i].hash = Nth(H, i)
  <2>1. \E p \in S : p.hash = Nth(H, i)
    BY <1>1, <1>3, Zenon DEF H, Hashes
  <2> QED
    BY <1>4, <2>1, Zenon
<1>6. DOMAIN r = 1..c
  BY <1>4, Zenon
<1>7. r \in Seq(Points) /\ Len(r) = c
  <2>1. r \in [1..c -> Points]
    BY <1>4, <1>5, <1>6
  <2> QED
    BY <1>2, <2>1
<1>8. Range(r) = S
  <2>1. ASSUME NEW p \in S
        PROVE  \E i \in 1..c : r[i] = p
    <3>1. p.hash \in H
      BY Zenon DEF H, Hashes
    <3>2. PICK i \in 1..c : Nth(H, i) = p.hash
      BY <1>1, <1>3, <3>1, Zenon
    <3> QED
      BY <1>5, <3>2, Zenon DEF Distinct
  <2> QED
    BY <1>5, <1>6, <2>1, Zenon DEF Range
<1>9. Ascending(r)
  <2> SUFFICES ASSUME NEW i \in 1..c, NEW j \in 1..c, i < j
               PROVE  r[i].hash < r[j].hash
    BY <1>6, Zenon DEF Ascending
  <2>1. r[i].hash = Nth(H, i) /\ r[j].hash = Nth(H, j)
    BY <1>5, Zenon
  <2> QED
    BY <1>1, <1>3, <2>1, Zenon
<1> QED
  BY <1>6, <1>7, <1>8, <1>9, Zenon DEF r, c

\* There is one ascending sequence of a set of points.
LEMMA CircleUnique ==
  ASSUME NEW ps \in Seq(Points), Ascending(ps)
  PROVE  ps = Circle(Range(ps))
<1> DEFINE n == Len(ps)
           S == Range(ps)
           f == [i \in 1..n |-> ps[i].hash]
<1>1. n \in Nat /\ DOMAIN ps = 1..n /\ ps = [i \in 1..n |-> ps[i]]
  OBVIOUS
<1>2. \A i \in 1..n : ps[i] \in Points
  BY <1>1
<1> HIDE DEF n
<1>3. \A i \in 1..n : f[i] = ps[i].hash /\ f[i] \in Nat
  BY <1>2, PointType, Zenon
<1>4. Growing(f, n)
  BY <1>1, <1>3, Zenon DEF Growing, Ascending
<1>5. Hashes(S) = {f[i] : i \in 1..n}
  <2>1. S = {ps[i] : i \in 1..n}
    BY <1>1, Zenon DEF Range
  <2> HIDE DEF S, f
  <2> QED
    BY <1>3, <2>1 DEF Hashes
<1> HIDE DEF f
<1>6. \A i \in 1..n : Nth(Hashes(S), i) = f[i]
  <2>1. \A i \in 1..n : Nth({f[j] : j \in 1..n}, i) = f[i]
    BY <1>1, <1>4, NthUnique, Zenon
  <2> QED
    BY <1>5, <2>1, Zenon
<1>7. \A i, j \in 1..n : ps[i].hash = ps[j].hash => i = j
  <2> SUFFICES ASSUME NEW i \in 1..n, NEW j \in 1..n, ps[i].hash = ps[j].hash
               PROVE  i = j
    BY Zenon
  <2>1. f[i] = f[j] /\ f[i] \in Nat /\ (i < j => f[i] < f[j]) /\ (j < i => f[j] < f[i])
    BY <1>3, <1>4, Zenon DEF Growing
  <2> QED
    BY <1>1, <2>1
<1>8. Cardinality(S) = n
  <2>1. Apart(ps, n)
    BY <1>7, Zenon DEF Apart
  <2>2. S = {ps[i] : i \in 1..n}
    BY <1>1, Zenon DEF Range
  <2>3. Cardinality({ps[i] : i \in 1..n}) = n
    BY <1>1, <2>1, ImageSize, Zenon
  <2> QED
    BY <2>2, <2>3, Zenon
<1>9. ASSUME NEW i \in 1..n
      PROVE  (CHOOSE p \in S : p.hash = Nth(Hashes(S), i)) = ps[i]
  <2>1. ps[i] \in S /\ ps[i].hash = Nth(Hashes(S), i)
    BY <1>1, <1>3, <1>6, Zenon DEF Range
  <2>2. \A p \in S : p.hash = ps[i].hash => p = ps[i]
    BY <1>1, <1>7, Zenon DEF Range
  <2> QED
    BY <2>1, <2>2, Zenon
<1>10. Circle(S) = [i \in 1..n |-> ps[i]]
  BY <1>8, <1>9, Zenon DEF Circle
<1> QED
  BY <1>1, <1>10, Zenon

\* Sorting gives that sequence.
LEMMA SortedFacts ==
  ASSUME NEW ps \in Seq(Points), \A i, j \in DOMAIN ps : ps[i].hash = ps[j].hash => i = j
  PROVE  /\ Sorted(ps) = Circle(Range(ps))
         /\ Range(ps) \in SUBSET Points /\ IsFiniteSet(Range(ps)) /\ Distinct(Range(ps))
<1> DEFINE n == Len(ps)
           S == Range(ps)
<1>1. n \in Nat /\ DOMAIN ps = 1..n /\ \A i \in 1..n : ps[i] \in Points
  OBVIOUS
<1> HIDE DEF n
<1>2. S = {ps[i] : i \in 1..n} /\ S \in SUBSET Points
  BY <1>1, Zenon DEF Range
<1>3. Apart(ps, n)
  BY <1>1, Zenon DEF Apart
<1>4. IsFiniteSet(S) /\ Cardinality(S) = n
  <2>0. n \in Nat
    BY <1>1, Zenon
  <2>1. IsFiniteSet({ps[i] : i \in 1..n}) /\ Cardinality({ps[i] : i \in 1..n}) = n
    BY <1>3, <2>0, ImageSize, Zenon
  <2>2. S = {ps[i] : i \in 1..n}
    BY <1>2, Zenon
  <2> HIDE DEF S
  <2> QED
    BY <2>1, <2>2
<1>5. Distinct(S)
  BY <1>1, <1>2, Zenon DEF Distinct
<1>6. Sorted(ps) = [i \in 1..n |-> CHOOSE p \in S : p.hash = Nth(Hashes(S), i)]
  BY <1>1, Zenon DEF Sorted, Hashes
<1>7. Sorted(ps) = Circle(S)
  BY <1>4, <1>6, Zenon DEF Circle
<1> QED
  BY <1>2, <1>4, <1>5, <1>7, Zenon

-----------------------------------------------------------------------------
(* The ring is the circle of its members.                                  *)

PointsOf(M) == {[hash |-> place[n][i], node |-> n] : n \in M, i \in 1..VNodes}
Ring(M) == Circle(PointsOf(M))

LEMMA InPoints ==
  ASSUME NEW M, NEW p
  PROVE  p \in PointsOf(M) <=>
           \E n \in M, i \in 1..VNodes : p = [hash |-> place[n][i], node |-> n]
  BY DEF PointsOf

LEMMA PlaceType ==
  ASSUME place \in Placements, NEW n \in Nodes, NEW i \in 1..VNodes
  PROVE  /\ place[n][i] \in 0..(Space - 1)
         /\ [hash |-> place[n][i], node |-> n] \in Points
         /\ \A m \in Nodes, j \in 1..VNodes : place[m][j] = place[n][i] => m = n /\ j = i
<1>1. /\ place \in [Nodes -> [1..VNodes -> 0..(Space - 1)]]
      /\ \A m \in Nodes, j \in 1..VNodes : place[m][j] = place[n][i] => m = n /\ j = i
  BY Zenon DEF Placements
<1>2. place[n][i] \in 0..(Space - 1)
  BY <1>1, Zenon
<1>3. [hash |-> place[n][i], node |-> n] \in Points
  BY <1>2, Zenon DEF Points
<1> QED
  BY <1>1, <1>2, <1>3, Zenon

\* The points of some nodes are finitely many, and no two share a position.
LEMMA PointsFacts ==
  ASSUME place \in Placements, NEW M \in SUBSET Nodes
  PROVE  /\ PointsOf(M) \in SUBSET Points /\ IsFiniteSet(PointsOf(M)) /\ Distinct(PointsOf(M))
         /\ \A p \in PointsOf(M) : p.node \in M
<1>0. \A n \in M : n \in Nodes
  BY Zenon
<1>1. ASSUME NEW p \in PointsOf(M)
      PROVE  /\ \E n \in M, i \in 1..VNodes :
                  p = [hash |-> place[n][i], node |-> n] /\ p.hash = place[n][i] /\ p.node = n
             /\ p \in Points /\ p.node \in M
  <2>1. PICK n \in M, i \in 1..VNodes : p = [hash |-> place[n][i], node |-> n]
    BY InPoints, Zenon
  <2>2. p \in Points
    BY <1>0, <2>1, PlaceType, Zenon
  <2>3. p.hash = place[n][i] /\ p.node = n
    BY <2>1
  <2> QED
    BY <2>1, <2>2, <2>3, Zenon
<1>2. Distinct(PointsOf(M))
  <2> SUFFICES ASSUME NEW p \in PointsOf(M), NEW q \in PointsOf(M), p.hash = q.hash
               PROVE  p = q
    BY Zenon DEF Distinct
  <2>1. PICK n \in M, i \in 1..VNodes :
          p = [hash |-> place[n][i], node |-> n] /\ p.hash = place[n][i]
    BY <1>1, Zenon
  <2>2. PICK m \in M, j \in 1..VNodes :
          q = [hash |-> place[m][j], node |-> m] /\ q.hash = place[m][j]
    BY <1>1, Zenon
  <2>3. place[m][j] = place[n][i] /\ m \in Nodes /\ n \in Nodes
    BY <1>0, <2>1, <2>2, Zenon
  <2>4. m = n /\ j = i
    BY <2>3, PlaceType, Zenon
  <2> QED
    BY <2>1, <2>2, <2>4, Zenon
<1>3. \A p \in PointsOf(M) : p.hash \in 0..(Space - 1)
  BY <1>1, PointType, Zenon
<1>4. IsFiniteSet(0..(Space - 1))
  BY RouterAssumption, FS_Interval
<1>5. IsFiniteSet(PointsOf(M))
  <2> DEFINE f == [p \in PointsOf(M) |-> p.hash]
  <2>1. f \in [PointsOf(M) -> 0..(Space - 1)]
    BY <1>3, Zenon
  <2>2. f \in Injection(PointsOf(M), 0..(Space - 1))
    BY <1>2, <2>1, Zenon DEF Injection, IsInjective, Distinct
  <2> QED
    BY <1>4, <2>2, FS_Injection, Zenon
<1> QED
  BY <1>1, <1>2, <1>5, Zenon

LEMMA RingFacts ==
  ASSUME place \in Placements, NEW M \in SUBSET Nodes
  PROVE  Ring(M) \in Seq(Points) /\ Range(Ring(M)) = PointsOf(M) /\ Ascending(Ring(M))
  BY PointsFacts, CircleFacts, Zenon DEF Ring

\* Ring.Add: the points of a node that was not there, sorted in.
LEMMA RingAddFacts ==
  ASSUME place \in Placements, NEW M \in SUBSET Nodes, NEW node \in Nodes, node \notin M
  PROVE  RingAdd(Ring(M), node) = Ring(M \cup {node})
<1> DEFINE r == Ring(M)
           v == vnodePoints(node)
           s == r \o v
           c == Len(r)
<1>1. r \in Seq(Points) /\ Range(r) = PointsOf(M) /\ Ascending(r)
  BY RingFacts, Zenon
<1>2. VNodes \in Nat
  BY RouterAssumption, Zenon
<1>3. v = [i \in 1..VNodes |-> [hash |-> place[node][i], node |-> node]]
  BY Zenon DEF vnodePoints
<1>4. v \in [1..VNodes -> Points]
  <2>1. \A i \in 1..VNodes : [hash |-> place[node][i], node |-> node] \in Points
    BY PlaceType, Zenon
  <2> QED
    BY <1>3, <2>1, Zenon
<1>5. \A i \in 1..VNodes : v[i] = [hash |-> place[node][i], node |-> node]
  BY <1>3, Zenon
<1> HIDE DEF r, v
<1>6. v \in Seq(Points) /\ Len(v) = VNodes
  BY <1>2, <1>4
<1>7. /\ s \in Seq(Points) /\ c \in Nat /\ DOMAIN r = 1..c /\ DOMAIN s = 1..(c + VNodes)
      /\ \A i \in 1..c : s[i] = r[i]
      /\ \A i \in 1..VNodes : s[c + i] = v[i]
  BY <1>1, <1>2, <1>6
<1> HIDE DEF s, c
<1>8. \A k \in DOMAIN s : k \in 1..c \/ (\E i \in 1..VNodes : k = c + i)
  <2> SUFFICES ASSUME NEW k \in 1..(c + VNodes), ~(k \in 1..c)
               PROVE  \E i \in 1..VNodes : k = c + i
    BY <1>7, Zenon
  <2>1. k - c \in 1..VNodes /\ k = c + (k - c)
    BY <1>2, <1>7
  <2> QED
    BY <2>1, Zenon
<1>9. Range(s) = PointsOf(M \cup {node})
  <2>1. ASSUME NEW p
        PROVE  p \in Range(s) <=> p \in Range(r) \/ \E i \in 1..VNodes : p = v[i]
    <3>1. /\ \A i \in 1..c : i \in DOMAIN s
          /\ \A i \in 1..VNodes : c + i \in DOMAIN s
      BY <1>2, <1>7
    <3>2. ASSUME p \in Range(s)
          PROVE  p \in Range(r) \/ \E i \in 1..VNodes : p = v[i]
      <4>1. PICK k \in DOMAIN s : p = s[k]
        BY <3>2, Zenon DEF Range
      <4> QED
        BY <1>7, <1>8, <4>1, Zenon DEF Range
    <3>3. p \in Range(r) => p \in Range(s)
      BY <1>7, <3>1, Zenon DEF Range
    <3>4. ASSUME NEW i \in 1..VNodes, p = v[i]
          PROVE  p \in Range(s)
      BY <1>7, <3>1, <3>4, Zenon DEF Range
    <3> QED
      BY <3>2, <3>3, <3>4, Zenon
  <2>2. ASSUME NEW p
        PROVE  p \in PointsOf(M \cup {node}) <=>
                 p \in PointsOf(M) \/ \E i \in 1..VNodes : p = v[i]
    <3>1. ASSUME p \in PointsOf(M \cup {node})
          PROVE  p \in PointsOf(M) \/ \E i \in 1..VNodes : p = v[i]
      <4>1. PICK n \in M \cup {node}, i \in 1..VNodes : p = [hash |-> place[n][i], node |-> n]
        BY <3>1, InPoints, Zenon
      <4>2. CASE n \in M
        BY <4>1, <4>2, InPoints, Zenon
      <4>3. CASE n = node
        BY <1>5, <4>1, <4>3, Zenon
      <4> QED
        BY <4>2, <4>3, Zenon
    <3>2. ASSUME p \in PointsOf(M)
          PROVE  p \in PointsOf(M \cup {node})
      <4>1. PICK n \in M, i \in 1..VNodes : p = [hash |-> place[n][i], node |-> n]
        BY <3>2, InPoints, Zenon
      <4>2. n \in M \cup {node}
        BY Zenon
      <4> QED
        BY <4>1, <4>2, InPoints, Zenon
    <3>3. ASSUME NEW i \in 1..VNodes, p = v[i]
          PROVE  p \in PointsOf(M \cup {node})
      <4>1. p = [hash |-> place[node][i], node |-> node] /\ node \in M \cup {node}
        BY <1>5, <3>3, Zenon
      <4> QED
        BY <4>1, InPoints, Zenon
    <3> QED
      BY <3>1, <3>2, <3>3, Zenon
  <2> QED
    BY <1>1, <2>1, <2>2, Zenon
<1>10. ASSUME NEW i \in 1..c, NEW j \in 1..c, r[i].hash = r[j].hash
       PROVE  i = j
  <2>1. (i < j => r[i].hash < r[j].hash) /\ (j < i => r[j].hash < r[i].hash)
    BY <1>1, <1>7, Zenon DEF Ascending
  <2>2. r[i] \in Points
    BY <1>1, <1>7
  <2>3. r[i].hash \in Nat
    BY <2>2, PointType, Zenon
  <2> QED
    BY <1>7, <1>10, <2>1, <2>3
<1>11. ASSUME NEW i \in 1..VNodes
       PROVE  v[i].hash = place[node][i]
  <2>1. v[i] = [hash |-> place[node][i], node |-> node]
    BY <1>5, Zenon
  <2> QED
    BY <2>1
<1>12. ASSUME NEW i \in 1..c, NEW j \in 1..VNodes
       PROVE  r[i].hash # v[j].hash
  <2>1. r[i] \in PointsOf(M)
    BY <1>1, <1>7, Zenon DEF Range
  <2>2. PICK n \in M, k \in 1..VNodes : r[i] = [hash |-> place[n][k], node |-> n]
    BY <2>1, InPoints, Zenon
  <2>3. r[i].hash = place[n][k] /\ n \in Nodes /\ n # node
    BY <2>2
  <2>4. place[n][k] # place[node][j]
    BY <2>3, PlaceType, Zenon
  <2> QED
    BY <1>11, <2>3, <2>4, Zenon
<1>13. ASSUME NEW i \in 1..VNodes, NEW j \in 1..VNodes, v[i].hash = v[j].hash
       PROVE  i = j
  <2>1. place[node][i] = place[node][j]
    BY <1>11, <1>13, Zenon
  <2> QED
    BY <2>1, PlaceType, Zenon
<1>14. \A i, j \in DOMAIN s : s[i].hash = s[j].hash => i = j
  <2> SUFFICES ASSUME NEW i \in DOMAIN s, NEW j \in DOMAIN s, s[i].hash = s[j].hash
               PROVE  i = j
    BY Zenon
  <2>1. CASE i \in 1..c /\ j \in 1..c
    BY <1>7, <1>10, <2>1, Zenon
  <2>2. ASSUME i \in 1..c, NEW b \in 1..VNodes, j = c + b
        PROVE  FALSE
    BY <1>7, <1>12, <2>2, Zenon
  <2>3. ASSUME j \in 1..c, NEW a \in 1..VNodes, i = c + a
        PROVE  FALSE
    BY <1>7, <1>12, <2>3, Zenon
  <2>4. ASSUME NEW a \in 1..VNodes, i = c + a, NEW b \in 1..VNodes, j = c + b
        PROVE  i = j
    BY <1>7, <1>13, <2>4, Zenon
  <2> QED
    BY <1>8, <2>1, <2>2, <2>3, <2>4, Zenon
<1>15. Sorted(s) = Circle(Range(s))
  BY <1>7, <1>14, SortedFacts, Zenon
<1>16. RingAdd(r, node) = Sorted(s)
  BY Zenon DEF RingAdd, s, v
<1> QED
  BY <1>9, <1>15, <1>16, Zenon DEF Ring, r

\* Ring.Remove: the points of a node, if it has any, taken out.
LEMMA RingRemoveFacts ==
  ASSUME place \in Placements, NEW M \in SUBSET Nodes, NEW node \in Nodes
  PROVE  RingRemove(Ring(M), node) = Ring(M \ {node})
<1> DEFINE r == Ring(M)
           K == {i \in DOMAIN r : r[i].node # node}
           t == Subsequence(r, K)
           c == Cardinality(K)
<1>1. r \in Seq(Points) /\ Range(r) = PointsOf(M) /\ Ascending(r)
  BY RingFacts, Zenon
<1> HIDE DEF r
<1>2. K \in SUBSET (DOMAIN r)
  BY Zenon
<1>3. /\ t \in Seq(Points) /\ DOMAIN t = 1..c
      /\ \A i \in 1..c : Nth(K, i) \in K /\ t[i] = r[Nth(K, i)]
      /\ \A i, j \in 1..c : i < j => Nth(K, i) < Nth(K, j)
      /\ \A k \in K : \E i \in 1..c : Nth(K, i) = k
  <2>1. r \in Seq(Points)
    BY <1>1, Zenon
  <2> HIDE DEF K
  <2> QED
    BY <1>2, <2>1, SubsequenceFacts
<1> HIDE DEF t, c
<1>4. Ascending(t)
  <2> SUFFICES ASSUME NEW i \in 1..c, NEW j \in 1..c, i < j
               PROVE  t[i].hash < t[j].hash
    BY <1>3, Zenon DEF Ascending
  <2>1. Nth(K, i) \in DOMAIN r /\ Nth(K, j) \in DOMAIN r /\ Nth(K, i) < Nth(K, j)
    BY <1>2, <1>3, Zenon
  <2> QED
    BY <1>1, <1>3, <2>1, Zenon DEF Ascending
<1>5. Range(t) = {p \in PointsOf(M) : p.node # node}
  <2>1. ASSUME NEW i \in 1..c
        PROVE  t[i] \in PointsOf(M) /\ t[i].node # node
    BY <1>1, <1>3, Zenon DEF Range
  <2>2. ASSUME NEW p \in PointsOf(M), p.node # node
        PROVE  \E i \in 1..c : t[i] = p
    <3>1. PICK k \in DOMAIN r : r[k] = p
      BY <1>1, Zenon DEF Range
    <3>2. k \in K
      BY <2>2, <3>1, Zenon
    <3> QED
      BY <1>3, <3>1, <3>2, Zenon
  <2>3. \A p : p \in Range(t) <=> \E i \in 1..c : t[i] = p
    BY <1>3, Zenon DEF Range
  <2> QED
    BY <2>1, <2>2, <2>3, Zenon
<1>6. {p \in PointsOf(M) : p.node # node} = PointsOf(M \ {node})
  <2>1. ASSUME NEW n, NEW i, NEW p, p = [hash |-> place[n][i], node |-> n]
        PROVE  p.node = n
    BY <2>1
  <2>2. ASSUME NEW p \in PointsOf(M), p.node # node
        PROVE  p \in PointsOf(M \ {node})
    <3>1. PICK n \in M, i \in 1..VNodes : p = [hash |-> place[n][i], node |-> n]
      BY InPoints, Zenon
    <3>2. n \in M \ {node}
      BY <2>1, <2>2, <3>1, Zenon
    <3> QED
      BY <3>1, <3>2, InPoints, Zenon
  <2>3. ASSUME NEW p \in PointsOf(M \ {node})
        PROVE  p \in PointsOf(M) /\ p.node # node
    <3>1. PICK n \in M \ {node}, i \in 1..VNodes : p = [hash |-> place[n][i], node |-> n]
      BY InPoints, Zenon
    <3>2. n \in M /\ p.node = n
      BY <2>1, <3>1, Zenon
    <3> QED
      BY <3>1, <3>2, InPoints, Zenon
  <2> QED
    BY <2>2, <2>3, Zenon
<1>7. t = Circle(Range(t))
  BY <1>3, <1>4, CircleUnique, Zenon
<1>8. RingRemove(r, node) = t
  BY Zenon DEF RingRemove, t
<1> QED
  BY <1>5, <1>6, <1>7, <1>8, Zenon DEF Ring, r

-----------------------------------------------------------------------------
(* The loops of SetMembers.                                                *)

\* The order of arrival has every node once.
LEMMA ArrivalFacts ==
  ASSUME NEW arrival \in Arrivals
  PROVE  /\ Len(arrival) \in Nat /\ \A i \in 1..Len(arrival) : arrival[i] \in Nodes
         /\ \A i, j \in 1..Len(arrival) : arrival[i] = arrival[j] => i = j
         /\ \A n \in Nodes : \E i \in 1..Len(arrival) : arrival[i] = n
<1> DEFINE c == Cardinality(Nodes)
<1>1. IsFiniteSet(Nodes)
  BY RouterAssumption, Zenon
<1>2. c \in Nat
  BY <1>1, FS_CardinalityType, Zenon
<1>3. arrival \in Injection(1..c, Nodes) /\ arrival \in Surjection(1..c, Nodes)
  BY Zenon DEF Arrivals, Bijection
<1>4. arrival \in [1..c -> Nodes] /\ \A i, j \in 1..c : arrival[i] = arrival[j] => i = j
  BY <1>3, Zenon DEF Injection, IsInjective
<1> HIDE DEF c
<1>5. Len(arrival) = c
  BY <1>2, <1>4
<1> QED
  BY <1>2, <1>3, <1>4, <1>5, Zenon DEF Surjection

\* Two loops that start alike and go on alike end alike.
LEMMA SameLoop ==
  ASSUME NEW n \in Nat, NEW f, NEW g, f[0] = g[0],
         \A i \in 1..n : f[i - 1] = g[i - 1] => f[i] = g[i]
  PROVE  f[n] = g[n]
<1> DEFINE D == {i \in 0..n : f[i] # g[i]}
<1>0. n \in 0..n
  OBVIOUS
<1> SUFFICES ASSUME D # {} PROVE FALSE
  BY <1>0, Zenon
<1>1. D \subseteq Nat
  OBVIOUS
<1>2. PICK i \in D : \A j \in D : i <= j
  BY <1>1, Smallest, Zenon
<1>3. i \in 1..n
  BY <1>2
<1>4. i - 1 \in 0..n /\ ~(i <= i - 1)
  BY <1>3
<1>5. i - 1 \notin D
  BY <1>2, <1>4, Zenon
<1>6. f[i - 1] = g[i - 1]
  BY <1>4, <1>5, Zenon
<1> QED
  BY <1>2, <1>3, <1>6, Zenon

\* The nodes the loop has passed by step i.
Passed(arrival, i) == {arrival[k] : k \in 1..i}

LEMMA PassedFacts ==
  ASSUME NEW arrival \in Arrivals
  PROVE  /\ Passed(arrival, 0) = {} /\ Passed(arrival, Len(arrival)) = Nodes
         /\ \A i \in 1..Len(arrival) :
              /\ i - 1 \in 0..Len(arrival) /\ Passed(arrival, i - 1) \in SUBSET Nodes
              /\ arrival[i] \in Nodes /\ arrival[i] \notin Passed(arrival, i - 1)
              /\ Passed(arrival, i) = Passed(arrival, i - 1) \cup {arrival[i]}
<1> DEFINE n == Len(arrival)
<1>1. n \in Nat /\ \A i \in 1..n : arrival[i] \in Nodes
  BY ArrivalFacts, Zenon
<1>2. Passed(arrival, 0) = {}
  BY DEF Passed
<1>3. Passed(arrival, n) = Nodes
  <2>1. \A m \in Nodes : \E i \in 1..n : arrival[i] = m
    BY ArrivalFacts, Zenon
  <2> HIDE DEF n
  <2> QED
    BY <1>1, <2>1 DEF Passed
<1>4. ASSUME NEW i \in 1..n
      PROVE  /\ i - 1 \in 0..n /\ Passed(arrival, i - 1) \in SUBSET Nodes
             /\ arrival[i] \in Nodes /\ arrival[i] \notin Passed(arrival, i - 1)
             /\ Passed(arrival, i) = Passed(arrival, i - 1) \cup {arrival[i]}
  <2> HIDE DEF n
  <2>1. /\ i - 1 \in 0..n
        /\ \A k : k \in 1..i <=> k \in 1..(i - 1) \/ k = i
    BY <1>1
  <2>2. Passed(arrival, i) = Passed(arrival, i - 1) \cup {arrival[i]}
    BY <2>1, Zenon DEF Passed
  <2>3. \A k \in 1..(i - 1) : k \in 1..n /\ k # i
    BY <1>1
  <2>4. Passed(arrival, i - 1) \in SUBSET Nodes
    <3>1. \A k \in 1..(i - 1) : arrival[k] \in Nodes
      BY <1>1, <2>3, Zenon
    <3> QED
      BY <3>1, Zenon DEF Passed
  <2>5. arrival[i] \notin Passed(arrival, i - 1)
    <3>1. \A k \in 1..n : arrival[i] = arrival[k] => i = k
      BY ArrivalFacts, Zenon DEF n
    <3>2. \A k \in 1..(i - 1) : arrival[i] # arrival[k]
      BY <2>3, <3>1, Zenon
    <3> QED
      BY <3>2, Zenon DEF Passed
  <2> QED
    BY <1>1, <2>1, <2>2, <2>4, <2>5, Zenon
<1> QED
  BY <1>2, <1>3, <1>4, Zenon DEF n

\* The ADD pass of SetMembers, in whatever order, gives the circle of the members and
\* the nodes that join.
LEMMA AddPassFacts ==
  ASSUME place \in Placements, members \in SUBSET Nodes, NEW joining \in SUBSET Nodes,
         NEW arrival \in Arrivals
  PROVE  AddPass(Ring(members), joining, arrival) = Ring(members \cup joining)
<1> DEFINE n == Len(arrival)
           J == joining \ members
           So(i) == members \cup (Passed(arrival, i) \cap J)
           Step(r, i) == IF i = 0 THEN Ring(members)
                         ELSE IF arrival[i] \in J THEN RingAdd(r[i - 1], arrival[i])
                         ELSE r[i - 1]
           f == [i \in 0..n |-> Ring(So(i))]
           g == CHOOSE r : r = [i \in 0..n |-> Step(r, i)]
<1>1. n \in Nat
  BY ArrivalFacts, Zenon
<1>2. /\ So(0) = members /\ So(n) = members \cup joining
      /\ \A i \in 1..n : So(i - 1) \in SUBSET Nodes
  BY PassedFacts, Zenon
<1>3. ASSUME NEW i \in 1..n
      PROVE  Ring(So(i)) = IF arrival[i] \in J THEN RingAdd(Ring(So(i - 1)), arrival[i])
                           ELSE Ring(So(i - 1))
  <2>1. /\ arrival[i] \in Nodes /\ arrival[i] \notin Passed(arrival, i - 1)
        /\ Passed(arrival, i) = Passed(arrival, i - 1) \cup {arrival[i]}
    BY PassedFacts, Zenon
  <2>2. CASE arrival[i] \in J
    <3>1. So(i) = So(i - 1) \cup {arrival[i]} /\ arrival[i] \notin So(i - 1)
      BY <2>1, <2>2, Zenon
    <3> HIDE DEF So
    <3>2. RingAdd(Ring(So(i - 1)), arrival[i]) = Ring(So(i - 1) \cup {arrival[i]})
      BY <1>2, <2>1, <3>1, RingAddFacts, Zenon
    <3> QED
      BY <2>2, <3>1, <3>2, Zenon
  <2>3. CASE arrival[i] \notin J
    <3>1. So(i) = So(i - 1)
      BY <2>1, <2>3, Zenon
    <3> QED
      BY <2>3, <3>1, Zenon
  <2> QED
    BY <2>2, <2>3, Zenon
<1>4. f = [i \in 0..n |-> Step(f, i)]
  <2> SUFFICES ASSUME NEW i \in 0..n
               PROVE  Ring(So(i)) = Step(f, i)
    BY Zenon
  <2>1. CASE i = 0
    BY <1>2, <2>1, Zenon
  <2>2. CASE i # 0
    <3>1. i \in 1..n /\ i - 1 \in 0..n
      BY <1>1, <2>2
    <3>2. f[i - 1] = Ring(So(i - 1))
      BY <3>1, Zenon
    <3> QED
      BY <1>3, <2>2, <3>1, <3>2, Zenon
  <2> QED
    BY <2>1, <2>2, Zenon
<1>5. g = [i \in 0..n |-> Step(g, i)]
  <2> HIDE DEF f, Step
  <2> QED
    BY <1>4, Zenon
<1>6. f[n] = g[n]
  <2>1. f[0] = Step(f, 0) /\ g[0] = Step(g, 0)
    <3>1. 0 \in 0..n
      BY <1>1
    <3> HIDE DEF f, g, Step
    <3> QED
      BY <1>4, <1>5, <3>1
  <2>2. ASSUME NEW i \in 1..n, f[i - 1] = g[i - 1]
        PROVE  f[i] = g[i]
    <3>1. i \in 0..n
      BY <1>1
    <3>2. f[i] = Step(f, i) /\ g[i] = Step(g, i)
      <4> HIDE DEF f, g, Step
      <4> QED
        BY <1>4, <1>5, <3>1
    <3> HIDE DEF f, g
    <3> QED
      BY <2>2, <3>2
  <2>3. f[0] = g[0]
    <3> HIDE DEF f, g
    <3> QED
      BY <2>1, Zenon
  <2> HIDE DEF f, g
  <2> QED
    BY <1>1, <2>2, <2>3, SameLoop, Zenon
<1>7. AddPass(Ring(members), joining, arrival) = g[n]
  BY Zenon DEF AddPass
<1>8. f[n] = Ring(So(n))
  BY <1>1
<1> HIDE DEF f, g, So
<1> QED
  BY <1>2, <1>6, <1>7, <1>8, Zenon

\* The REMOVE pass, in whatever order, leaves the circle of the nodes that stay.
LEMMA RemovePassFacts ==
  ASSUME place \in Placements, NEW M \in SUBSET Nodes, NEW leaving \in SUBSET Nodes,
         NEW arrival \in Arrivals
  PROVE  RemovePass(Ring(M), leaving, arrival) = Ring(M \ leaving)
<1> DEFINE n == Len(arrival)
           So(i) == M \ (Passed(arrival, i) \cap leaving)
           Step(r, i) == IF i = 0 THEN Ring(M)
                         ELSE IF arrival[i] \in leaving THEN RingRemove(r[i - 1], arrival[i])
                         ELSE r[i - 1]
           f == [i \in 0..n |-> Ring(So(i))]
           g == CHOOSE r : r = [i \in 0..n |-> Step(r, i)]
<1>1. n \in Nat
  BY ArrivalFacts, Zenon
<1>2. /\ So(0) = M /\ So(n) = M \ leaving
      /\ \A i \in 1..n : So(i - 1) \in SUBSET Nodes
  BY PassedFacts, Zenon
<1>3. ASSUME NEW i \in 1..n
      PROVE  Ring(So(i)) = IF arrival[i] \in leaving THEN RingRemove(Ring(So(i - 1)), arrival[i])
                           ELSE Ring(So(i - 1))
  <2>1. /\ arrival[i] \in Nodes /\ arrival[i] \notin Passed(arrival, i - 1)
        /\ Passed(arrival, i) = Passed(arrival, i - 1) \cup {arrival[i]}
    BY PassedFacts, Zenon
  <2>2. CASE arrival[i] \in leaving
    <3>1. So(i) = So(i - 1) \ {arrival[i]}
      BY <2>1, <2>2, Zenon
    <3> HIDE DEF So
    <3>2. RingRemove(Ring(So(i - 1)), arrival[i]) = Ring(So(i - 1) \ {arrival[i]})
      BY <1>2, <2>1, <3>1, RingRemoveFacts, Zenon
    <3> QED
      BY <2>2, <3>1, <3>2, Zenon
  <2>3. CASE arrival[i] \notin leaving
    <3>1. So(i) = So(i - 1)
      BY <2>1, <2>3, Zenon
    <3> QED
      BY <2>3, <3>1, Zenon
  <2> QED
    BY <2>2, <2>3, Zenon
<1>4. f = [i \in 0..n |-> Step(f, i)]
  <2> SUFFICES ASSUME NEW i \in 0..n
               PROVE  Ring(So(i)) = Step(f, i)
    BY Zenon
  <2>1. CASE i = 0
    BY <1>2, <2>1, Zenon
  <2>2. CASE i # 0
    <3>1. i \in 1..n /\ i - 1 \in 0..n
      BY <1>1, <2>2
    <3>2. f[i - 1] = Ring(So(i - 1))
      BY <3>1, Zenon
    <3> QED
      BY <1>3, <2>2, <3>1, <3>2, Zenon
  <2> QED
    BY <2>1, <2>2, Zenon
<1>5. g = [i \in 0..n |-> Step(g, i)]
  <2> HIDE DEF f, Step
  <2> QED
    BY <1>4, Zenon
<1>6. f[n] = g[n]
  <2>1. f[0] = Step(f, 0) /\ g[0] = Step(g, 0)
    <3>1. 0 \in 0..n
      BY <1>1
    <3> HIDE DEF f, g, Step
    <3> QED
      BY <1>4, <1>5, <3>1
  <2>2. ASSUME NEW i \in 1..n, f[i - 1] = g[i - 1]
        PROVE  f[i] = g[i]
    <3>1. i \in 0..n
      BY <1>1
    <3>2. f[i] = Step(f, i) /\ g[i] = Step(g, i)
      <4> HIDE DEF f, g, Step
      <4> QED
        BY <1>4, <1>5, <3>1
    <3> HIDE DEF f, g
    <3> QED
      BY <2>2, <3>2
  <2>3. f[0] = g[0]
    <3> HIDE DEF f, g
    <3> QED
      BY <2>1, Zenon
  <2> HIDE DEF f, g
  <2> QED
    BY <1>1, <2>2, <2>3, SameLoop, Zenon
<1>7. RemovePass(Ring(M), leaving, arrival) = g[n]
  BY Zenon DEF RemovePass
<1>8. f[n] = Ring(So(n))
  BY <1>1
<1> HIDE DEF f, g, So
<1> QED
  BY <1>2, <1>6, <1>7, <1>8, Zenon

-----------------------------------------------------------------------------
(* The invariant.                                                          *)

IInv == TypeOK /\ place \in Placements /\ points = Ring(members)

LEMMA SnapshotType ==
  ASSUME NEW desired \in Snapshots
  PROVE  DOMAIN desired \in SUBSET Nodes /\ \A n \in DOMAIN desired : desired[n] \in Addrs
<1>1. PICK S \in SUBSET Nodes : desired \in [S -> Addrs]
  BY Zenon DEF Snapshots
<1> QED
  BY <1>1, Zenon

LEMMA RingMoves ==
  ASSUME place' = place
  PROVE  Ring(members)' = Ring(members')
<1>1. PointsOf(members)' = PointsOf(members')
  BY DEF PointsOf
<1> QED
  BY <1>1, Zenon DEF Ring

LEMMA SetMembersKeepsRing ==
  ASSUME IInv, NEW desired \in Snapshots, NEW arrival \in Arrivals, SetMembers(desired, arrival)
  PROVE  IInv'
<1> DEFINE joining == Joining(desired)
           leaving == Leaving(desired)
<1>1. /\ place' = place /\ closed' = closed
      /\ members' = (members \cup joining) \ leaving
      /\ points' = RemovePass(AddPass(points, joining, arrival), leaving, arrival)
      /\ pool' = [n \in (DOMAIN pool \cup joining) \ leaving |->
                    IF n \in DOMAIN pool THEN pool[n] ELSE desired[n]]
  BY Zenon DEF SetMembers, Reconnect
<1>2. DOMAIN desired \in SUBSET Nodes /\ \A n \in DOMAIN desired : desired[n] \in Addrs
  BY SnapshotType, Zenon
<1>3. /\ place \in Placements /\ points = Ring(members) /\ members \in SUBSET Nodes
      /\ DOMAIN pool \in SUBSET Nodes /\ \A n \in DOMAIN pool : pool[n] \in Addrs \ {BadAddr}
      /\ place \in [Nodes -> [1..VNodes -> 0..(Space - 1)]] /\ closed \in BOOLEAN
  BY Zenon DEF IInv, TypeOK
<1>4. /\ joining \in SUBSET Nodes /\ leaving \in SUBSET Nodes
      /\ \A n \in joining : desired[n] \in Addrs \ {BadAddr}
  BY <1>2, <1>3, Zenon DEF Joining, Leaving
<1> HIDE DEF joining, leaving
<1>5. AddPass(Ring(members), joining, arrival) = Ring(members \cup joining)
  BY <1>3, <1>4, AddPassFacts, Zenon
<1>6. members \cup joining \in SUBSET Nodes /\ members' \in SUBSET Nodes
  BY <1>1, <1>3, <1>4, Zenon
<1>7. RemovePass(Ring(members \cup joining), leaving, arrival)
        = Ring((members \cup joining) \ leaving)
  BY <1>3, <1>4, <1>6, RemovePassFacts, Zenon
<1>8. points' = Ring(members')
  BY <1>1, <1>3, <1>5, <1>7, Zenon
<1>9. points' = Ring(members)'
  BY <1>1, <1>8, RingMoves, Zenon
<1>10. points' \in Seq(Points)
  BY <1>3, <1>6, <1>8, RingFacts, Zenon
<1>11. DOMAIN pool' \in SUBSET Nodes /\ \A n \in DOMAIN pool' : pool'[n] \in Addrs \ {BadAddr}
  <2>1. DOMAIN pool' = (DOMAIN pool \cup joining) \ leaving
    BY <1>1, Zenon
  <2>2. ASSUME NEW n \in DOMAIN pool'
        PROVE  pool'[n] \in Addrs \ {BadAddr}
    <3>1. pool'[n] = IF n \in DOMAIN pool THEN pool[n] ELSE desired[n]
      BY <1>1, <2>1, Zenon
    <3>2. n \in DOMAIN pool \/ n \in joining
      BY <2>1, Zenon
    <3> QED
      BY <1>3, <1>4, <3>1, <3>2, Zenon
  <2> QED
    BY <1>3, <1>4, <2>1, <2>2, Zenon
<1>12. TypeOK'
  BY <1>1, <1>3, <1>6, <1>10, <1>11, Zenon DEF TypeOK
<1>13. (place \in Placements)'
  BY <1>1, <1>3, Zenon DEF Placements
<1> QED
  BY <1>9, <1>12, <1>13, Zenon DEF IInv

LEMMA CloseKeepsRing ==
  ASSUME IInv, Close
  PROVE  IInv'
<1>1. place' = place /\ points' = points /\ members' = members /\ pool' = << >> /\ closed' = TRUE
  BY Zenon DEF Close
<1>2. DOMAIN pool' = {}
  BY <1>1
<1>3. TypeOK'
  BY <1>1, <1>2, Zenon DEF IInv, TypeOK
<1>4. Ring(members)' = Ring(members)
  BY <1>1, RingMoves, Zenon
<1> QED
  BY <1>1, <1>3, <1>4, Zenon DEF IInv, Placements

LEMMA InitRing ==
  ASSUME Init
  PROVE  IInv
<1>1. place \in Placements /\ points = <<>> /\ members = {} /\ pool = << >> /\ closed = FALSE
  BY Zenon DEF Init
<1>2. place \in [Nodes -> [1..VNodes -> 0..(Space - 1)]]
  BY <1>1, Zenon DEF Placements
<1>3. points \in Seq(Points) /\ DOMAIN pool = {} /\ DOMAIN points = {}
  BY <1>1
<1>4. Ascending(points) /\ Range(points) = {}
  BY <1>3, Zenon DEF Ascending, Range
<1>5. PointsOf(members) = {}
  BY <1>1 DEF PointsOf
<1>6. points = Ring(members)
  BY <1>3, <1>4, <1>5, CircleUnique, Zenon DEF Ring
<1> QED
  BY <1>1, <1>2, <1>3, <1>6, Zenon DEF IInv, TypeOK

\* points is the circle of members, whatever joins and leaves led there and in whatever
\* order SetMembers went over them; with it, everything keeps its type.
THEOREM RingInvariance == Spec => []IInv
<1>1. Init => IInv
  BY InitRing
<1>2. IInv /\ [Next]_vars => IInv'
  <2> SUFFICES ASSUME IInv, [Next]_vars
               PROVE  IInv'
    BY Zenon
  <2>1. CASE \E desired \in Snapshots, arrival \in Arrivals : SetMembers(desired, arrival)
    BY <2>1, SetMembersKeepsRing, Zenon
  <2>2. CASE Close
    BY <2>2, CloseKeepsRing, Zenon
  <2>3. CASE UNCHANGED vars
    <3>1. place' = place /\ members' = members
      BY <2>3, Zenon DEF vars
    <3>2. Ring(members)' = Ring(members)
      BY <3>1, RingMoves, Zenon
    <3> QED
      BY <2>3, <3>2, Zenon DEF vars, IInv, TypeOK, Placements
  <2> QED
    BY <2>1, <2>2, <2>3, Zenon DEF Next
<1> QED
  BY <1>1, <1>2, PTL DEF Spec

\* The types of the state.
THEOREM RouterTyped == Spec => []TypeOK
<1>1. IInv => TypeOK
  BY Zenon DEF IInv
<1> QED
  BY <1>1, RingInvariance, PTL

\* What every process relies on to route alike: the circle is the sorted points of the
\* members and nothing of how they came to be members.
THEOREM RingIsHistoryIndependent == Spec => []HistoryIndependent
<1>1. IInv => HistoryIndependent
  <2> SUFFICES ASSUME IInv PROVE HistoryIndependent
    BY Zenon
  <2>1. place \in Placements /\ points = Ring(members) /\ members \in SUBSET Nodes
    BY Zenon DEF IInv, TypeOK
  <2>2. Range(points) = PointsOf(members) /\ Ascending(points)
    BY <2>1, RingFacts, Zenon
  <2>3. Range(points) = {[hash |-> place[n][i], node |-> n] : n \in members, i \in 1..VNodes}
    BY <2>2 DEF PointsOf
  <2>4. \A i, j \in DOMAIN points : i < j => points[i].hash < points[j].hash
    BY <2>2, Zenon DEF Ascending
  <2> QED
    BY <2>3, <2>4 DEF HistoryIndependent
<1> QED
  BY <1>1, RingInvariance, PTL

-----------------------------------------------------------------------------
(* The clockwise walk from a key.                                          *)

LEMMA ModBelow ==
  ASSUME NEW m \in Nat, NEW x \in 0..(m - 1)
  PROVE  x % m = x
  OBVIOUS

LEMMA ModAbove ==
  ASSUME NEW m \in Nat, NEW x \in m..(2 * m - 1)
  PROVE  x % m = x - m
  OBVIOUS

LEMMA ModNegative ==
  ASSUME NEW m \in Nat, NEW x \in (0 - m)..(0 - 1)
  PROVE  x % m = x + m
  OBVIOUS

\* The index of the i-th point the walk meets, the nodes it meets, and their distances.
Turn(h, i) == ((Search(h) + i - 2) % Len(points)) + 1
Walk(h) == [i \in DOMAIN points |-> points[Turn(h, i)].node]
Gap(h, i) == (points[Turn(h, i)].hash - h) % Space

LEMMA PointsAre ==
  ASSUME IInv
  PROVE  /\ Len(points) \in Nat /\ DOMAIN points = 1..Len(points)
         /\ \A i \in 1..Len(points) : points[i].hash \in 0..(Space - 1)
         /\ \A i, j \in 1..Len(points) : i < j => points[i].hash < points[j].hash
         /\ \A i \in 1..Len(points) : points[i] \in PointsOf(members)
         /\ \A p \in PointsOf(members) : \E i \in 1..Len(points) : points[i] = p
<1>1. place \in Placements /\ points = Ring(members) /\ members \in SUBSET Nodes
  BY Zenon DEF IInv, TypeOK
<1>2. points \in Seq(Points) /\ Range(points) = PointsOf(members) /\ Ascending(points)
  BY <1>1, RingFacts, Zenon
<1>3. /\ Len(points) \in Nat /\ DOMAIN points = 1..Len(points)
      /\ \A i \in 1..Len(points) : points[i] \in Points
  BY <1>2
<1>4. \A i \in 1..Len(points) : points[i].hash \in 0..(Space - 1)
  BY <1>3, PointType, Zenon
<1>5. \A i, j \in 1..Len(points) : i < j => points[i].hash < points[j].hash
  BY <1>2, <1>3, Zenon DEF Ascending
<1>6. /\ \A i \in 1..Len(points) : points[i] \in PointsOf(members)
      /\ \A p \in PointsOf(members) : \E i \in 1..Len(points) : points[i] = p
  BY <1>2, <1>3, Zenon DEF Range
<1> QED
  BY <1>3, <1>4, <1>5, <1>6, Zenon

\* sort.Search with the wrap: the points before the index are behind the key, and the one
\* at the index is ahead of it unless all are behind.
LEMMA SearchFacts ==
  ASSUME IInv, NEW h \in 0..(Space - 1), Len(points) > 0
  PROVE  /\ Search(h) \in 1..Len(points)
         /\ \A k \in 1..Len(points) : k < Search(h) => points[k].hash < h
         /\ \/ points[Search(h)].hash >= h
            \/ Search(h) = 1 /\ \A k \in 1..Len(points) : points[k].hash < h
<1> DEFINE n == Len(points)
           s == Search(h)
           At(i) == points[i].hash >= h
           after == {i \in 1..n : At(i)}
<1>1. n \in Nat /\ DOMAIN points = 1..n /\ \A i \in 1..n : points[i].hash \in 0..(Space - 1)
  BY PointsAre, Zenon
<1>2. s = IF \A i \in DOMAIN points : points[i].hash < h THEN 1
          ELSE CHOOSE i \in DOMAIN points : At(i) /\ \A j \in 1..(i - 1) : points[j].hash < h
  BY Zenon DEF Search
<1>3. Space \in Nat
  BY RouterAssumption, Zenon
<1>4. n > 0
  BY Zenon
<1> HIDE DEF s, n
<1>5. \A k \in 1..n : points[k].hash < h <=> k \notin after
  BY <1>1, <1>3
<1>6. after \subseteq Nat
  BY <1>1
<1>7. CASE \A i \in 1..n : points[i].hash < h
  <2>1. s = 1
    BY <1>1, <1>2, <1>7, Zenon
  <2>2. s \in 1..n
    BY <1>1, <1>4, <2>1
  <2> QED
    BY <1>7, <2>1, <2>2, Zenon DEF s, n
<1>8. CASE ~ \A i \in 1..n : points[i].hash < h
  <2>1. after # {}
    BY <1>5, <1>8, Zenon
  <2>2. PICK i \in after : \A j \in after : i <= j
    BY <1>6, <2>1, Smallest, Zenon
  <2>3. \A j \in 1..(i - 1) : points[j].hash < h
    <3>1. \A j \in 1..(i - 1) : j \in 1..n /\ ~ (i <= j)
      BY <1>1
    <3> QED
      BY <1>5, <2>2, <3>1, Zenon
  <2>4. \E k \in DOMAIN points : At(k) /\ \A j \in 1..(k - 1) : points[j].hash < h
    BY <1>1, <2>3, Zenon
  <2>5. s \in 1..n /\ At(s) /\ \A j \in 1..(s - 1) : points[j].hash < h
    BY <1>1, <1>2, <1>8, <2>4, Zenon
  <2>6. ASSUME NEW k \in 1..n, k < s
        PROVE  points[k].hash < h
    <3>1. k \in 1..(s - 1)
      BY <1>1, <2>5, <2>6
    <3> QED
      BY <2>5, <3>1, Zenon
  <2> QED
    BY <2>5, <2>6, Zenon DEF s, n
<1> QED
  BY <1>7, <1>8, Zenon

\* The walk turns to the point behind the last after the one at its end.
LEMMA TurnFacts ==
  ASSUME NEW n \in Nat, NEW s \in 1..n, NEW i \in 1..n
  PROVE  ((s + i - 2) % n) + 1 = IF s + i - 1 <= n THEN s + i - 1 ELSE s + i - 1 - n
<1>1. CASE s + i - 1 <= n
  <2>1. s + i - 2 \in 0..(n - 1)
    BY <1>1
  <2>2. (s + i - 2) % n = s + i - 2
    BY <2>1, ModBelow, Zenon
  <2> QED
    BY <1>1, <2>2
<1>2. CASE ~(s + i - 1 <= n)
  <2>1. s + i - 2 \in n..(2 * n - 1)
    BY <1>2
  <2>2. (s + i - 2) % n = s + i - 2 - n
    BY <2>1, ModAbove
  <2> QED
    BY <1>2, <2>2
<1> QED
  BY <1>1, <1>2

\* The clockwise distance from a key to a position.
LEMMA GapFacts ==
  ASSUME NEW h \in 0..(Space - 1), NEW x \in 0..(Space - 1)
  PROVE  (x - h) % Space = IF x >= h THEN x - h ELSE x - h + Space
<1>1. Space \in Nat
  BY RouterAssumption, Zenon
<1>2. CASE x >= h
  <2>1. x - h \in 0..(Space - 1)
    BY <1>1, <1>2
  <2>2. (x - h) % Space = x - h
    BY <1>1, <2>1, ModBelow, Zenon
  <2> QED
    BY <1>2, <2>2
<1>3. CASE ~(x >= h)
  <2>1. x - h \in (0 - Space)..(0 - 1)
    BY <1>1, <1>3
  <2>2. (x - h) % Space = x - h + Space
    BY <1>1, <2>1, ModNegative, Zenon
  <2> QED
    BY <1>3, <2>2
<1> QED
  BY <1>2, <1>3

\* The walk meets every point once, by growing distance from the key.
LEMMA WalkGrows ==
  ASSUME IInv, NEW h \in 0..(Space - 1)
  PROVE  /\ \A i \in 1..Len(points) : Turn(h, i) \in 1..Len(points) /\ Gap(h, i) \in Nat
         /\ \A k \in 1..Len(points) : \E i \in 1..Len(points) : Turn(h, i) = k
         /\ \A i, j \in 1..Len(points) : i < j => Gap(h, i) < Gap(h, j)
         /\ Len(points) > 0 => Turn(h, 1) = Search(h)
<1> DEFINE n == Len(points)
           s == Search(h)
           H(k) == points[k].hash
<1>1. n \in Nat /\ \A k \in 1..n : H(k) \in 0..(Space - 1)
  BY PointsAre, Zenon
<1>2. \A j, k \in 1..n : j < k => H(j) < H(k)
  BY PointsAre, Zenon
<1>3. Space \in Nat
  BY RouterAssumption, Zenon
<1>4. CASE n = 0
  BY <1>4
<1>5. CASE n > 0
  <2>1. s \in 1..n
    BY <1>5, SearchFacts, Zenon
  <2>2. \A k \in 1..n : k < s => H(k) < h
    BY <1>5, SearchFacts, Zenon
  <2>3. H(s) >= h \/ (s = 1 /\ \A k \in 1..n : H(k) < h)
    BY <1>5, SearchFacts, Zenon
  <2>4. ASSUME NEW i \in 1..n
        PROVE  Turn(h, i) = IF s + i - 1 <= n THEN s + i - 1 ELSE s + i - 1 - n
    BY <1>1, <2>1, TurnFacts, Zenon DEF Turn
  <2>5. ASSUME NEW i \in 1..n
        PROVE  Gap(h, i) = (H(Turn(h, i)) - h) % Space
    BY Zenon DEF Gap
  <2>6. ASSUME NEW k \in 1..n
        PROVE  (H(k) - h) % Space = IF H(k) >= h THEN H(k) - h ELSE H(k) - h + Space
    BY <1>1, GapFacts, Zenon
  <2> HIDE DEF n, s, H
  <2>7. ASSUME NEW i \in 1..n
        PROVE  Turn(h, i) \in 1..n
    BY <1>1, <2>1, <2>4
  <2>8. ASSUME NEW i \in 1..n
        PROVE  /\ Gap(h, i) = IF H(Turn(h, i)) >= h THEN H(Turn(h, i)) - h
                              ELSE H(Turn(h, i)) - h + Space
               /\ Gap(h, i) \in Nat
    <3>1. Gap(h, i) = IF H(Turn(h, i)) >= h THEN H(Turn(h, i)) - h
                      ELSE H(Turn(h, i)) - h + Space
      BY <2>5, <2>6, <2>7, Zenon
    <3>2. H(Turn(h, i)) \in 0..(Space - 1)
      BY <1>1, <2>7, Zenon
    <3> QED
      BY <1>3, <3>1, <3>2
  <2>9. ASSUME NEW k \in 1..n
        PROVE  \E i \in 1..n : Turn(h, i) = k
    <3>1. CASE s <= k
      <4>1. k - s + 1 \in 1..n /\ s + (k - s + 1) - 1 = k
        BY <1>1, <2>1, <3>1
      <4>2. Turn(h, k - s + 1) = k
        BY <1>1, <2>1, <2>4, <4>1
      <4> QED
        BY <4>1, <4>2, Zenon
    <3>2. CASE ~(s <= k)
      <4>1. k - s + 1 + n \in 1..n /\ s + (k - s + 1 + n) - 1 = k + n
        BY <1>1, <2>1, <3>2
      <4>2. Turn(h, k - s + 1 + n) = k
        BY <1>1, <2>1, <2>4, <4>1
      <4> QED
        BY <4>1, <4>2, Zenon
    <3> QED
      BY <3>1, <3>2, Zenon
  <2>10. ASSUME NEW i \in 1..n, NEW j \in 1..n, i < j
         PROVE  Gap(h, i) < Gap(h, j)
    <3> DEFINE a == Turn(h, i)
               b == Turn(h, j)
    <3>1. /\ a \in 1..n /\ b \in 1..n
          /\ a = IF s + i - 1 <= n THEN s + i - 1 ELSE s + i - 1 - n
          /\ b = IF s + j - 1 <= n THEN s + j - 1 ELSE s + j - 1 - n
      BY <2>4, <2>7, Zenon
    <3>2. /\ Gap(h, i) = IF H(a) >= h THEN H(a) - h ELSE H(a) - h + Space
          /\ Gap(h, j) = IF H(b) >= h THEN H(b) - h ELSE H(b) - h + Space
          /\ H(a) \in 0..(Space - 1) /\ H(b) \in 0..(Space - 1) /\ H(s) \in 0..(Space - 1)
      BY <1>1, <2>1, <2>7, <2>8, Zenon
    <3>3. /\ a < b => H(a) < H(b)
          /\ s < a => H(s) < H(a)
          /\ a < s => H(a) < h
          /\ b < s => H(b) < h
      BY <1>2, <2>1, <2>2, <3>1, Zenon
    <3> HIDE DEF a, b
    <3>4. CASE H(s) >= h
      <4>1. a >= s => H(a) >= h
        BY <1>3, <2>1, <3>1, <3>2, <3>3, <3>4
      <4>2. CASE a < b
        <5>1. a >= s \/ (a < s /\ b < s)
          BY <1>1, <2>1, <2>10, <3>1, <4>2
        <5>2. CASE a >= s
          <6>1. H(a) >= h /\ H(a) < H(b)
            BY <3>3, <4>1, <4>2, <5>2, Zenon
          <6> QED
            BY <1>3, <3>2, <6>1
        <5>3. CASE a < s /\ b < s
          <6>1. H(a) < h /\ H(b) < h /\ H(a) < H(b)
            BY <3>3, <4>2, <5>3, Zenon
          <6> QED
            BY <1>3, <3>2, <6>1
        <5> QED
          BY <5>1, <5>2, <5>3, Zenon
      <4>3. CASE ~(a < b)
        <5>1. a >= s /\ b < s
          BY <1>1, <2>1, <2>10, <3>1, <4>3
        <5> QED
          BY <1>3, <3>2, <3>3, <4>1, <5>1
      <4> QED
        BY <4>2, <4>3
    <3>5. CASE s = 1 /\ \A k \in 1..n : H(k) < h
      <4>1. a < b
        BY <1>1, <2>10, <3>1, <3>5
      <4>2. H(a) < h /\ H(b) < h
        BY <3>1, <3>5, Zenon
      <4> QED
        BY <1>3, <3>2, <3>3, <4>1, <4>2
    <3> QED
      BY <2>3, <3>4, <3>5, Zenon
  <2>11. Turn(h, 1) = s
    <3>1. 1 \in 1..n
      BY <1>1, <1>5
    <3> QED
      BY <1>1, <2>1, <2>4, <3>1
  <2> QED
    BY <2>7, <2>8, <2>9, <2>10, <2>11, Zenon DEF n, s
<1> QED
  BY <1>1, <1>4, <1>5

\* The nodes the walk meets are the members, each at the distances of its points.
LEMMA WalkFacts ==
  ASSUME IInv, NEW h \in 0..(Space - 1)
  PROVE  /\ DOMAIN Walk(h) = 1..Len(points)
         /\ \A i \in 1..Len(points) : Walk(h)[i] \in members
         /\ \A i \in 1..Len(points) : \E k \in 1..VNodes :
              Gap(h, i) = (place[Walk(h)[i]][k] - h) % Space
         /\ \A n \in members, k \in 1..VNodes : \E i \in 1..Len(points) :
              Walk(h)[i] = n /\ Gap(h, i) = (place[n][k] - h) % Space
<1> DEFINE L == Len(points)
<1>1. DOMAIN points = 1..L
  BY PointsAre, Zenon
<1>2. DOMAIN Walk(h) = 1..L /\ \A i \in 1..L : Walk(h)[i] = points[Turn(h, i)].node
  BY <1>1, Zenon DEF Walk
<1>3. \A i \in 1..L : Turn(h, i) \in 1..L
  BY WalkGrows, Zenon
<1>4. ASSUME NEW i \in 1..L
      PROVE  \E n \in members, k \in 1..VNodes :
               Walk(h)[i] = n /\ points[Turn(h, i)].hash = place[n][k]
  <2>1. points[Turn(h, i)] \in PointsOf(members)
    BY <1>3, PointsAre, Zenon
  <2>2. PICK n \in members, k \in 1..VNodes :
          points[Turn(h, i)] = [hash |-> place[n][k], node |-> n]
    BY <2>1, InPoints, Zenon
  <2>3. points[Turn(h, i)].hash = place[n][k] /\ points[Turn(h, i)].node = n
    BY <2>2
  <2> QED
    BY <1>2, <2>3, Zenon
<1>5. ASSUME NEW i \in 1..L
      PROVE  /\ Walk(h)[i] \in members
             /\ \E k \in 1..VNodes : Gap(h, i) = (place[Walk(h)[i]][k] - h) % Space
  BY <1>4, Zenon DEF Gap
<1>6. ASSUME NEW n \in members, NEW k \in 1..VNodes
      PROVE  \E i \in 1..L : Walk(h)[i] = n /\ Gap(h, i) = (place[n][k] - h) % Space
  <2> DEFINE p == [hash |-> place[n][k], node |-> n]
  <2>1. p \in PointsOf(members)
    BY InPoints, Zenon
  <2>2. p.hash = place[n][k] /\ p.node = n
    OBVIOUS
  <2> HIDE DEF p
  <2>3. PICK q \in 1..L : points[q] = p
    BY <2>1, PointsAre, Zenon
  <2>4. PICK i \in 1..L : Turn(h, i) = q
    BY WalkGrows, Zenon
  <2> QED
    BY <1>2, <2>2, <2>3, <2>4, Zenon DEF Gap
<1> QED
  BY <1>2, <1>5, <1>6, Zenon

\* The indices at which the walk meets a node for the first time.
Firsts(h) == {i \in DOMAIN Walk(h) : \A j \in 1..(i - 1) : Walk(h)[j] # Walk(h)[i]}

\* A node is met first at its nearest point.
LEMMA FirstIsNearest ==
  ASSUME IInv, NEW h \in 0..(Space - 1), NEW i \in Firsts(h)
  PROVE  Distance(h, Walk(h)[i]) = Gap(h, i)
<1> DEFINE L == Len(points)
           n == Walk(h)[i]
           gaps == {(place[n][k] - h) % Space : k \in 1..VNodes}
<1>1. L \in Nat /\ i \in 1..L /\ \A j \in 1..(i - 1) : Walk(h)[j] # n
  BY WalkFacts, PointsAre, Zenon DEF Firsts
<1>2. \A j \in 1..L : Gap(h, j) \in Nat
  BY WalkGrows, Zenon
<1>3. Gap(h, i) \in gaps
  BY <1>1, WalkFacts, Zenon
<1>4. ASSUME NEW e \in gaps
      PROVE  Gap(h, i) <= e
  <2>1. PICK k \in 1..VNodes : e = (place[n][k] - h) % Space
    BY Zenon
  <2>2. n \in members
    BY <1>1, WalkFacts, Zenon
  <2>3. PICK j \in 1..L : Walk(h)[j] = n /\ Gap(h, j) = (place[n][k] - h) % Space
    BY <2>2, WalkFacts, Zenon
  <2>4. e = Gap(h, j) /\ j \notin 1..(i - 1)
    BY <1>1, <2>1, <2>3, Zenon
  <2>5. i < j => Gap(h, i) < Gap(h, j)
    BY <1>1, WalkGrows, Zenon
  <2> HIDE DEF gaps, n, L
  <2>6. i < j \/ i = j
    BY <1>1, <2>4
  <2>7. Gap(h, i) \in Nat /\ Gap(h, j) \in Nat
    BY <1>1, <1>2, Zenon
  <2> QED
    BY <2>4, <2>5, <2>6, <2>7
<1>5. gaps \subseteq Nat
  <2> SUFFICES ASSUME NEW k \in 1..VNodes
               PROVE  (place[n][k] - h) % Space \in Nat
    BY Zenon
  <2>1. n \in members
    BY <1>1, WalkFacts, Zenon
  <2>2. PICK j \in 1..L : Walk(h)[j] = n /\ Gap(h, j) = (place[n][k] - h) % Space
    BY <2>1, WalkFacts, Zenon
  <2> QED
    BY <1>2, <2>2, Zenon
<1>6. Distance(h, n) = CHOOSE d \in gaps : \A e \in gaps : d <= e
  BY Zenon DEF Distance
<1> HIDE DEF gaps, n
<1>7. ASSUME NEW d \in gaps, \A e \in gaps : d <= e
      PROVE  d = Gap(h, i)
  <2>1. d \in Nat /\ Gap(h, i) \in Nat /\ d <= Gap(h, i) /\ Gap(h, i) <= d
    BY <1>3, <1>4, <1>5, <1>7, Zenon
  <2> QED
    BY <2>1
<1>8. Distance(h, n) = Gap(h, i)
  BY <1>3, <1>4, <1>6, <1>7, Zenon
<1> QED
  BY <1>8, Zenon DEF n

\* Every member is met, and met first once.
LEMMA FirstsFacts ==
  ASSUME IInv, NEW h \in 0..(Space - 1)
  PROVE  /\ Firsts(h) \in SUBSET Nat /\ Firsts(h) \in SUBSET (1..Len(points))
         /\ IsFiniteSet(Firsts(h)) /\ Cardinality(Firsts(h)) = Cardinality(members)
         /\ \A i \in Firsts(h) : Walk(h)[i] \in members
         /\ \A n \in members : \E i \in Firsts(h) : Walk(h)[i] = n
<1> DEFINE L == Len(points)
           F == Firsts(h)
<1>1. L \in Nat
  BY PointsAre, Zenon
<1>2. \A i : i \in F <=> i \in 1..L /\ \A j \in 1..(i - 1) : Walk(h)[j] # Walk(h)[i]
  BY WalkFacts, Zenon DEF Firsts
<1>3. F \in SUBSET (1..L)
  BY <1>2, Zenon
<1>4. F \in SUBSET Nat
  BY <1>1, <1>3
<1>5. IsFiniteSet(1..L)
  BY <1>1, FS_Interval
<1>6. IsFiniteSet(F)
  BY <1>3, <1>5, FS_Subset, Zenon
<1>7. \A i \in F : Walk(h)[i] \in members
  BY <1>3, WalkFacts, Zenon
<1>8. ASSUME NEW n \in members
      PROVE  \E i \in F : Walk(h)[i] = n
  <2> DEFINE S == {i \in 1..L : Walk(h)[i] = n}
  <2>1. 1 \in 1..VNodes
    BY RouterAssumption
  <2>2. S # {}
    BY <2>1, WalkFacts, Zenon
  <2>3. S \subseteq Nat
    BY <1>1
  <2>4. PICK i \in S : \A j \in S : i <= j
    BY <2>2, <2>3, Smallest, Zenon
  <2>5. i \in 1..L /\ Walk(h)[i] = n
    BY <2>4, Zenon
  <2>6. ASSUME NEW j \in 1..(i - 1), Walk(h)[j] = Walk(h)[i]
        PROVE  FALSE
    <3>1. j \in 1..L /\ ~(i <= j)
      BY <1>1, <2>5
    <3> QED
      BY <2>4, <2>5, <2>6, <3>1, Zenon
  <2> QED
    BY <1>2, <2>5, <2>6, Zenon
<1>9. ASSUME NEW i \in F, NEW j \in F, Walk(h)[i] = Walk(h)[j]
      PROVE  i = j
  <2>1. i \in 1..L /\ j \in 1..L /\ i \notin 1..(j - 1) /\ j \notin 1..(i - 1)
    BY <1>2, <1>9, Zenon
  <2> QED
    BY <1>1, <2>1
<1>10. ExistsBijection(F, members)
  <2> DEFINE f == [i \in F |-> Walk(h)[i]]
  <2>1. f \in [F -> members] /\ \A i \in F : f[i] = Walk(h)[i]
    BY <1>7, Zenon
  <2>2. f \in Injection(F, members)
    BY <1>9, <2>1, Zenon DEF Injection, IsInjective
  <2>3. f \in Surjection(F, members)
    BY <1>8, <2>1, Zenon DEF Surjection
  <2> QED
    BY <2>2, <2>3, Zenon DEF ExistsBijection, Bijection
<1>11. Cardinality(members) = Cardinality(F)
  BY <1>6, <1>10, FS_Bijection, Zenon
<1> QED
  BY <1>3, <1>4, <1>6, <1>7, <1>8, <1>11, Zenon

LEMMA MembersFinite ==
  ASSUME IInv
  PROVE  /\ Cardinality(members) \in Nat /\ Cardinality(Nodes) \in Nat
         /\ Cardinality(members) <= Cardinality(Nodes)
         /\ Cardinality(members) = 0 <=> members = {}
<1>1. IsFiniteSet(Nodes) /\ members \in SUBSET Nodes
  BY RouterAssumption, Zenon DEF IInv, TypeOK
<1>2. IsFiniteSet(members) /\ Cardinality(members) <= Cardinality(Nodes)
  BY <1>1, FS_Subset, Zenon
<1> QED
  BY <1>1, <1>2, FS_CardinalityType, FS_EmptySet, Zenon

\* LookupN takes the nodes in the order in which the walk meets them first.
LEMMA LookupNFacts ==
  ASSUME IInv, NEW h \in 0..(Space - 1), NEW n \in Nat, NEW t,
         t = IF n > Cardinality(members) THEN Cardinality(members) ELSE n
  PROVE  /\ t \in Nat /\ t <= Cardinality(members)
         /\ LookupN(h, n) \in Seq(Nodes) /\ Len(LookupN(h, n)) = t
         /\ DOMAIN LookupN(h, n) = 1..t
         /\ \A i \in 1..t : /\ Nth(Firsts(h), i) \in Firsts(h)
                            /\ LookupN(h, n)[i] = Walk(h)[Nth(Firsts(h), i)]
                            /\ LookupN(h, n)[i] \in members
<1> DEFINE F == Firsts(h)
           c == Cardinality(members)
<1>1. c \in Nat
  BY MembersFinite, Zenon
<1>2. t \in Nat /\ t <= c
  BY <1>1
<1>3. Cardinality(F) = c
  BY FirstsFacts, Zenon
<1>4. LookupN(h, n) = [i \in 1..t |-> Walk(h)[Nth(F, i)]]
  <2>1. LookupN(h, n) = [i \in 1..(IF n > Cardinality(F) THEN Cardinality(F) ELSE n) |->
                           Walk(h)[Nth(F, i)]]
    BY Zenon DEF LookupN, Walk, Turn, Firsts
  <2> QED
    BY <1>3, <2>1, Zenon
<1>5. ASSUME NEW i \in 1..t
      PROVE  Nth(F, i) \in F /\ Walk(h)[Nth(F, i)] \in members
  <2>1. i \in 1..Cardinality(F)
    <3> HIDE DEF c
    <3> QED
      BY <1>1, <1>2, <1>3
  <2>2. Nth(F, i) \in F
    BY <2>1, FirstsFacts, NthFacts, Zenon
  <2> QED
    BY <2>2, FirstsFacts, Zenon
<1>6. members \in SUBSET Nodes
  BY Zenon DEF IInv, TypeOK
<1>7. LookupN(h, n) \in [1..t -> Nodes]
  <2>1. \A i \in 1..t : Walk(h)[Nth(F, i)] \in Nodes
    BY <1>5, <1>6, Zenon
  <2> QED
    BY <1>4, <2>1, Zenon
<1>8. \A i \in 1..t : LookupN(h, n)[i] = Walk(h)[Nth(F, i)]
  BY <1>4, Zenon
<1>9. LookupN(h, n) \in Seq(Nodes) /\ Len(LookupN(h, n)) = t /\ DOMAIN LookupN(h, n) = 1..t
  BY <1>2, <1>7
<1> QED
  BY <1>2, <1>5, <1>8, <1>9, Zenon

\* The owners of a key, all of them: the members by growing distance.
LEMMA AllOwners ==
  ASSUME IInv, NEW h \in 0..(Space - 1)
  PROVE  LET owners == LookupN(h, Cardinality(Nodes)) IN
         /\ owners \in Seq(Nodes) /\ DOMAIN owners = 1..Cardinality(members)
         /\ Range(owners) = members /\ Len(owners) = Cardinality(members)
         /\ \A i \in DOMAIN owners : Distance(h, owners[i]) \in Nat
         /\ \A i, j \in DOMAIN owners : i < j => Distance(h, owners[i]) < Distance(h, owners[j])
<1> DEFINE owners == LookupN(h, Cardinality(Nodes))
           c == Cardinality(members)
           F == Firsts(h)
<1>1. c \in Nat /\ Cardinality(Nodes) \in Nat /\ c <= Cardinality(Nodes)
  BY MembersFinite, Zenon
<1>2. c = IF Cardinality(Nodes) > c THEN c ELSE Cardinality(Nodes)
  <2> HIDE DEF c
  <2> QED
    BY <1>1
<1>3. /\ owners \in Seq(Nodes) /\ Len(owners) = c /\ DOMAIN owners = 1..c
      /\ \A i \in 1..c : Nth(F, i) \in F /\ owners[i] = Walk(h)[Nth(F, i)] /\ owners[i] \in members
  BY <1>1, <1>2, LookupNFacts, Zenon
<1>4. F \in SUBSET Nat /\ F \in SUBSET (1..Len(points)) /\ IsFiniteSet(F) /\ Cardinality(F) = c
  BY FirstsFacts, Zenon
<1>5. /\ \A i, j \in 1..c : i < j => Nth(F, i) < Nth(F, j)
      /\ \A k \in F : \E i \in 1..c : Nth(F, i) = k
  BY <1>4, NthFacts, Zenon
<1> HIDE DEF owners
<1>6. Range(owners) = members
  <2>1. ASSUME NEW n \in members
        PROVE  \E i \in 1..c : owners[i] = n
    <3>1. PICK k \in F : Walk(h)[k] = n
      BY FirstsFacts, Zenon
    <3> QED
      BY <1>3, <1>5, <3>1, Zenon
  <2> QED
    BY <1>3, <2>1, Zenon DEF Range
<1>7. ASSUME NEW i \in 1..c
      PROVE  Distance(h, owners[i]) = Gap(h, Nth(F, i)) /\ Nth(F, i) \in 1..Len(points)
  BY <1>3, <1>4, FirstIsNearest, Zenon
<1>8. ASSUME NEW i \in 1..c
      PROVE  Distance(h, owners[i]) \in Nat
  BY <1>7, WalkGrows, Zenon
<1>9. ASSUME NEW i \in 1..c, NEW j \in 1..c, i < j
      PROVE  Distance(h, owners[i]) < Distance(h, owners[j])
  <2>1. Gap(h, Nth(F, i)) < Gap(h, Nth(F, j))
    BY <1>5, <1>7, <1>9, WalkGrows, Zenon
  <2> QED
    BY <1>7, <2>1, Zenon
<1> QED
  BY <1>3, <1>6, <1>8, <1>9, Zenon DEF owners

\* The first owner is the node Lookup returns.
LEMMA FirstOwner ==
  ASSUME IInv, NEW h \in 0..(Space - 1), members # {}, NEW n \in Nat, n > 0
  PROVE  LookupN(h, n)[1] = Lookup(h) /\ Lookup(h) \in members
<1> DEFINE L == Len(points)
           c == Cardinality(members)
           F == Firsts(h)
<1>1. c \in Nat /\ c # 0
  BY MembersFinite, Zenon
<1>2. L \in Nat /\ L > 0
  <2>1. L \in Nat
    BY PointsAre, Zenon
  <2>2. PICK i \in F : TRUE
    BY FirstsFacts, Zenon
  <2>3. i \in 1..L
    BY FirstsFacts, Zenon
  <2> QED
    BY <2>1, <2>3
<1>3. 1 \in F
  <2>1. 1 \in 1..L /\ \A j \in 1..(1 - 1) : FALSE
    BY <1>2
  <2> QED
    BY <2>1, WalkFacts, Zenon DEF Firsts
<1>4. F \in SUBSET Nat /\ F \in SUBSET (1..L) /\ IsFiniteSet(F)
  BY FirstsFacts, Zenon
<1>5. Nth(F, 1) = 1
  <2>1. Lower(F, 1) = {}
    <3>1. \A k \in 1..L : ~ (k < 1)
      BY <1>2
    <3>2. \A k \in F : ~ (k < 1)
      BY <1>4, <3>1, Zenon
    <3> HIDE DEF F
    <3> QED
      BY <3>2, Zenon DEF Lower
  <2>2. Cardinality(Lower(F, 1)) = 1 - 1
    BY <2>1, FS_EmptySet
  <2> HIDE DEF F
  <2> QED
    BY <1>3, <1>4, <2>2, NthIs, Zenon
<1>6. Walk(h)[1] = Lookup(h)
  <2>1. 1 \in DOMAIN points
    BY <1>2, PointsAre
  <2>2. Turn(h, 1) = Search(h)
    BY <1>2, WalkGrows, Zenon
  <2> QED
    BY <2>1, <2>2, Zenon DEF Walk, Lookup
<1>7. PICK t : t = IF n > c THEN c ELSE n
  BY Zenon
<1>8. 1 \in 1..t
  <2> HIDE DEF c
  <2> QED
    BY <1>1, <1>7
<1>9. LookupN(h, n)[1] = Walk(h)[Nth(F, 1)] /\ LookupN(h, n)[1] \in members
  BY <1>7, <1>8, LookupNFacts, Zenon
<1> QED
  BY <1>5, <1>6, <1>9, Zenon

\* Fewer owners are a prefix of all of them.
LEMMA OwnersPrefix ==
  ASSUME IInv, NEW h \in 0..(Space - 1), NEW n \in 0..Cardinality(members)
  PROVE  LookupN(h, n) = SubSeq(LookupN(h, Cardinality(Nodes)), 1, n)
<1> DEFINE owners == LookupN(h, Cardinality(Nodes))
           c == Cardinality(members)
<1>1. c \in Nat /\ Cardinality(Nodes) \in Nat /\ c <= Cardinality(Nodes)
  BY MembersFinite, Zenon
<1>2. /\ c = IF Cardinality(Nodes) > c THEN c ELSE Cardinality(Nodes)
      /\ n = IF n > c THEN c ELSE n
      /\ n \in Nat /\ n <= c
  <2>1. n \in 0..c
    OBVIOUS
  <2> HIDE DEF c
  <2> QED
    BY <1>1, <2>1
<1>3. /\ owners \in Seq(Nodes) /\ Len(owners) = c
      /\ \A i \in 1..c : owners[i] = Walk(h)[Nth(Firsts(h), i)]
  BY <1>1, <1>2, LookupNFacts, Zenon
<1>4. /\ LookupN(h, n) \in Seq(Nodes) /\ Len(LookupN(h, n)) = n
      /\ \A i \in 1..n : LookupN(h, n)[i] = Walk(h)[Nth(Firsts(h), i)]
  BY <1>2, LookupNFacts, Zenon
<1> HIDE DEF owners, c
<1>5. \A i \in 1..n : i \in 1..c
  BY <1>1, <1>2
<1>6. \A i \in 1..n : LookupN(h, n)[i] = owners[i] /\ owners[i] \in Nodes
  <2>1. \A i \in 1..c : owners[i] \in Nodes
    BY <1>3
  <2> QED
    BY <1>3, <1>4, <1>5, <2>1, Zenon
<1>7. /\ SubSeq(owners, 1, n) \in Seq(Nodes)
      /\ Len(SubSeq(owners, 1, n)) = IF 1 <= n THEN n - 1 + 1 ELSE 0
      /\ \A i \in 1..(n - 1 + 1) : SubSeq(owners, 1, n)[i] = owners[1 + i - 1]
  BY <1>2, <1>6, SubSeqProperties
<1>8. /\ Len(SubSeq(owners, 1, n)) = n
      /\ \A i \in 1..n : SubSeq(owners, 1, n)[i] = owners[i]
  BY <1>2, <1>7
<1>9. LookupN(h, n) = SubSeq(owners, 1, n)
  BY <1>2, <1>4, <1>6, <1>7, <1>8
<1> QED
  BY <1>9, Zenon DEF owners

\* LookupN and Lookup do what their comments say: the owners of a key are the nodes by
\* the clockwise distance from the key to their nearest point, and asking for fewer of
\* them gives the first of the same list.
THEOREM OwnersNearest == Spec => []OwnersAreNearest
<1>1. IInv => OwnersAreNearest
  <2> SUFFICES ASSUME IInv, NEW h \in 0..(Space - 1)
               PROVE  LET owners == LookupN(h, Cardinality(Nodes)) IN
                      /\ Range(owners) = members /\ Len(owners) = Cardinality(members)
                      /\ \A i, j \in DOMAIN owners :
                           i < j => Distance(h, owners[i]) < Distance(h, owners[j])
                      /\ members # {} => Lookup(h) = owners[1]
                      /\ \A n \in 0..Len(owners) : LookupN(h, n) = SubSeq(owners, 1, n)
    BY Zenon DEF OwnersAreNearest
  <2> DEFINE owners == LookupN(h, Cardinality(Nodes))
  <2>1. /\ Range(owners) = members /\ Len(owners) = Cardinality(members)
        /\ \A i, j \in DOMAIN owners : i < j => Distance(h, owners[i]) < Distance(h, owners[j])
    BY AllOwners, Zenon
  <2>2. members # {} => Lookup(h) = owners[1]
    <3> SUFFICES ASSUME members # {} PROVE Lookup(h) = owners[1]
      BY Zenon
    <3>1. Cardinality(Nodes) \in Nat /\ Cardinality(Nodes) > 0
      BY MembersFinite
    <3> QED
      BY <3>1, FirstOwner, Zenon
  <2>3. \A n \in 0..Len(owners) : LookupN(h, n) = SubSeq(owners, 1, n)
    BY <2>1, OwnersPrefix, Zenon
  <2> QED
    BY <2>1, <2>2, <2>3, Zenon
<1> QED
  BY <1>1, RingInvariance, PTL

\* The numbers D gives to the elements of s grow along it.
GrowsAlong(D, s) ==
  /\ \A i \in DOMAIN s : D[s[i]] \in Nat
  /\ \A i, j \in DOMAIN s : i < j => D[s[i]] < D[s[j]]

\* Keeping the elements of a set keeps the growth.
LEMMA AmongGrows ==
  ASSUME NEW A, NEW s \in Seq(A), NEW S, NEW D, GrowsAlong(D, s)
  PROVE  /\ Among(s, S) \in Seq(A) /\ GrowsAlong(D, Among(s, S))
         /\ Range(Among(s, S)) = Range(s) \cap S
<1> DEFINE K == {i \in DOMAIN s : s[i] \in S}
           c == Cardinality(K)
           a == Among(s, S)
<1>1. K \in SUBSET (DOMAIN s)
  BY Zenon
<1>2. a = Subsequence(s, K)
  BY Zenon DEF Among
<1>3. \A k : k \in K <=> k \in DOMAIN s /\ s[k] \in S
  BY Zenon
<1> HIDE DEF K
<1> HIDE DEF a
<1>4. a \in Seq(A) /\ DOMAIN a = 1..c
  BY <1>1, <1>2, SubsequenceFacts
<1>5. \A i \in 1..c : Nth(K, i) \in K /\ a[i] = s[Nth(K, i)]
  BY <1>1, <1>2, SubsequenceFacts
<1>6. \A i, j \in 1..c : i < j => Nth(K, i) < Nth(K, j)
  BY <1>1, SubsequenceFacts
<1>7. \A k \in K : \E i \in 1..c : Nth(K, i) = k
  BY <1>1, SubsequenceFacts
<1> HIDE DEF c
<1>8. GrowsAlong(D, a)
  <2>1. \A i \in DOMAIN a : D[a[i]] \in Nat
    BY <1>3, <1>4, <1>5, Zenon DEF GrowsAlong
  <2>2. \A i, j \in DOMAIN a : i < j => D[a[i]] < D[a[j]]
    <3> SUFFICES ASSUME NEW i \in 1..c, NEW j \in 1..c, i < j
                 PROVE  D[a[i]] < D[a[j]]
      BY <1>4, Zenon
    <3>1. Nth(K, i) \in DOMAIN s /\ Nth(K, j) \in DOMAIN s /\ Nth(K, i) < Nth(K, j)
      BY <1>3, <1>5, <1>6, Zenon
    <3>2. D[s[Nth(K, i)]] < D[s[Nth(K, j)]]
      BY <3>1, Zenon DEF GrowsAlong
    <3> QED
      BY <1>5, <3>2, Zenon
  <2> QED
    BY <2>1, <2>2, Zenon DEF GrowsAlong
<1>9. ASSUME NEW x
      PROVE  x \in Range(a) <=> x \in Range(s) /\ x \in S
  <2>1. ASSUME x \in Range(a) PROVE x \in Range(s) /\ x \in S
    <3>1. PICK i \in 1..c : a[i] = x
      BY <1>4, <2>1, Zenon DEF Range
    <3> QED
      BY <1>3, <1>5, <3>1, Zenon DEF Range
  <2>2. ASSUME x \in Range(s), x \in S PROVE x \in Range(a)
    <3>1. PICK k \in DOMAIN s : s[k] = x
      BY <2>2, Zenon DEF Range
    <3>2. k \in K
      BY <1>3, <2>2, <3>1, Zenon
    <3>3. PICK i \in 1..c : Nth(K, i) = k
      BY <1>7, <3>2, Zenon
    <3>4. a[i] = x
      BY <1>5, <3>1, <3>3, Zenon
    <3> QED
      BY <1>4, <3>4, Zenon DEF Range
  <2> QED
    BY <2>1, <2>2, Zenon
<1> QED
  BY <1>4, <1>8, <1>9, Zenon DEF a

Values(D, S) == {D[x] : x \in S}

\* The values along a growing sequence are those of its elements, by rank.
LEMMA RanksAlong ==
  ASSUME NEW A, NEW s \in Seq(A), NEW D, GrowsAlong(D, s)
  PROVE  /\ Len(s) = Cardinality(Values(D, Range(s)))
         /\ \A i \in DOMAIN s : D[s[i]] = Nth(Values(D, Range(s)), i)
<1> DEFINE n == Len(s)
           f == [i \in 1..n |-> D[s[i]]]
<1>1. n \in Nat /\ DOMAIN s = 1..n
  OBVIOUS
<1> HIDE DEF n
<1>2. \A i \in 1..n : f[i] = D[s[i]]
  BY Zenon
<1> HIDE DEF f
<1>3. Growing(f, n)
  BY <1>1, <1>2, Zenon DEF Growing, GrowsAlong
<1>4. Values(D, Range(s)) = {f[i] : i \in 1..n}
  <2>1. \A x : x \in Range(s) <=> \E i \in 1..n : x = s[i]
    BY <1>1, Zenon DEF Range
  <2>2. ASSUME NEW v
        PROVE  v \in Values(D, Range(s)) <=> \E i \in 1..n : v = f[i]
    <3>1. ASSUME NEW x \in Range(s), v = D[x]
          PROVE  \E i \in 1..n : v = f[i]
      <4>1. PICK i \in 1..n : x = s[i]
        BY <2>1, Zenon
      <4> QED
        BY <1>2, <3>1, <4>1, Zenon
    <3>2. ASSUME NEW i \in 1..n, v = f[i]
          PROVE  s[i] \in Range(s) /\ v = D[s[i]]
      BY <1>2, <2>1, <3>2, Zenon
    <3> QED
      BY <3>1, <3>2, Zenon DEF Values
  <2> QED
    BY <2>2, Zenon
<1>5. Cardinality({f[i] : i \in 1..n}) = n
  <2>1. Apart(f, n)
    BY <1>1, <1>3 DEF Apart, Growing
  <2> QED
    BY <1>1, <2>1, ImageSize, Zenon
<1>6. \A i \in 1..n : Nth({f[j] : j \in 1..n}, i) = f[i]
  BY <1>1, <1>3, NthUnique, Zenon
<1> QED
  BY <1>1, <1>2, <1>4, <1>5, <1>6, Zenon DEF n

\* One set has one sequence along which D grows.
LEMMA OrderedUnique ==
  ASSUME NEW A, NEW s \in Seq(A), NEW t \in Seq(A), NEW D,
         GrowsAlong(D, s), GrowsAlong(D, t), Range(s) = Range(t)
  PROVE  s = t
<1> DEFINE V == Values(D, Range(s))
<1>1. Len(s) = Cardinality(V) /\ \A i \in DOMAIN s : D[s[i]] = Nth(V, i)
  BY RanksAlong, Zenon
<1>2. Len(t) = Cardinality(V) /\ \A i \in DOMAIN t : D[t[i]] = Nth(V, i)
  BY RanksAlong, Zenon
<1>3. /\ Len(s) = Len(t) /\ DOMAIN s = 1..Len(s) /\ DOMAIN t = 1..Len(s) /\ Len(s) \in Nat
      /\ s = [i \in 1..Len(s) |-> s[i]] /\ t = [i \in 1..Len(s) |-> t[i]]
  <2>1. Len(s) = Len(t)
    BY <1>1, <1>2, Zenon
  <2> QED
    BY <2>1
<1>4. ASSUME NEW i \in 1..Len(s)
      PROVE  s[i] = t[i]
  <2>0. s[i] \in Range(s) /\ s[i] \in Range(t)
    BY <1>3, Zenon DEF Range
  <2>1. PICK j \in 1..Len(s) : t[j] = s[i]
    BY <1>3, <2>0, Zenon DEF Range
  <2>2. D[t[j]] = D[t[i]]
    BY <1>1, <1>2, <1>3, <2>1, Zenon
  <2>3. D[t[j]] \in Nat /\ D[t[i]] \in Nat
    BY <1>3, Zenon DEF GrowsAlong
  <2>4. ~ (D[t[j]] < D[t[i]]) /\ ~ (D[t[i]] < D[t[j]])
    BY <2>2, <2>3
  <2>5. ~ (i < j) /\ ~ (j < i)
    BY <1>3, <2>4, Zenon DEF GrowsAlong
  <2>6. i = j
    BY <2>5
  <2> QED
    BY <2>1, <2>6, Zenon
<1> QED
  BY <1>3, <1>4, Zenon

\* SetMembers changes the pool and the ring's members together.
LEMMA SetMembersKeepsPool ==
  ASSUME PoolMatchesRing, NEW desired, NEW arrival, SetMembers(desired, arrival)
  PROVE  PoolMatchesRing'
<1> DEFINE joining == Joining(desired)
           leaving == Leaving(desired)
<1>1. /\ DOMAIN pool' = (DOMAIN pool \cup joining) \ leaving
      /\ members' = (members \cup joining) \ leaving /\ closed' = closed
  BY Zenon DEF SetMembers, Reconnect
<1> HIDE DEF joining, leaving
<1> QED
  BY <1>1 DEF PoolMatchesRing

LEMMA CloseKeepsPool ==
  ASSUME PoolMatchesRing, Close
  PROVE  PoolMatchesRing'
<1>1. DOMAIN pool' = {} /\ closed'
  BY DEF Close
<1> QED
  BY <1>1 DEF PoolMatchesRing

\* A process, whatever snapshots it is given and in whatever order it goes through them,
\* never shows a reader a node of the ring without a connection or a connection without
\* its node (router.go:40).
THEOREM PoolFollowsRing == Spec => []PoolMatchesRing
<1>1. Init => PoolMatchesRing
  BY DEF Init, PoolMatchesRing
<1>2. PoolMatchesRing /\ [Next]_vars => PoolMatchesRing'
  <2> SUFFICES ASSUME PoolMatchesRing, [Next]_vars
               PROVE  PoolMatchesRing'
    BY Zenon
  <2>1. CASE \E desired \in Snapshots, arrival \in Arrivals : SetMembers(desired, arrival)
    BY <2>1, SetMembersKeepsPool, Zenon
  <2>2. CASE Close
    BY <2>2, CloseKeepsPool, Zenon
  <2>3. CASE UNCHANGED vars
    BY <2>3, Zenon DEF vars, PoolMatchesRing
  <2> QED
    BY <2>1, <2>2, <2>3, Zenon DEF Next
<1> QED
  BY <1>1, <1>2, PTL DEF Spec

\* The ring has points if and only if it has members: every node has a virtual point.
LEMMA EmptyRing ==
  ASSUME IInv
  PROVE  points = <<>> <=> members = {}
<1>1. /\ points \in Seq(Points) /\ Range(points) = PointsOf(members)
      /\ 1 \in 1..VNodes
  <2>1. place \in Placements /\ points = Ring(members) /\ members \in SUBSET Nodes
    BY Zenon DEF IInv, TypeOK
  <2>2. points \in Seq(Points) /\ Range(points) = PointsOf(members)
    BY <2>1, RingFacts, Zenon
  <2>3. 1 \in 1..VNodes
    BY RouterAssumption
  <2> QED
    BY <2>2, <2>3, Zenon
<1>2. points = <<>> <=> Range(points) = {}
  BY <1>1 DEF Range
<1>3. PointsOf(members) = {} <=> members = {}
  <2>1. ASSUME NEW n \in members
        PROVE  [hash |-> place[n][1], node |-> n] \in PointsOf(members)
    BY <1>1, InPoints
  <2>2. ASSUME NEW p \in PointsOf(members)
        PROVE  \E n \in members : TRUE
    BY InPoints
  <2> QED
    BY <2>1, <2>2, Zenon
<1> QED
  BY <1>1, <1>2, <1>3, Zenon

LEMMA OwnersNFacts ==
  ASSUME IInv, NEW h \in 0..(Space - 1), NEW n \in Nat
  PROVE  /\ OwnersN(h, n) \in Seq(Nodes)
         /\ \A i \in DOMAIN OwnersN(h, n) : OwnersN(h, n)[i] \in members
         /\ members # {} => OwnersN(h, n) = LookupN(h, n)
         /\ members = {} => OwnersN(h, n) = <<>>
<1>1. CASE members = {}
  <2>1. OwnersN(h, n) = <<>>
    BY <1>1, EmptyRing, Zenon DEF OwnersN
  <2>2. <<>> \in Seq(Nodes) /\ DOMAIN <<>> = {}
    OBVIOUS
  <2> QED
    BY <1>1, <2>1, <2>2, Zenon
<1>2. CASE members # {}
  <2>1. OwnersN(h, n) = LookupN(h, n)
    BY <1>2, EmptyRing, Zenon DEF OwnersN
  <2>2. PICK t : t = IF n > Cardinality(members) THEN Cardinality(members) ELSE n
    BY Zenon
  <2>3. LookupN(h, n) \in Seq(Nodes)
    BY <2>2, LookupNFacts, Zenon
  <2>4. \A i \in DOMAIN LookupN(h, n) : LookupN(h, n)[i] \in members
    BY <2>2, LookupNFacts, Zenon
  <2> QED
    BY <1>2, <2>1, <2>3, <2>4, Zenon
<1> QED
  BY <1>1, <1>2, Zenon

\* A caller that asks for the owners of a key gets, until Close, a connection to each of
\* them in the ring's order; OwnerConn gives that of the first.
THEOREM RoutesStayConnected == Spec => []RoutesAreConnected
<1>1. IInv /\ PoolMatchesRing => RoutesAreConnected
  <2> SUFFICES ASSUME IInv, PoolMatchesRing, NEW h \in 0..(Space - 1), ~closed
               PROVE  /\ \A n \in 1..Cardinality(Nodes) : OwnerConns(h, n) = OwnersN(h, n)
                      /\ OwnerConn(h) = Range(OwnersN(h, 1))
                      /\ Range(OwnersN(h, Cardinality(Nodes))) = DOMAIN pool
    BY Zenon DEF RoutesAreConnected
  <2> DEFINE conns == {id \in Nodes : ConnFor(id) # {}}
             c == Cardinality(members)
  <2>1. DOMAIN pool = members /\ members \in SUBSET Nodes
    BY Zenon DEF PoolMatchesRing, IInv, TypeOK
  <2>2. \A id : ConnFor(id) # {} <=> id \in members
    BY <2>1, Zenon DEF ConnFor
  <2>3. \A id \in members : id \in conns
    BY <2>1, <2>2, Zenon
  <2>4. c \in Nat /\ Cardinality(Nodes) \in Nat /\ (c = 0 <=> members = {})
    BY MembersFinite, Zenon
  <2>5. ASSUME NEW n \in 1..Cardinality(Nodes)
        PROVE  OwnerConns(h, n) = OwnersN(h, n)
    <3>1. n \in Nat
      BY <2>4
    <3>2. OwnersN(h, n) \in Seq(Nodes)
      BY <3>1, OwnersNFacts, Zenon
    <3>3. \A i \in DOMAIN OwnersN(h, n) : OwnersN(h, n)[i] \in conns
      BY <2>3, <3>1, OwnersNFacts, Zenon
    <3> HIDE DEF conns
    <3>4. Among(OwnersN(h, n), conns) = OwnersN(h, n)
      BY <3>2, <3>3, AmongAll, Zenon
    <3> QED
      BY <3>4, Zenon DEF OwnerConns, conns
  <2>6. OwnerConn(h) = Range(OwnersN(h, 1))
    <3>1. CASE members = {}
      <4>1. OwnersN(h, 1) = <<>> /\ points = <<>>
        BY <3>1, OwnersNFacts, EmptyRing
      <4>2. Range(<<>>) = {}
        BY DEF Range
      <4> QED
        BY <4>1, <4>2, Zenon DEF OwnerConn, Owner
    <3>2. CASE members # {}
      <4>1. 1 \in Nat /\ 1 > 0
        OBVIOUS
      <4>2. LookupN(h, 1)[1] = Lookup(h) /\ Lookup(h) \in members
        BY <3>2, <4>1, FirstOwner, Zenon
      <4>3. OwnersN(h, 1) = LookupN(h, 1) /\ points # <<>>
        BY <3>2, <4>1, OwnersNFacts, EmptyRing, Zenon
      <4>4. OwnerConn(h) = {Lookup(h)}
        BY <2>2, <4>2, <4>3, Zenon DEF OwnerConn, Owner
      <4>5. PICK t : t = IF 1 > c THEN c ELSE 1
        BY Zenon
      <4>6. t = 1
        <5> HIDE DEF c
        <5> QED
          BY <2>4, <3>2, <4>5
      <4>7. DOMAIN LookupN(h, 1) = 1..t
        BY <4>1, <4>5, LookupNFacts, Zenon
      <4>8. 1..1 = {1}
        OBVIOUS
      <4>9. Range(LookupN(h, 1)) = {LookupN(h, 1)[1]}
        BY <4>7, <4>8, <4>6, Zenon DEF Range
      <4> QED
        BY <4>2, <4>3, <4>4, <4>9, Zenon
    <3> QED
      BY <3>1, <3>2, Zenon
  <2>7. Range(OwnersN(h, Cardinality(Nodes))) = DOMAIN pool
    <3>1. CASE members = {}
      <4>1. OwnersN(h, Cardinality(Nodes)) = <<>>
        BY <2>4, <3>1, OwnersNFacts, Zenon
      <4>2. Range(<<>>) = {}
        BY DEF Range
      <4> QED
        BY <2>1, <3>1, <4>1, <4>2, Zenon
    <3>2. CASE members # {}
      <4>1. OwnersN(h, Cardinality(Nodes)) = LookupN(h, Cardinality(Nodes))
        BY <2>4, <3>2, OwnersNFacts, Zenon
      <4>2. Range(LookupN(h, Cardinality(Nodes))) = members
        BY AllOwners, Zenon
      <4> QED
        BY <2>1, <4>1, <4>2, Zenon
    <3> QED
      BY <3>1, <3>2, Zenon
  <2> QED
    BY <2>5, <2>6, <2>7, Zenon
<1> QED
  BY <1>1, RingInvariance, PoolFollowsRing, PTL

\* The distance of each node from a key; it does not depend on the members.
Distances(h) == [n \in Nodes |-> Distance(h, n)]

Gaps(h, n) == {(place[n][i] - h) % Space : i \in 1..VNodes}
Least(G) == CHOOSE d \in G : \A e \in G : d <= e

LEMMA DistancesStay ==
  ASSUME place' = place, NEW h
  PROVE  Distances(h)' = Distances(h)
<1>1. ASSUME NEW n
      PROVE  Distance(h, n)' = Distance(h, n)
  <2>1. Distance(h, n) = Least(Gaps(h, n))
    BY Zenon DEF Distance, Least, Gaps
  <2>2. Distance(h, n)' = Least(Gaps(h, n)')
    BY Zenon DEF Distance, Least, Gaps
  <2>3. Gaps(h, n)' = Gaps(h, n)
    BY DEF Gaps
  <2> QED
    BY <2>1, <2>2, <2>3, Zenon
<1>2. Distances(h)' = [n \in Nodes |-> Distance(h, n)']
  BY Zenon DEF Distances
<1> QED
  BY <1>1, <1>2, Zenon DEF Distances

LEMMA OwnersGrow ==
  ASSUME IInv, NEW h \in 0..(Space - 1)
  PROVE  /\ LookupN(h, Cardinality(Nodes)) \in Seq(Nodes)
         /\ Range(LookupN(h, Cardinality(Nodes))) = members
         /\ GrowsAlong(Distances(h), LookupN(h, Cardinality(Nodes)))
<1> DEFINE o == LookupN(h, Cardinality(Nodes))
<1>1. o \in Seq(Nodes) /\ Range(o) = members
  BY AllOwners, Zenon
<1>2. \A i \in DOMAIN o : Distance(h, o[i]) \in Nat
  BY AllOwners, Zenon
<1>3. \A i, j \in DOMAIN o : i < j => Distance(h, o[i]) < Distance(h, o[j])
  BY AllOwners, Zenon
<1> HIDE DEF o
<1>4. \A i \in DOMAIN o : o[i] \in Nodes
  BY <1>1
<1>5. \A i \in DOMAIN o : Distances(h)[o[i]] = Distance(h, o[i])
  BY <1>4, Zenon DEF Distances
<1>6. GrowsAlong(Distances(h), o)
  BY <1>2, <1>3, <1>5, Zenon DEF GrowsAlong
<1> QED
  BY <1>1, <1>6, Zenon DEF o

\* The same for the next state, where the positions of the points are the same.
OwnersGrowAll ==
  \A h \in 0..(Space - 1) :
    /\ LookupN(h, Cardinality(Nodes)) \in Seq(Nodes)
    /\ Range(LookupN(h, Cardinality(Nodes))) = members
    /\ GrowsAlong(Distances(h), LookupN(h, Cardinality(Nodes)))

\* Consistent hashing's promise (ADR 0022): when nodes come and go, no key moves between
\* two nodes that stay, and their order as its owners stays.
THEOREM StayingOwnersKeepOrder == Spec => OrderSurvives
<1>1. IInv => OwnersGrowAll
  BY OwnersGrow, Zenon DEF OwnersGrowAll
<1>2. [Next]_vars => place' = place
  BY Zenon DEF Next, SetMembers, Close, vars
<1>3. ASSUME OwnersGrowAll, OwnersGrowAll', place' = place
      PROVE  \A h \in 0..(Space - 1) :
               \A before \in {LookupN(h, Cardinality(Nodes))},
                  after \in {LookupN(h, Cardinality(Nodes))'} :
                 Among(before, members \cap members') = Among(after, members \cap members')
  <2> SUFFICES ASSUME NEW h \in 0..(Space - 1)
               PROVE  Among(LookupN(h, Cardinality(Nodes)), members \cap members')
                        = Among(LookupN(h, Cardinality(Nodes))', members \cap members')
    BY Zenon
  <2> DEFINE b == LookupN(h, Cardinality(Nodes))
             a == LookupN(h, Cardinality(Nodes))'
             stay == members \cap members'
             D == Distances(h)
  <2>1. b \in Seq(Nodes) /\ Range(b) = members /\ GrowsAlong(D, b)
    BY <1>3, Zenon DEF OwnersGrowAll
  <2>2. a \in Seq(Nodes) /\ Range(a) = members' /\ GrowsAlong(D', a)
    BY <1>3, Zenon DEF OwnersGrowAll
  <2>3. D' = D
    BY <1>3, DistancesStay, Zenon
  <2>4. GrowsAlong(D, a)
    BY <2>2, <2>3, Zenon DEF GrowsAlong
  <2> HIDE DEF a, b, D, stay
  <2>5. /\ Among(b, stay) \in Seq(Nodes) /\ GrowsAlong(D, Among(b, stay))
        /\ Range(Among(b, stay)) = Range(b) \cap stay
    BY <2>1, AmongGrows, Zenon
  <2>6. /\ Among(a, stay) \in Seq(Nodes) /\ GrowsAlong(D, Among(a, stay))
        /\ Range(Among(a, stay)) = Range(a) \cap stay
    BY <2>2, <2>4, AmongGrows, Zenon
  <2>7. Range(Among(a, stay)) = Range(Among(b, stay))
    BY <2>1, <2>2, <2>5, <2>6, Zenon DEF stay
  <2>8. Among(b, stay) = Among(a, stay)
    BY <2>5, <2>6, <2>7, OrderedUnique, Zenon
  <2> QED
    BY <2>8, Zenon DEF a, b, stay
<1> QED
  BY <1>1, <1>2, <1>3, RingInvariance, PTL DEF Spec, OrderSurvives
=============================================================================
