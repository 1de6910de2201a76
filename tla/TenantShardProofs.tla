------------------------- MODULE TenantShardProofs -------------------------
(***************************************************************************)
(* The safety theorems of TenantShard, for every set of keys, tenants,     *)
(* sizes and quotas and any number of goroutines.                          *)
(*                                                                         *)
(* What the policy's methods keep (PolOK) is shown of the                  *)
(* operators of GDSF alone, for they are atomic.  That map and policy      *)
(* agree needs the locks: a call that has changed the map and not yet told *)
(* the policy (Untold) holds its key alone and finds the map as it left    *)
(* it.                                                                     *)
(*                                                                         *)
(* That no wakeup is lost needs exact byte totals (Books) and, for each    *)
(* reason to evict, who has yet to act on it (TotalAnswered and            *)
(* QuotaAnswered).                                                         *)
(***************************************************************************)
EXTENDS TenantShard, Counting

Policies == [item : [Keys -> Item], bytes : [Tenants -> Int], inflation : Nat]

Accounts(P) ==
  \A t \in Tenants : IsFiniteSet(HeapBytes(P, t)) /\ P.bytes[t] = Cardinality(HeapBytes(P, t))

\* A block that is not tracked has left nothing behind.
Forgotten(P) == \A k \in Keys : ~Tracked(P, k) => P.item[k] = NoItem

PolOK(P) == P \in Policies /\ Accounts(P) /\ Forgotten(P)

FloorOK(P) == \A k \in Keys : Tracked(P, k) => P.item[k].priority >= P.inflation
-----------------------------------------------------------------------------
(* The methods of the policy.                                              *)

LEMMA PriorityType ==
  ASSUME NEW P \in Policies, NEW freq \in Nat, NEW cost \in Nat, NEW size \in Nat
  PROVE  priorityOf(P, freq, cost, size) \in Nat /\ priorityOf(P, freq, cost, size) >= P.inflation
<1> DEFINE c == IF cost = 0 THEN 1 ELSE cost
           z == IF size = 0 THEN 1 ELSE size
           n == Scale * freq * c
<1>1. c \in Nat /\ z \in Nat /\ z > 0 /\ Scale \in Nat /\ P.inflation \in Nat
  BY GDSFAssumption DEF Policies
<1>2. priorityOf(P, freq, cost, size) = P.inflation + n \div z
  BY Zenon DEF priorityOf
<1> HIDE DEF c, z
<1>3. Scale * freq \in Nat
  BY <1>1
<1>4. n \in Nat
  BY <1>1, <1>3
<1> HIDE DEF n
<1>5. n \div z \in Nat
  BY <1>1, <1>4
<1> QED
  BY <1>1, <1>2, <1>5

\* A method that touches one item and moves the totals by what that item contributes
\* before and after keeps the accounts.
LEMMA OneItem ==
  ASSUME NEW P, PolOK(P), NEW Q \in Policies, NEW k \in Keys,
         \A j \in Keys : j # k => Q.item[j] = P.item[j],
         \A t \in Tenants : Q.bytes[t] = P.bytes[t] + SizeIn(Q, t, k) - SizeIn(P, t, k)
  PROVE  Accounts(Q)
<1> SUFFICES ASSUME NEW t \in Tenants
             PROVE  /\ IsFiniteSet(HeapBytes(Q, t))
                    /\ Q.bytes[t] = Cardinality(HeapBytes(Q, t))
  BY Zenon DEF Accounts
<1> DEFINE f == [j \in Keys |-> SizeIn(P, t, j)]
           g == [j \in Keys |-> SizeIn(Q, t, j)]
<1>1. \A j \in Keys : f[j] = SizeIn(P, t, j) /\ g[j] = SizeIn(Q, t, j)
  BY Zenon
<1>2. \A j \in Keys : f[j] \in Nat /\ g[j] \in Nat
  BY Zenon DEF PolOK, Policies, Item, SizeIn
<1>3. \A j \in Keys : j # k => g[j] = f[j]
  BY Zenon DEF SizeIn, Heap, Tracked
<1> HIDE DEF f, g
<1>4. /\ HeapBytes(P, t) = UNION {{j} \X (1..f[j]) : j \in Keys}
      /\ HeapBytes(Q, t) = UNION {{j} \X (1..g[j]) : j \in Keys}
  <2>1. \A j \in Keys : {j} \X (1..f[j]) = {j} \X (1..SizeIn(P, t, j))
    BY <1>1, Zenon
  <2>2. \A j \in Keys : {j} \X (1..g[j]) = {j} \X (1..SizeIn(Q, t, j))
    BY <1>1, Zenon
  <2> QED
    BY <2>1, <2>2 DEF HeapBytes
<1>5. IsFiniteSet(HeapBytes(P, t)) /\ P.bytes[t] = Cardinality(HeapBytes(P, t))
  BY Zenon DEF PolOK, Accounts
<1>6. /\ IsFiniteSet(HeapBytes(Q, t))
      /\ Cardinality(HeapBytes(Q, t)) = Cardinality(HeapBytes(P, t)) + g[k] - f[k]
  <2>1. IsFiniteSet(UNION {{j} \X (1..f[j]) : j \in Keys})
    BY <1>4, <1>5, Zenon
  <2>2. /\ IsFiniteSet(UNION {{j} \X (1..g[j]) : j \in Keys})
        /\ Cardinality(UNION {{j} \X (1..g[j]) : j \in Keys})
             = Cardinality(UNION {{j} \X (1..f[j]) : j \in Keys}) + g[k] - f[k]
    BY <1>2, <1>3, <2>1, ColumnUpdate
  <2> QED
    BY <1>4, <2>2, Zenon
<1>7. f[k] = SizeIn(P, t, k) /\ g[k] = SizeIn(Q, t, k) /\ f[k] \in Nat /\ g[k] \in Nat
  BY <1>1, <1>2, Zenon
<1> QED
  BY <1>5, <1>6, <1>7, Zenon

LEMMA RemoveFacts ==
  ASSUME NEW P, PolOK(P), NEW k \in Keys, Tracked(P, k)
  PROVE  /\ PolOK(removeItem(P, k)) /\ removeItem(P, k).item[k] = NoItem
         /\ removeItem(P, k).inflation = P.inflation
         /\ \A j \in Keys : j # k => removeItem(P, k).item[j] = P.item[j]
<1> DEFINE Q == removeItem(P, k)
           own == P.item[k].tenant
<1>1. P \in Policies /\ P.item[k] \in Item /\ own \in Tenants /\ P.item[k].size \in Nat
  BY Zenon DEF PolOK, Policies, Item
<1>2. NoItem \in Item /\ NoItem.size = 0 /\ NoItem.freq = 0
  BY GDSFAssumption, Zenon DEF NoItem, Item
<1>3. /\ Q.item = [P.item EXCEPT ![k] = NoItem]
      /\ Q.bytes = [P.bytes EXCEPT ![own] = @ - P.item[k].size]
      /\ Q.inflation = P.inflation /\ Q \in Policies
  <2> DEFINE item == [P.item EXCEPT ![k] = NoItem]
             bytes == [P.bytes EXCEPT ![own] = @ - P.item[k].size]
  <2>1. Q = [P EXCEPT !.item = item, !.bytes = bytes]
    BY <1>1, Zenon DEF removeItem, Policies
  <2>2. item \in [Keys -> Item] /\ bytes \in [Tenants -> Int]
    BY <1>1, <1>2 DEF Policies
  <2> HIDE DEF item, bytes, Q
  <2>3. Q.item = item /\ Q.bytes = bytes /\ Q.inflation = P.inflation /\ Q \in Policies
    BY <1>1, <2>1, <2>2, Zenon DEF Policies
  <2> QED
    BY <2>3, Zenon DEF item, bytes
<1> HIDE DEF Q
<1>4. Q.item[k] = NoItem /\ \A j \in Keys : j # k => Q.item[j] = P.item[j]
  BY <1>1, <1>3, Zenon DEF Policies
<1>5. \A t \in Tenants : SizeIn(Q, t, k) = 0 /\ SizeIn(P, t, k) = (IF t = own THEN P.item[k].size ELSE 0)
  BY <1>2, <1>4, Zenon DEF SizeIn, Heap, Tracked
<1>6. \A t \in Tenants : Q.bytes[t] = P.bytes[t] + SizeIn(Q, t, k) - SizeIn(P, t, k)
  BY <1>1, <1>3, <1>5 DEF Policies
<1>7. Accounts(Q)
  BY <1>3, <1>4, <1>6, OneItem, Zenon
<1>8. Forgotten(Q)
  BY <1>4, Zenon DEF Forgotten, PolOK, Tracked
<1> QED
  BY <1>3, <1>4, <1>7, <1>8, Zenon DEF PolOK, Q

\* Q differs from P in the item of k, which is tracked as given and at or above the floor.
Recorded(P, Q, k, t, size, cost) ==
  /\ PolOK(Q) /\ Q.inflation = P.inflation
  /\ \A j \in Keys : j # k => Q.item[j] = P.item[j]
  /\ Tracked(Q, k) /\ Q.item[k].tenant = t /\ Q.item[k].size = size /\ Q.item[k].cost = cost
  /\ Q.item[k].priority >= Q.inflation

\* The item of k is replaced by a tracked one and the totals follow.
LEMMA ReplaceFacts ==
  ASSUME NEW P, PolOK(P), NEW k \in Keys, NEW x \in Item, x.freq # 0, x.priority >= P.inflation,
         NEW bytes \in [Tenants -> Int],
         \A t \in Tenants : bytes[t] = P.bytes[t] + (IF t = x.tenant THEN x.size ELSE 0) - SizeIn(P, t, k),
         NEW Q, Q = [P EXCEPT !.item = [P.item EXCEPT ![k] = x], !.bytes = bytes]
  PROVE  Recorded(P, Q, k, x.tenant, x.size, x.cost)
<1>1. P \in Policies
  BY Zenon DEF PolOK
<1>2. /\ Q.item = [P.item EXCEPT ![k] = x] /\ Q.bytes = bytes
      /\ Q.inflation = P.inflation /\ Q \in Policies
  <2>1. [P.item EXCEPT ![k] = x] \in [Keys -> Item]
    BY <1>1, Zenon DEF Policies
  <2> QED
    BY <1>1, <2>1, Zenon DEF Policies
<1>3. Q.item[k] = x /\ \A j \in Keys : j # k => Q.item[j] = P.item[j]
  BY <1>1, <1>2, Zenon DEF Policies
<1>4. \A t \in Tenants : SizeIn(Q, t, k) = (IF t = x.tenant THEN x.size ELSE 0)
  BY <1>3 DEF SizeIn, Heap, Tracked
<1>5. \A t \in Tenants : Q.bytes[t] = P.bytes[t] + SizeIn(Q, t, k) - SizeIn(P, t, k)
  BY <1>2, <1>4, Zenon
<1>6. Accounts(Q)
  <2>1. Q \in Policies
    BY <1>2, Zenon
  <2>2. \A j \in Keys : j # k => Q.item[j] = P.item[j]
    BY <1>3, Zenon
  <2> QED
    BY <2>1, <2>2, <1>5, OneItem, Zenon
<1>7. Forgotten(Q)
  <2> SUFFICES ASSUME NEW j \in Keys, Q.item[j].freq = 0
               PROVE  Q.item[j] = NoItem
    BY Zenon DEF Forgotten, Tracked
  <2>1. j # k
    BY <1>3, Zenon
  <2>2. P.item[j].freq = 0
    BY <1>3, <2>1, Zenon
  <2>3. P.item[j] = NoItem
    BY <2>2, Zenon DEF Forgotten, PolOK, Tracked
  <2> QED
    BY <1>3, <2>1, <2>3, Zenon
<1> QED
  BY <1>2, <1>3, <1>6, <1>7, Zenon DEF PolOK, Recorded, Tracked

LEMMA InsertFacts ==
  ASSUME NEW P, PolOK(P), NEW k \in Keys, ~Tracked(P, k),
         NEW t \in Tenants, NEW size \in Nat, NEW cost \in Nat
  PROVE  Recorded(P, insertItem(P, k, t, size, cost), k, t, size, cost)
<1> DEFINE x == [tenant |-> t, size |-> size, cost |-> cost, freq |-> 1,
                 priority |-> priorityOf(P, 1, cost, size)]
           bytes == [P.bytes EXCEPT ![t] = @ + size]
           Q == insertItem(P, k, t, size, cost)
<1>1. P \in Policies
  BY Zenon DEF PolOK
<1>2. priorityOf(P, 1, cost, size) \in Nat /\ priorityOf(P, 1, cost, size) >= P.inflation
  BY <1>1, PriorityType, Zenon
<1>3. x \in Item /\ x.freq # 0 /\ x.priority >= P.inflation
  BY <1>2 DEF Item
<1>4. \A u \in Tenants : SizeIn(P, u, k) = 0
  BY Zenon DEF SizeIn, Heap
<1>5. bytes \in [Tenants -> Int]
  BY <1>1 DEF Policies
<1>6. \A u \in Tenants : bytes[u] = P.bytes[u] + (IF u = t THEN size ELSE 0) - SizeIn(P, u, k)
  BY <1>1, <1>4 DEF Policies
<1>7. Q = [P EXCEPT !.item = [P.item EXCEPT ![k] = x], !.bytes = bytes]
  BY <1>1, Zenon DEF insertItem, Policies
<1>8. x.tenant = t /\ x.size = size /\ x.cost = cost
  BY Zenon
<1> HIDE DEF x, bytes, Q
<1>9. Recorded(P, Q, k, x.tenant, x.size, x.cost)
  BY <1>3, <1>5, <1>6, <1>7, <1>8, ReplaceFacts, Zenon
<1> QED
  BY <1>8, <1>9, Zenon DEF Q

LEMMA ResizeFacts ==
  ASSUME NEW P, PolOK(P), NEW k \in Keys, Tracked(P, k), NEW size \in Nat, NEW cost \in Nat
  PROVE  Recorded(P, resizeItem(P, k, size, cost), k, P.item[k].tenant, size, cost)
<1> DEFINE old == P.item[k]
           own == P.item[k].tenant
           h == priorityOf(P, old.freq, cost, size)
           x == [old EXCEPT !.size = size, !.cost = cost, !.priority = h]
           bytes == [P.bytes EXCEPT ![own] = @ + size - old.size]
           Q == resizeItem(P, k, size, cost)
<1>1. P \in Policies /\ old \in Item /\ own \in Tenants /\ old.size \in Nat /\ old.freq \in Nat
  BY Zenon DEF PolOK, Policies, Item
<1>2. h \in Nat /\ h >= P.inflation
  BY <1>1, PriorityType, Zenon
<1>3. Q = [P EXCEPT !.item = [P.item EXCEPT ![k] = x], !.bytes = bytes]
  BY <1>1, Zenon DEF resizeItem, Policies, Item
<1> HIDE DEF h
<1>4. /\ x \in Item /\ x.freq = old.freq /\ x.priority = h
      /\ x.tenant = own /\ x.size = size /\ x.cost = cost
  BY <1>1, <1>2, Zenon DEF Item
<1>5. x.freq # 0
  BY <1>4, Zenon DEF Tracked
<1>6. \A u \in Tenants : SizeIn(P, u, k) = (IF u = own THEN old.size ELSE 0)
  BY Zenon DEF SizeIn, Heap
<1>7. bytes \in [Tenants -> Int]
  BY <1>1 DEF Policies
<1>8. \A u \in Tenants : bytes[u] = P.bytes[u] + (IF u = own THEN size ELSE 0) - SizeIn(P, u, k)
  BY <1>1, <1>6 DEF Policies
<1> HIDE DEF x, bytes, Q, old
<1>9. Recorded(P, Q, k, x.tenant, x.size, x.cost)
  BY <1>2, <1>3, <1>4, <1>5, <1>7, <1>8, ReplaceFacts, Zenon
<1> QED
  BY <1>4, <1>9, Zenon DEF Q

LEMMA RecordWriteFacts ==
  ASSUME NEW P, PolOK(P), NEW k \in Keys, NEW t \in Tenants, NEW size \in Nat, NEW cost \in Nat
  PROVE  Recorded(P, RecordWrite(P, k, t, size, cost), k, t, size, cost)
<1>1. CASE Tracked(P, k) /\ P.item[k].tenant = t
  BY <1>1, ResizeFacts, Zenon DEF RecordWrite
<1>2. CASE Tracked(P, k) /\ P.item[k].tenant # t
  <2> DEFINE R == removeItem(P, k)
             Q == insertItem(R, k, t, size, cost)
  <2>1. /\ PolOK(R) /\ R.item[k] = NoItem /\ R.inflation = P.inflation
        /\ \A j \in Keys : j # k => R.item[j] = P.item[j]
    BY <1>2, RemoveFacts, Zenon
  <2>2. ~Tracked(R, k)
    BY <2>1 DEF Tracked, NoItem
  <2> HIDE DEF R
  <2>3. Recorded(R, Q, k, t, size, cost)
    BY <2>1, <2>2, InsertFacts, Zenon
  <2>4. RecordWrite(P, k, t, size, cost) = Q
    BY <1>2, Zenon DEF RecordWrite, R
  <2> HIDE DEF Q
  <2> QED
    BY <2>1, <2>3, <2>4, Zenon DEF Recorded
<1>3. CASE ~Tracked(P, k)
  BY <1>3, InsertFacts, Zenon DEF RecordWrite
<1> QED
  BY <1>1, <1>2, <1>3, Zenon

LEMMA RecordAccessFacts ==
  ASSUME NEW P, PolOK(P), NEW k \in Keys, Tracked(P, k)
  PROVE  Recorded(P, RecordAccess(P, k), k, P.item[k].tenant, P.item[k].size, P.item[k].cost)
<1> DEFINE old == P.item[k]
           own == P.item[k].tenant
           h == priorityOf(P, old.freq + 1, old.cost, old.size)
           x == [old EXCEPT !.freq = old.freq + 1, !.priority = h]
           Q == RecordAccess(P, k)
<1>1. P \in Policies /\ old \in Item /\ own \in Tenants /\ old.size \in Nat /\ old.freq \in Nat
      /\ old.cost \in Nat
  BY Zenon DEF PolOK, Policies, Item
<1>2. h \in Nat /\ h >= P.inflation
  <2>1. old.freq + 1 \in Nat
    BY <1>1
  <2> HIDE DEF old
  <2> QED
    BY <1>1, <2>1, PriorityType, Zenon
<1>3. Q = [P EXCEPT !.item = [P.item EXCEPT ![k] = x], !.bytes = P.bytes]
  <2>1. Q = [P EXCEPT !.item = [P.item EXCEPT ![k] = x]]
    BY <1>1, Zenon DEF RecordAccess, Policies, Item
  <2> DEFINE I == [P.item EXCEPT ![k] = x]
  <2> HIDE DEF I, x, h
  <2>2. [P EXCEPT !.item = I] = [P EXCEPT !.item = I, !.bytes = P.bytes]
    BY <1>1, Zenon DEF Policies
  <2> QED
    BY <2>1, <2>2, Zenon DEF I
<1> HIDE DEF h
<1>4. /\ x \in Item /\ x.freq = old.freq + 1 /\ x.priority = h
      /\ x.tenant = own /\ x.size = old.size /\ x.cost = old.cost
  <2>1. old.freq + 1 \in Nat /\ old.tenant = own
    BY <1>1
  <2> HIDE DEF old, own
  <2> QED
    BY <1>1, <1>2, <2>1, Zenon DEF Item
<1>5. x.freq # 0
  BY <1>1, <1>4
<1>6. \A u \in Tenants : SizeIn(P, u, k) = (IF u = own THEN old.size ELSE 0)
  BY Zenon DEF SizeIn, Heap
<1>7. P.bytes \in [Tenants -> Int]
  BY <1>1, Zenon DEF Policies
<1>8. \A u \in Tenants : P.bytes[u] = P.bytes[u] + (IF u = own THEN old.size ELSE 0) - SizeIn(P, u, k)
  BY <1>1, <1>6, <1>7
<1> HIDE DEF x, Q, old
<1>9. Recorded(P, Q, k, x.tenant, x.size, x.cost)
  BY <1>2, <1>3, <1>4, <1>5, <1>7, <1>8, ReplaceFacts, Zenon
<1> QED
  BY <1>4, <1>9, Zenon DEF Q, old

LEMMA RecordEvictFacts ==
  ASSUME NEW P, PolOK(P), NEW k \in Keys
  PROVE  /\ PolOK(RecordEvict(P, k)) /\ RecordEvict(P, k).item[k] = NoItem
         /\ RecordEvict(P, k).inflation = P.inflation
         /\ \A j \in Keys : j # k => RecordEvict(P, k).item[j] = P.item[j]
<1>1. CASE Tracked(P, k)
  BY <1>1, RemoveFacts, Zenon DEF RecordEvict
<1>2. CASE ~Tracked(P, k)
  BY <1>2, Zenon DEF RecordEvict, PolOK, Forgotten
<1> QED
  BY <1>1, <1>2, Zenon

LEMMA AgeFacts ==
  ASSUME NEW P, PolOK(P), NEW k \in Keys
  PROVE  /\ PolOK(Age(P, k)) /\ Age(P, k).item = P.item
         /\ Age(P, k).inflation \in {P.inflation, P.item[k].priority}
<1>1. P \in Policies /\ P.item[k].priority \in Nat
  BY Zenon DEF PolOK, Policies, Item
<1>2. CASE P.item[k].priority > P.inflation
  <2> DEFINE Q == Age(P, k)
  <2>1. Q = [P EXCEPT !.inflation = P.item[k].priority]
    BY <1>2, Zenon DEF Age
  <2> HIDE DEF Q
  <2>2. /\ Q \in Policies /\ Q.item = P.item /\ Q.bytes = P.bytes
        /\ Q.inflation = P.item[k].priority
    BY <1>1, <2>1, Zenon DEF Policies
  <2>3. \A t \in Tenants : HeapBytes(Q, t) = HeapBytes(P, t)
    BY <2>2, Zenon DEF HeapBytes, SizeIn, Heap, Tracked
  <2>4. Accounts(Q) /\ Forgotten(Q)
    BY <2>2, <2>3, Zenon DEF Accounts, Forgotten, Tracked, PolOK
  <2> QED
    BY <2>2, <2>4, Zenon DEF PolOK, Q
<1>3. CASE ~(P.item[k].priority > P.inflation)
  BY <1>3, Zenon DEF Age
<1> QED
  BY <1>2, <1>3, Zenon
-----------------------------------------------------------------------------
(* Without quotas that count, Victim finds the lowest priority of all.     *)

LEMMA Cancel ==
  ASSUME NEW a \in Nat, NEW b \in Nat, NEW c \in Nat, NEW d \in Nat, c > 0, d > 0,
         a * c * d <= b * d * c
  PROVE  a <= b
<1> DEFINE e == c * d
<1>1. e \in Nat /\ e > 0
  OBVIOUS
<1>2. a * c * d = a * e /\ b * d * c = b * e
  OBVIOUS
<1> HIDE DEF e
<1>3. SUFFICES ASSUME a >= b + 1 PROVE FALSE
  OBVIOUS
<1>4. a * e >= (b + 1) * e
  BY <1>1, <1>3
<1>5. (b + 1) * e = b * e + e
  BY <1>1
<1> QED
  BY <1>1, <1>2, <1>4, <1>5

\* A heap with a block in it has a root that is not above the block.
LEMMA RootBelow ==
  ASSUME NEW P \in Policies, NEW j \in Keys, Tracked(P, j)
  PROVE  \E r \in Roots(P, P.item[j].tenant) : P.item[r].priority <= P.item[j].priority
<1> DEFINE H == Heap(P, P.item[j].tenant)
           S == {P.item[k].priority : k \in H}
<1>1. j \in H /\ H \subseteq Keys
  BY Zenon DEF Heap
<1>2. S \subseteq Nat /\ P.item[j].priority \in S
  BY <1>1, Zenon DEF Policies, Item
<1>3. PICK n \in S : \A i \in S : n <= i
  BY <1>2, Smallest, Zenon
<1>4. PICK r \in H : n = P.item[r].priority
  BY Zenon
<1>5. \A i \in H : P.item[r].priority <= P.item[i].priority
  BY <1>3, <1>4, Zenon
<1>6. r \in Roots(P, P.item[j].tenant)
  BY <1>5, Zenon DEF Roots
<1> QED
  BY <1>1, <1>5, <1>6, Zenon

Pure(c) == IF c.elastic THEN c.weight = 0 ELSE \A t \in Tenants : c.quota[t] = 0

LEMMA PureVictims ==
  ASSUME NEW P \in Policies, NEW c \in Config, Pure(c), NEW k \in Victims(c, P),
         NEW j \in Keys, Tracked(P, j)
  PROVE  k \in Keys /\ P.item[k].priority <= P.item[j].priority
<1> DEFINE roots == UNION {Roots(P, t) : t \in Tenants}
<1>1. /\ P.item[j].tenant \in Tenants /\ roots \subseteq Keys
      /\ \A i \in Keys : P.item[i].priority \in Nat /\ P.item[i].tenant \in Tenants
  BY Zenon DEF Policies, Item, Roots, Heap
<1>2. PICK r \in roots : P.item[r].priority <= P.item[j].priority
  BY <1>1, RootBelow, Zenon
<1>3. CASE c.elastic
  <2>1. c.weight = 0 /\ c.quota \in [Tenants -> Nat]
    BY <1>3, Zenon DEF Pure, Config
  <2>2. \A t \in Tenants : DiscountDen(c, t) \in Nat /\ DiscountDen(c, t) > 0
    BY <2>1 DEF DiscountDen
  <2>3. \A t \in Tenants : DiscountNum(c, P, t) = DiscountDen(c, t)
    <3> SUFFICES ASSUME NEW t \in Tenants
                 PROVE  DiscountNum(c, P, t) = DiscountDen(c, t)
      BY Zenon
    <3> DEFINE x == IF c.quota[t] = 0
                      THEN IF P.bytes[t] > 0 THEN MaxOverage ELSE 0
                      ELSE IF P.bytes[t] > c.quota[t] THEN P.bytes[t] - c.quota[t] ELSE 0
    <3>1. x \in Int
      BY <2>1, GDSFAssumption DEF Policies
    <3>2. DiscountNum(c, P, t) = DiscountDen(c, t) + 0 * x
      BY <2>1, Zenon DEF DiscountNum
    <3> HIDE DEF x
    <3> QED
      BY <2>2, <3>1, <3>2
  <2> DEFINE dk == DiscountDen(c, P.item[k].tenant)
             dr == DiscountDen(c, P.item[r].tenant)
  <2>4. /\ k \in roots
        /\ P.item[k].priority * dk * DiscountNum(c, P, P.item[r].tenant)
             <= P.item[r].priority * dr * DiscountNum(c, P, P.item[k].tenant)
    BY <1>2, <1>3, Zenon DEF Victims, victimElastic
  <2>5. /\ P.item[k].priority * dk * dr <= P.item[r].priority * dr * dk
        /\ dk \in Nat /\ dk > 0 /\ dr \in Nat /\ dr > 0
    BY <1>1, <1>2, <2>2, <2>3, <2>4, Zenon
  <2>6. P.item[k].priority \in Nat /\ P.item[r].priority \in Nat
    BY <1>1, <1>2, <2>4, Zenon
  <2> HIDE DEF dk, dr
  <2>7. P.item[k].priority <= P.item[r].priority
    BY <2>5, <2>6, Cancel, Zenon
  <2> QED
    BY <1>1, <1>2, <2>4, <2>6, <2>7
<1>4. CASE ~c.elastic
  <2>1. {t \in Tenants : Heap(P, t) # {} /\ Over(c, P, t)} = {}
    BY <1>4 DEF Pure, Over
  <2>2. Victims(c, P) = Lowest(P, roots)
    BY <1>4, <2>1, Zenon DEF Victims, victimStatic
  <2>3. k \in roots /\ P.item[k].priority <= P.item[r].priority
    BY <1>2, <2>2, Zenon DEF Lowest
  <2> QED
    BY <1>1, <1>2, <2>3
<1> QED
  BY <1>3, <1>4, Zenon
-----------------------------------------------------------------------------
(* The invariant.                                                          *)

Base ==
  /\ <<conf, bound>> \in Deployments
  /\ m \in [Keys -> Entry]
  /\ totalBytes \in Int /\ evictSig \in BOOLEAN
  /\ call \in [Procs -> Call]
  /\ cold \in [Keys -> Object]
  /\ ops \in Nat /\ reads \in Nat
  /\ writer \in [Keys -> Tenants]

\* The map has changed and the policy has not been told.
Untold(c) == c.at = "policy" \/ (c.at = "add" /\ c.op = "drain")

\* What the map then holds.
Left(c, e) ==
  \/ /\ c.op \in {"put", "readmit"}
     /\ e.version # 0 /\ e.tenant = c.entry.tenant
     /\ e.size = c.entry.size /\ e.cost = c.entry.cost
  \/ c.op \in {"delete", "drain"} /\ e = NoEntry

\* The policy has the entry, or has nothing for no entry.
Agree(x, e) ==
  /\ x.freq # 0 <=> e.version # 0
  /\ x.tenant = e.tenant /\ x.size = e.size /\ x.cost = e.cost

\* P and Q track the same blocks, under the same tenants, sizes and costs.
SameBlocks(P, Q) ==
  \A k \in Keys :
    /\ Q.item[k].freq # 0 <=> P.item[k].freq # 0
    /\ Q.item[k].tenant = P.item[k].tenant
    /\ Q.item[k].size = P.item[k].size /\ Q.item[k].cost = P.item[k].cost

Absent == \A k \in Keys : m[k].version = 0 => m[k] = NoEntry
Exclusive ==
  \A p, q \in Procs :
    call[p].at \in Writing /\ call[q].at \in Writing /\ call[p].key = call[q].key => p = q
\* Labels before the map changes, and what a call there is going to do.
Storing == {"fetched", "admitted"}
Stores == \A p \in Procs : call[p].at \in Storing => call[p].op \in {"put", "readmit"}
Reports == \A p \in Procs : Untold(call[p]) => Left(call[p], m[call[p].key])
Agreed ==
  \A k \in Keys :
    (\A p \in Procs : Untold(call[p]) => call[p].key # k) => Agree(pol.item[k], m[k])

IInv == Base /\ PolOK(pol) /\ Absent /\ Exclusive /\ Stores /\ Reports /\ Agreed /\ AgingFloor

LEMMA AtType ==
  ASSUME NEW label \in Labels
  PROVE  /\ At(label) \in Call /\ At(label).at = label
         /\ At(label).entry = NoEntry /\ At(label).op = "none"
<1>1. (CHOOSE k \in Keys : TRUE) \in Keys
  BY GDSFAssumption, Zenon
<1>2. NoEntry \in Entry
  BY GDSFAssumption, Zenon DEF NoEntry, Entry
<1> QED
  BY <1>1, <1>2, Zenon DEF At, Call

\* A goroutine moves on; neither the map nor what the policy tracks changes.
LEMMA MoveStep ==
  ASSUME IInv, NEW p \in Procs, NEW c \in Call, call' = [call EXCEPT ![p] = c],
         m' = m, PolOK(pol'), SameBlocks(pol, pol'), Base', AgingFloor',
         c.at \in Writing => call[p].at \in Writing /\ c.key = call[p].key,
         c.at \in Storing => c.op \in {"put", "readmit"},
         Untold(c) <=> Untold(call[p]), Untold(c) => c.op = call[p].op /\ c.entry = call[p].entry
  PROVE  IInv'
<1>1. /\ call \in [Procs -> Call] /\ call'[p] = c
      /\ \A q \in Procs : q # p => call'[q] = call[q]
  BY Zenon DEF IInv, Base
<1>2. Untold(c) => c.at \in Writing
  BY Zenon DEF Untold, Writing
<1>3. Absent'
  BY Zenon DEF IInv, Absent
<1>4. Exclusive'
  BY <1>1 DEF IInv, Exclusive
<1>5. Stores'
  BY <1>1, Zenon DEF IInv, Stores
<1>6. Reports'
  <2> SUFFICES ASSUME NEW q \in Procs, Untold(call'[q])
               PROVE  Left(call'[q], m[call'[q].key])
    BY Zenon DEF Reports
  <2>1. CASE q = p
    BY <1>1, <1>2, <2>1, Zenon DEF IInv, Reports, Left
  <2>2. CASE q # p
    BY <1>1, <2>2, Zenon DEF IInv, Reports
  <2> QED
    BY <2>1, <2>2, Zenon
<1>7. Agreed'
  <2> SUFFICES ASSUME NEW k \in Keys,
                      \A q \in Procs : Untold(call'[q]) => call'[q].key # k
               PROVE  Agree(pol'.item[k], m[k])
    BY Zenon DEF Agreed
  <2>1. \A q \in Procs : Untold(call[q]) => call[q].key # k
    BY <1>1, <1>2, Zenon
  <2>2. Agree(pol.item[k], m[k])
    BY <2>1, Zenon DEF IInv, Agreed
  <2> QED
    BY <2>2, Zenon DEF Agree, SameBlocks
<1> QED
  BY <1>3, <1>4, <1>5, <1>6, <1>7, Zenon DEF IInv

\* A goroutine takes the lock of k and changes the map.
LEMMA LockStep ==
  ASSUME IInv, NEW p \in Procs, NEW c \in Call, call' = [call EXCEPT ![p] = c],
         CanLock(c.key), call[p].at \notin Writing, c.at \notin Storing, Untold(c),
         NEW e \in Entry, m' = [m EXCEPT ![c.key] = e], Left(c, e),
         e.version = 0 => e = NoEntry, pol' = pol, conf' = conf, Base'
  PROVE  IInv'
<1>1. /\ call \in [Procs -> Call] /\ call'[p] = c
      /\ \A q \in Procs : q # p => call'[q] = call[q]
  BY Zenon DEF IInv, Base
<1>2. /\ c.key \in Keys /\ m'[c.key] = e
      /\ \A k \in Keys : k # c.key => m'[k] = m[k]
  BY Zenon DEF IInv, Base, Call
<1>3. \A q \in Procs : call[q].at \in Writing => call[q].key # c.key
  BY Zenon DEF CanLock
<1>4. \A q \in Procs : Untold(call[q]) => call[q].at \in Writing /\ call[q].key # c.key /\ q # p
  BY <1>3, Zenon DEF Untold, Writing
<1>5. Absent'
  BY <1>2, Zenon DEF IInv, Absent
<1>6. Exclusive'
  BY <1>1, <1>3, Zenon DEF IInv, Exclusive
<1>7. Stores'
  BY <1>1, Zenon DEF IInv, Stores
<1>8. Reports'
  <2> SUFFICES ASSUME NEW q \in Procs, Untold(call'[q])
               PROVE  Left(call'[q], m'[call'[q].key])
    BY Zenon DEF Reports
  <2>1. CASE q = p
    BY <1>1, <1>2, <2>1, Zenon
  <2>2. CASE q # p
    <3>1. call'[q] = call[q] /\ call[q].key \in Keys /\ call[q].key # c.key
      BY <1>1, <1>4, <2>2, Zenon DEF Call
    <3> QED
      BY <1>2, <3>1, Zenon DEF IInv, Reports
  <2> QED
    BY <2>1, <2>2, Zenon
<1>9. Agreed'
  <2> SUFFICES ASSUME NEW k \in Keys,
                      \A q \in Procs : Untold(call'[q]) => call'[q].key # k
               PROVE  Agree(pol.item[k], m'[k])
    BY Zenon DEF Agreed
  <2>1. k # c.key
    BY <1>1, Zenon
  <2>2. \A q \in Procs : Untold(call[q]) => call[q].key # k
    BY <1>1, <1>4, Zenon
  <2> QED
    BY <1>2, <2>1, <2>2, Zenon DEF IInv, Agreed
<1>10. AgingFloor'
  BY Zenon DEF IInv, AgingFloor, PureGDSF
<1> QED
  BY <1>5, <1>6, <1>7, <1>8, <1>9, <1>10, Zenon DEF IInv

\* The policy is told: it now has what the map holds.
LEMMA TellStep ==
  ASSUME IInv, NEW p \in Procs, NEW c \in Call, call' = [call EXCEPT ![p] = c],
         call[p].at = "policy", ~Untold(c), c.at \notin Storing,
         c.at \in Writing => c.key = call[p].key, m' = m, conf' = conf, Base',
         pol' = IF call[p].op \in {"put", "readmit"}
                  THEN RecordWrite(pol, call[p].key, call[p].entry.tenant,
                                   call[p].entry.size, call[p].entry.cost)
                  ELSE RecordEvict(pol, call[p].key)
  PROVE  IInv'
<1> DEFINE k == call[p].key
           e == call[p].entry
<1>1. /\ call \in [Procs -> Call] /\ call'[p] = c
      /\ \A q \in Procs : q # p => call'[q] = call[q]
  BY Zenon DEF IInv, Base
<1>2. /\ k \in Keys /\ e.tenant \in Tenants /\ e.size \in Nat /\ e.cost \in Nat
      /\ Untold(call[p]) /\ call[p].at \in Writing /\ PolOK(pol)
  BY <1>1, Zenon DEF Call, Entry, Untold, Writing, IInv
<1>3. Left(call[p], m[k])
  BY <1>2, Zenon DEF IInv, Reports
<1>4. /\ PolOK(pol') /\ pol'.inflation = pol.inflation
      /\ \A j \in Keys : j # k => pol'.item[j] = pol.item[j]
      /\ Agree(pol'.item[k], m[k])
      /\ pol'.item[k].freq # 0 => pol'.item[k].priority >= pol'.inflation
  <2>1. CASE call[p].op \in {"put", "readmit"}
    <3>1. Recorded(pol, pol', k, e.tenant, e.size, e.cost)
      BY <1>2, <2>1, RecordWriteFacts, Zenon
    <3>2. /\ m[k].version # 0 /\ m[k].tenant = e.tenant
          /\ m[k].size = e.size /\ m[k].cost = e.cost
      BY <1>3, <2>1, Zenon DEF Left
    <3> HIDE DEF k, e
    <3> QED
      BY <3>1, <3>2, Zenon DEF Recorded, Agree, Tracked
  <2>2. CASE call[p].op \notin {"put", "readmit"}
    <3>1. /\ PolOK(pol') /\ pol'.item[k] = NoItem /\ pol'.inflation = pol.inflation
          /\ \A j \in Keys : j # k => pol'.item[j] = pol.item[j]
      BY <1>2, <2>2, RecordEvictFacts, Zenon
    <3>2. m[k] = NoEntry
      BY <1>3, <2>2, Zenon DEF Left
    <3>3. Agree(NoItem, NoEntry) /\ NoItem.freq = 0
      BY Zenon DEF Agree, NoItem, NoEntry
    <3> HIDE DEF k, e
    <3> QED
      BY <3>1, <3>2, <3>3, Zenon
  <2> QED
    BY <2>1, <2>2, Zenon
<1>5. Absent'
  BY Zenon DEF IInv, Absent
<1>6. Exclusive'
  BY <1>1, <1>2, Zenon DEF IInv, Exclusive
<1>7. Stores'
  BY <1>1, Zenon DEF IInv, Stores
<1>8. Reports'
  <2> SUFFICES ASSUME NEW q \in Procs, Untold(call'[q])
               PROVE  Left(call'[q], m[call'[q].key])
    BY Zenon DEF Reports
  <2> QED
    BY <1>1, Zenon DEF IInv, Reports
<1>9. Agreed'
  <2> SUFFICES ASSUME NEW j \in Keys, j # k,
                      \A q \in Procs : Untold(call'[q]) => call'[q].key # j
               PROVE  Agree(pol'.item[j], m[j])
    BY <1>4, Zenon DEF Agreed
  <2>1. \A q \in Procs : Untold(call[q]) => call[q].key # j
    BY <1>1, Zenon
  <2>2. Agree(pol.item[j], m[j])
    BY <2>1, Zenon DEF IInv, Agreed
  <2> QED
    BY <1>4, <2>2, Zenon
<1>10. AgingFloor'
  <2> HIDE DEF k
  <2>1. \A j \in Keys : j # k => (Tracked(pol', j) <=> Tracked(pol, j))
    BY <1>4, Zenon DEF Tracked
  <2> QED
    BY <1>2, <1>4, <2>1, Zenon DEF IInv, AgingFloor, PureGDSF, Tracked
<1> QED
  BY <1>4, <1>5, <1>6, <1>7, <1>8, <1>9, <1>10, Zenon DEF IInv
-----------------------------------------------------------------------------
(* Each action is one of these steps.                                      *)

\* Steps that leave map and policy alone.
LEMMA GoStep ==
  ASSUME IInv, NEW p \in Procs, NEW label \in Labels, Goto(p, label),
         label \in Writing => call[p].at \in Writing,
         label \in Storing => call[p].op \in {"put", "readmit"},
         label = "policy" <=> call[p].at = "policy" \/ (call[p].at = "add" /\ call[p].op = "drain"),
         label # "add", m' = m, pol' = pol, conf' = conf,
         call' \in [Procs -> Call] => Base'
  PROVE  IInv'
<1> DEFINE c == [call[p] EXCEPT !.at = label]
<1>1. call[p] \in Call /\ call' = [call EXCEPT ![p] = c]
  BY Zenon DEF IInv, Base, Goto
<1>2. /\ c \in Call /\ c.at = label /\ c.op = call[p].op /\ c.key = call[p].key
      /\ c.entry = call[p].entry
  BY <1>1, Zenon DEF Call
<1> HIDE DEF c
<1>3. call' \in [Procs -> Call]
  BY <1>1, <1>2, Zenon DEF IInv, Base
<1>4. AgingFloor' /\ PolOK(pol') /\ SameBlocks(pol, pol')
  BY Zenon DEF IInv, AgingFloor, PureGDSF, SameBlocks
<1>5. Untold(c) <=> Untold(call[p])
  BY <1>2, Zenon DEF Untold
<1> QED
  BY <1>1, <1>2, <1>3, <1>4, <1>5, MoveStep, Zenon

LEMMA LeaveStep ==
  ASSUME IInv, NEW p \in Procs, NEW label \in Labels, Leave(p, label),
         label \notin Writing, label \notin Storing, ~Untold(call[p]),
         m' = m, pol' = pol, conf' = conf, call' \in [Procs -> Call] => Base'
  PROVE  IInv'
<1> DEFINE c == At(label)
<1>1. call' = [call EXCEPT ![p] = c]
  BY Zenon DEF Leave
<1>2. c \in Call /\ c.at = label
  BY AtType, Zenon
<1> HIDE DEF c
<1>3. call' \in [Procs -> Call]
  BY <1>1, <1>2, Zenon DEF IInv, Base
<1>4. AgingFloor' /\ PolOK(pol') /\ SameBlocks(pol, pol')
  BY Zenon DEF IInv, AgingFloor, PureGDSF, SameBlocks
<1>5. ~Untold(c)
  BY <1>2, Zenon DEF Untold, Writing
<1> QED
  BY <1>1, <1>2, <1>3, <1>4, <1>5, MoveStep, Zenon

LEMMA EnterStep ==
  ASSUME IInv, NEW p \in Procs, NEW c \in Call, call' = [call EXCEPT ![p] = c],
         c.at \notin Writing, c.at \in Storing => c.op \in {"put", "readmit"},
         ~Untold(call[p]), m' = m, pol' = pol, conf' = conf, call' \in [Procs -> Call] => Base'
  PROVE  IInv'
<1>1. call' \in [Procs -> Call]
  BY Zenon DEF IInv, Base
<1>2. AgingFloor' /\ PolOK(pol') /\ SameBlocks(pol, pol')
  BY Zenon DEF IInv, AgingFloor, PureGDSF, SameBlocks
<1>3. ~Untold(c)
  BY Zenon DEF Untold, Writing
<1> QED
  BY <1>1, <1>2, <1>3, MoveStep, Zenon

LEMMA WriteStep ==
  ASSUME IInv, NEW p \in Workers, NEW k \in Keys, NEW t \in Tenants,
         NEW size \in Sizes, NEW cost \in Costs, Write(p, k, t, size, cost)
  PROVE  IInv'
<1> DEFINE c == [at |-> "admitted", op |-> "put", key |-> k,
                 entry |-> [version |-> 0, size |-> size, tenant |-> t, cost |-> cost],
                 prev |-> 0]
<1>1. p \in Procs /\ size \in Nat /\ cost \in Nat /\ ~Untold(call[p])
  BY TenantShardAssumption, Zenon DEF Procs, Write, Untold
<1>2. call' = [call EXCEPT ![p] = c] /\ c.at = "admitted" /\ c.op = "put"
  BY Zenon DEF Write, Enter
<1>3. c \in Call /\ c.at \notin Writing
  BY <1>1, Zenon DEF Call, Labels, Entry, Writing
<1>4. m' = m /\ pol' = pol /\ conf' = conf /\ (call' \in [Procs -> Call] => Base')
  BY DEF Write, fixed, IInv, Base
<1> HIDE DEF c
<1> QED
  BY <1>1, <1>2, <1>3, <1>4, EnterStep, Zenon

LEMMA DeleteStep ==
  ASSUME IInv, NEW p \in Workers, NEW k \in Keys, Delete(p, k)
  PROVE  IInv'
<1> DEFINE c == [at |-> "policy", op |-> "delete", key |-> k, entry |-> NoEntry, prev |-> m[k].size]
<1>1. /\ p \in Procs /\ NoEntry \in Entry /\ m[k].size \in Nat
      /\ call[p].at \notin Writing
  BY GDSFAssumption, Zenon DEF Procs, NoEntry, Entry, IInv, Base, Delete, Writing
<1>2. call' = [call EXCEPT ![p] = c] /\ m' = [m EXCEPT ![c.key] = NoEntry] /\ CanLock(c.key)
  BY Zenon DEF Delete, Enter
<1>3. c \in Call /\ c.at = "policy" /\ c.op = "delete" /\ c.at \notin Storing
  BY <1>1, Zenon DEF Call, Labels, Storing
<1> HIDE DEF c
<1>4. Untold(c) /\ Left(c, NoEntry)
  BY <1>3, Zenon DEF Untold, Left
<1>5. pol' = pol /\ conf' = conf /\ Base'
  BY <1>1, <1>2, <1>3 DEF Delete, fixed, IInv, Base
<1> QED
  BY <1>1, <1>2, <1>3, <1>4, <1>5, LockStep, Zenon

LEMMA GetStep ==
  ASSUME IInv, NEW p \in Workers, NEW k \in Keys, Get(p, k)
  PROVE  IInv'
<1> DEFINE c == [at |-> "read", op |-> "get", key |-> k, entry |-> NoEntry, prev |-> 0]
<1>1. p \in Procs /\ NoEntry \in Entry /\ ~Untold(call[p])
  BY GDSFAssumption, Zenon DEF Procs, NoEntry, Entry, Get, Untold
<1>2. call' = [call EXCEPT ![p] = c] /\ c.at = "read"
  BY Zenon DEF Get, Enter
<1>3. c \in Call /\ c.at \notin Writing \cup Storing
  BY <1>1, Zenon DEF Call, Labels, Writing, Storing
<1>4. m' = m /\ pol' = pol /\ conf' = conf /\ (call' \in [Procs -> Call] => Base')
  BY DEF Get, fixed, IInv, Base
<1> HIDE DEF c
<1> QED
  BY <1>1, <1>2, <1>3, <1>4, EnterStep, Zenon

LEMMA ColdGetStep ==
  ASSUME IInv, NEW p \in Workers, NEW k \in Keys, ColdGet(p, k)
  PROVE  IInv'
<1> DEFINE c == [at |-> "fetched", op |-> "readmit", key |-> k,
                 entry |-> [version |-> cold[k].version, size |-> cold[k].size,
                            tenant |-> Default, cost |-> 0],
                 prev |-> 0]
<1>1. /\ p \in Procs /\ Default \in Tenants /\ ~Untold(call[p])
      /\ cold[k].version \in Nat /\ cold[k].size \in Nat
  BY GDSFAssumption, Zenon DEF Procs, ColdGet, Untold, IInv, Base, Object
<1>2. call' = [call EXCEPT ![p] = c] /\ c.at = "fetched" /\ c.op = "readmit"
  BY Zenon DEF ColdGet, Enter
<1>3. c \in Call /\ c.at \notin Writing
  BY <1>1, Zenon DEF Call, Labels, Writing, Entry
<1>4. m' = m /\ pol' = pol /\ conf' = conf /\ (call' \in [Procs -> Call] => Base')
  BY DEF ColdGet, fixed, IInv, Base
<1> HIDE DEF c
<1> QED
  BY <1>1, <1>2, <1>3, <1>4, EnterStep, Zenon

LEMMA RecordReadStep ==
  ASSUME IInv, NEW p \in Workers, RecordRead(p)
  PROVE  IInv'
<1> DEFINE k == call[p].key
           c == At("idle")
<1>1. p \in Procs /\ call[p] \in Call /\ k \in Keys /\ ~Untold(call[p]) /\ PolOK(pol)
  BY Zenon DEF Procs, IInv, Base, RecordRead, Untold, Call
<1>2. call' = [call EXCEPT ![p] = c]
  BY Zenon DEF RecordRead, Leave
<1>3. c \in Call /\ c.at \notin Writing \cup Storing /\ ~Untold(c)
  BY AtType, Zenon DEF Labels, Writing, Storing, Untold
<1> HIDE DEF c
<1>4. m' = m /\ conf' = conf /\ Base'
  BY <1>1, <1>2, <1>3, Zenon DEF RecordRead, fixed, IInv, Base
<1>5. PolOK(pol') /\ SameBlocks(pol, pol') /\ AgingFloor'
  <2>1. pol' = RecordAccess(pol, k)
    BY Zenon DEF RecordRead
  <2>2. CASE Tracked(pol, k)
    <3>1. Recorded(pol, pol', k, pol.item[k].tenant, pol.item[k].size, pol.item[k].cost)
      BY <1>1, <2>1, <2>2, RecordAccessFacts, Zenon
    <3> HIDE DEF k
    <3>2. SameBlocks(pol, pol')
      BY <2>2, <3>1, Zenon DEF Recorded, SameBlocks, Tracked
    <3>3. AgingFloor'
      BY <1>1, <1>4, <3>1, Zenon DEF Recorded, IInv, AgingFloor, PureGDSF, Tracked
    <3> QED
      BY <3>1, <3>2, <3>3, Zenon DEF Recorded
  <2>3. CASE ~Tracked(pol, k)
    BY <1>1, <1>4, <2>1, <2>3, Zenon DEF RecordAccess, SameBlocks, IInv, AgingFloor, PureGDSF
  <2> QED
    BY <2>2, <2>3, Zenon
<1> QED
  BY <1>1, <1>2, <1>3, <1>4, <1>5, MoveStep, Zenon

LEMMA ReadmitStep ==
  ASSUME IInv, NEW p \in Workers, Readmit(p)
  PROVE  IInv'
<1>1. /\ p \in Procs /\ ~Untold(call[p]) /\ call[p].op \in {"put", "readmit"}
      /\ call[p].at = "fetched"
  BY Zenon DEF Procs, Readmit, Untold, IInv, Stores, Storing
<1>2. m' = m /\ pol' = pol /\ conf' = conf /\ (call' \in [Procs -> Call] => Base')
  BY Zenon DEF Readmit, fixed, IInv, Base
<1>3. CASE Leave(p, "idle")
  BY <1>1, <1>2, <1>3, LeaveStep, Zenon DEF Labels, Writing, Storing
<1>4. CASE Goto(p, "admitted")
  BY <1>1, <1>2, <1>4, GoStep, Zenon DEF Labels, Writing
<1> QED
  BY <1>3, <1>4, Zenon DEF Readmit

LEMMA PublishStep ==
  ASSUME IInv, NEW p \in Workers, Publish(p)
  PROVE  IInv'
<1> DEFINE k == call[p].key
           e == call[p].entry
           new == IF call[p].op = "put" THEN [e EXCEPT !.version = m[k].version + 1] ELSE e
           c == [at |-> "policy", op |-> call[p].op, key |-> k, entry |-> e, prev |-> m[k].size]
<1>1. /\ p \in Procs /\ call[p] \in Call /\ k \in Keys /\ e \in Entry /\ m[k] \in Entry
      /\ call[p].at = "admitted" /\ ~Untold(call[p]) /\ call[p].at \notin Writing
      /\ call[p].op \in {"put", "readmit"} /\ CanLock(k)
  BY Zenon DEF Procs, Publish, Untold, Writing, IInv, Base, Stores, Storing, Call
<1>2. pol' = pol /\ conf' = conf
  BY Zenon DEF Publish, fixed
<1>3. CASE Leave(p, "idle") /\ m' = m /\ writer' = writer
  <2>1. call' \in [Procs -> Call] => Base'
    BY <1>3, Zenon DEF Publish, fixed, IInv, Base
  <2> QED
    BY <1>1, <1>2, <1>3, <2>1, LeaveStep, Zenon DEF Labels, Writing, Storing
<1>4. CASE /\ call[p].op = "put" \/ m[k].version < e.version
           /\ m' = [m EXCEPT ![k] = new]
           /\ Enter(p, "policy", call[p].op, k, e, m[k].size)
           /\ writer' = IF call[p].op = "put" THEN [writer EXCEPT ![k] = e.tenant] ELSE writer
  <2>1. /\ new \in Entry /\ new.version # 0 /\ new.tenant = e.tenant
        /\ new.size = e.size /\ new.cost = e.cost
    BY <1>1, <1>4 DEF Entry
  <2>2. call' = [call EXCEPT ![p] = c] /\ m' = [m EXCEPT ![c.key] = new] /\ CanLock(c.key)
    BY <1>1, <1>4, Zenon DEF Enter
  <2>3. /\ c \in Call /\ c.at = "policy" /\ c.op \in {"put", "readmit"} /\ c.entry = e
        /\ c.at \notin Storing
    BY <1>1, Zenon DEF Call, Labels, Storing, Entry
  <2> HIDE DEF c, new
  <2>4. Untold(c) /\ Left(c, new)
    BY <2>1, <2>3, Zenon DEF Untold, Left
  <2>5. Base'
    <3>1. m' \in [Keys -> Entry] /\ call' \in [Procs -> Call]
      BY <1>1, <2>1, <2>2, <2>3, Zenon DEF IInv, Base
    <3>2. e.tenant \in Tenants
      BY <1>1, Zenon DEF Entry
    <3>3. writer' \in [Keys -> Tenants]
      BY <1>4, <3>2, Zenon DEF IInv, Base
    <3> QED
      BY <3>1, <3>3, Zenon DEF Publish, fixed, IInv, Base
  <2> QED
    BY <1>1, <1>2, <2>1, <2>2, <2>3, <2>4, <2>5, LockStep, Zenon
<1> QED
  BY <1>3, <1>4, Zenon DEF Publish

LEMMA TellPolicyStep ==
  ASSUME IInv, NEW p \in Procs, TellPolicy(p)
  PROVE  IInv'
<1>1. /\ call[p] \in Call /\ call[p].at = "policy" /\ m' = m /\ conf' = conf
      /\ (call' \in [Procs -> Call] => Base')
  BY Zenon DEF TellPolicy, fixed, IInv, Base
<1>2. pol' = IF call[p].op \in {"put", "readmit"}
               THEN RecordWrite(pol, call[p].key, call[p].entry.tenant,
                                call[p].entry.size, call[p].entry.cost)
               ELSE RecordEvict(pol, call[p].key)
  BY Zenon DEF TellPolicy
<1>3. PICK c \in Call : /\ call' = [call EXCEPT ![p] = c] /\ c.at \notin Storing /\ ~Untold(c)
                        /\ c.at \in Writing => c.key = call[p].key
  <2>1. CASE call[p].op = "drain"
    <3> DEFINE c == At("check")
    <3>1. c \in Call /\ c.at = "check"
      BY AtType, Zenon DEF Labels
    <3>2. call' = [call EXCEPT ![p] = c]
      BY <2>1, Zenon DEF TellPolicy, Leave
    <3> HIDE DEF c
    <3> QED
      BY <3>1, <3>2, Zenon DEF Writing, Storing, Untold
  <2>2. CASE call[p].op # "drain"
    <3> DEFINE c == [call[p] EXCEPT !.at = "add"]
    <3>1. c \in Call /\ c.at = "add" /\ c.op = call[p].op /\ c.key = call[p].key
      BY <1>1, Zenon DEF Call, Labels
    <3>2. call' = [call EXCEPT ![p] = c]
      BY <2>2, Zenon DEF TellPolicy, Goto
    <3> HIDE DEF c
    <3> QED
      BY <2>2, <3>1, <3>2, Zenon DEF Storing, Untold
  <2> QED
    BY <2>1, <2>2, Zenon
<1>4. Base'
  BY <1>1, <1>3, Zenon DEF IInv, Base
<1> QED
  BY <1>1, <1>2, <1>3, <1>4, TellStep, Zenon

LEMMA AddBytesStep ==
  ASSUME IInv, NEW p \in Procs, AddBytes(p)
  PROVE  IInv'
<1>1. /\ call[p].at = "add" /\ m' = m /\ pol' = pol /\ conf' = conf
      /\ (call' \in [Procs -> Call] => Base')
  <2>1. call[p].entry.size \in Nat /\ call[p].prev \in Nat
    BY Zenon DEF IInv, Base, Call, Entry
  <2>2. totalBytes' \in Int
    BY <2>1 DEF AddBytes, IInv, Base
  <2> QED
    BY <2>2, Zenon DEF AddBytes, fixed, IInv, Base
<1>2. CASE call[p].op = "drain"
  <2>1. Goto(p, "policy")
    BY <1>2, Zenon DEF AddBytes
  <2> QED
    BY <1>1, <1>2, <2>1, GoStep, Zenon DEF Labels, Writing, Storing
<1>3. CASE call[p].op = "delete"
  <2>1. Leave(p, "idle") /\ ~Untold(call[p])
    BY <1>1, <1>3, Zenon DEF AddBytes, Untold
  <2> QED
    BY <1>1, <2>1, LeaveStep, Zenon DEF Labels, Writing, Storing
<1>4. CASE call[p].op \notin {"drain", "delete"}
  <2>1. Goto(p, "signal")
    BY <1>4, Zenon DEF AddBytes
  <2> QED
    BY <1>1, <1>4, <2>1, GoStep, Zenon DEF Labels, Writing, Storing
<1> QED
  BY <1>2, <1>3, <1>4, Zenon

LEMMA SignalStep ==
  ASSUME IInv, NEW p \in Procs, signalEvict(p) \/ signalQuota(p) \/ SendSignal(p)
  PROVE  IInv'
<1>1. /\ call[p].at \in {"signal", "quota", "send"} /\ m' = m /\ pol' = pol /\ conf' = conf
      /\ (call' \in [Procs -> Call] => Base')
  BY Zenon DEF signalEvict, signalQuota, SendSignal, fixed, IInv, Base
<1>2. Goto(p, "send") \/ Goto(p, "quota") \/ Leave(p, "idle")
  BY Zenon DEF signalEvict, signalQuota, SendSignal
<1>3. CASE Goto(p, "send")
  BY <1>1, <1>3, GoStep, Zenon DEF Labels, Writing, Storing
<1>4. CASE Goto(p, "quota")
  BY <1>1, <1>4, GoStep, Zenon DEF Labels, Writing, Storing
<1>5. CASE Leave(p, "idle")
  <2>1. ~Untold(call[p])
    BY <1>1, Zenon DEF Untold
  <2> QED
    BY <1>1, <1>5, <2>1, LeaveStep, Zenon DEF Labels, Writing, Storing
<1> QED
  BY <1>2, <1>3, <1>4, <1>5, Zenon

LEMMA ContinueStep ==
  ASSUME IInv, NEW p \in Workers, Continue(p)
  PROVE  IInv'
<1>1. p \in Procs
  BY Zenon DEF Procs
<1> QED
  BY <1>1, RecordReadStep, ReadmitStep, PublishStep, TellPolicyStep, AddBytesStep, SignalStep, Zenon
     DEF Continue
-----------------------------------------------------------------------------
LEMMA CheckStep ==
  ASSUME IInv, ReceiveSignal \/ CheckTotal \/ CheckQuota
  PROVE  IInv'
<1>1. Evictor \in Procs
  BY Zenon DEF Procs
<1>2. /\ call[Evictor].at \in {"select", "check", "checkQuota"}
      /\ m' = m /\ pol' = pol /\ conf' = conf /\ (call' \in [Procs -> Call] => Base')
  BY Zenon DEF ReceiveSignal, CheckTotal, CheckQuota, fixed, IInv, Base
<1>3. \E label \in {"check", "victim", "checkQuota", "select"} : Leave(Evictor, label)
  BY Zenon DEF ReceiveSignal, CheckTotal, CheckQuota
<1>4. ~Untold(call[Evictor])
  BY <1>2, Zenon DEF Untold
<1> QED
  BY <1>1, <1>2, <1>3, <1>4, LeaveStep, Zenon DEF Labels, Writing, Storing

LEMMA PickVictimStep ==
  ASSUME IInv, PickVictim
  PROVE  IInv'
<1>1. Evictor \in Procs /\ ~Untold(call[Evictor]) /\ m' = m /\ conf' = conf
      /\ (call' \in [Procs -> Call] => Base')
  BY Zenon DEF Procs, PickVictim, Untold, fixed, IInv, Base
<1>2. CASE Leave(Evictor, "select") /\ pol' = pol
  BY <1>1, <1>2, LeaveStep, Zenon DEF Labels, Writing, Storing
<1>3. ASSUME NEW k \in Victims(conf, pol), pol' = Age(pol, k),
             Enter(Evictor, "evict", "drain", k, NoEntry, 0)
      PROVE  IInv'
  <2> DEFINE c == [at |-> "evict", op |-> "drain", key |-> k, entry |-> NoEntry, prev |-> 0]
  <2>1. k \in Keys
    BY <1>3, Zenon DEF Victims, victimElastic, victimStatic, Lowest, Roots, Heap
  <2>2. NoEntry \in Entry
    BY GDSFAssumption, Zenon DEF NoEntry, Entry
  <2>3. c \in Call /\ c.at = "evict"
    BY <2>1, <2>2, Zenon DEF Call, Labels
  <2>4. call' = [call EXCEPT ![Evictor] = c]
    BY <1>3, Zenon DEF Enter
  <2> HIDE DEF c
  <2>5. Base' /\ ~Untold(c) /\ c.at \notin Writing \cup Storing
    BY <1>1, <2>3, <2>4, Zenon DEF IInv, Base, Untold, Writing, Storing
  <2>6. /\ PolOK(pol) /\ PolOK(pol') /\ pol'.item = pol.item
        /\ pol'.inflation \in {pol.inflation, pol.item[k].priority}
    BY <1>3, <2>1, AgeFacts, Zenon DEF IInv
  <2>7. SameBlocks(pol, pol')
    BY <2>6, Zenon DEF SameBlocks
  <2>8. AgingFloor'
    <3> SUFFICES ASSUME PureGDSF, NEW j \in Keys, Tracked(pol, j)
                 PROVE  pol.item[j].priority >= pol'.inflation
      BY <1>1, <2>6, Zenon DEF AgingFloor, PureGDSF, Tracked
    <3>1. pol.item[j].priority >= pol.inflation
      BY Zenon DEF IInv, AgingFloor
    <3>2. conf \in Config /\ Pure(conf) /\ pol \in Policies
      BY <2>6, TenantShardAssumption, Zenon DEF IInv, Base, PureGDSF, Pure, PolOK
    <3>3. pol.item[k].priority <= pol.item[j].priority
      BY <1>3, <3>2, PureVictims, Zenon
    <3>4. pol.item[k].priority \in Nat /\ pol.item[j].priority \in Nat
      BY <2>1, <3>2, Zenon DEF Policies, Item
    <3> QED
      BY <2>6, <3>1, <3>3, <3>4, Zenon
  <2> QED
    BY <1>1, <2>3, <2>4, <2>5, <2>6, <2>7, <2>8, MoveStep, Zenon
<1> QED
  BY <1>2, <1>3, Zenon DEF PickVictim

LEMMA evictStep ==
  ASSUME IInv, evict
  PROVE  IInv'
<1> DEFINE k == call[Evictor].key
           c == [at |-> "add", op |-> "drain", key |-> k, entry |-> NoEntry, prev |-> m[k].size]
<1>1. /\ Evictor \in Procs /\ call[Evictor] \in Call /\ k \in Keys /\ m[k] \in Entry
      /\ call[Evictor].at = "evict" /\ ~Untold(call[Evictor]) /\ call[Evictor].at \notin Writing
      /\ NoEntry \in Entry /\ CanLock(k)
  BY GDSFAssumption, Zenon DEF Procs, evict, Untold, Writing, IInv, Base, Call, NoEntry, Entry
<1>2. pol' = pol /\ conf' = conf
  BY Zenon DEF evict, fixed
<1>3. CASE ~Resident(k)
  <2>1. Leave(Evictor, "check") /\ m' = m /\ (call' \in [Procs -> Call] => Base')
    BY <1>3, Zenon DEF evict, fixed, IInv, Base
  <2> QED
    BY <1>1, <1>2, <2>1, LeaveStep, Zenon DEF Labels, Writing, Storing
<1>4. CASE Resident(k)
  <2>1. call' = [call EXCEPT ![Evictor] = c] /\ m' = [m EXCEPT ![c.key] = NoEntry] /\ CanLock(c.key)
    BY <1>1, <1>4, Zenon DEF evict, Enter
  <2>2. c \in Call /\ c.at = "add" /\ c.op = "drain" /\ c.at \notin Storing
    BY <1>1, Zenon DEF Call, Labels, Storing, Entry
  <2> HIDE DEF c
  <2>3. Untold(c) /\ Left(c, NoEntry)
    BY <2>2, Zenon DEF Untold, Left
  <2>4. Base'
    <3>1. m' \in [Keys -> Entry] /\ call' \in [Procs -> Call]
      BY <1>1, <2>1, <2>2, Zenon DEF IInv, Base
    <3>2. [version |-> m[k].version, size |-> m[k].size] \in Object
      BY <1>1, Zenon DEF Entry, Object
    <3>3. cold' \in [Keys -> Object]
      BY <1>4, <3>2, Zenon DEF evict, IInv, Base
    <3> QED
      BY <3>1, <3>3, Zenon DEF evict, fixed, IInv, Base
  <2> QED
    BY <1>1, <1>2, <2>1, <2>2, <2>3, <2>4, LockStep, Zenon
<1> QED
  BY <1>3, <1>4, Zenon
-----------------------------------------------------------------------------
LEMMA EmptyOK == PolOK(EmptyPolicy)
<1>1. NoItem \in Item /\ NoItem.freq = 0
  BY GDSFAssumption, Zenon DEF NoItem, Item
<1>2. /\ EmptyPolicy \in Policies
      /\ \A k \in Keys : EmptyPolicy.item[k] = NoItem
      /\ \A t \in Tenants : EmptyPolicy.bytes[t] = 0
  BY <1>1 DEF EmptyPolicy, Policies
<1>3. \A t \in Tenants, k \in Keys : SizeIn(EmptyPolicy, t, k) = 0
  BY <1>1, <1>2, Zenon DEF SizeIn, Heap, Tracked
<1>4. \A t \in Tenants : HeapBytes(EmptyPolicy, t) = {}
  BY <1>3 DEF HeapBytes
<1>5. Accounts(EmptyPolicy)
  BY <1>2, <1>4, FS_EmptySet, Zenon DEF Accounts
<1> QED
  BY <1>2, <1>5, Zenon DEF PolOK, Forgotten

LEMMA InitOK == Init => IInv
<1> SUFFICES ASSUME Init
             PROVE  IInv
  BY Zenon
<1>1. NoEntry \in Entry /\ NoEntry.version = 0 /\ NoItem.freq = 0
  BY GDSFAssumption, Zenon DEF NoEntry, Entry, NoItem
<1>2. \A p \in Procs : call[p] = At("select") \/ call[p] = At("idle")
  BY Zenon DEF Init
<1>3. \A p \in Procs : call[p] \in Call /\ call[p].at \in {"select", "idle"}
  BY <1>2, AtType, Zenon DEF Labels
<1>4. \A p \in Procs : call[p].at \notin Writing \cup Storing /\ ~Untold(call[p])
  BY <1>3, Zenon DEF Writing, Storing, Untold
<1>5. Base
  <2>1. <<conf, bound>> \in Deployments
    BY TenantShardAssumption DEF Init
  <2>2. call \in [Procs -> Call]
    BY <1>3, Zenon DEF Init
  <2>3. cold \in [Keys -> Object] /\ writer \in [Keys -> Tenants] /\ m \in [Keys -> Entry]
    BY <1>1, GDSFAssumption, Zenon DEF Init, Object
  <2>4. totalBytes \in Int /\ ops \in Nat /\ reads \in Nat
    BY DEF Init
  <2>5. evictSig \in BOOLEAN
    BY Zenon DEF Init
  <2> QED
    BY <2>1, <2>2, <2>3, <2>4, <2>5, Zenon DEF Base
<1>6. PolOK(pol)
  BY EmptyOK, Zenon DEF Init
<1>7. \A k \in Keys : pol.item[k] = NoItem /\ m[k] = NoEntry
  BY Zenon DEF Init, EmptyPolicy
<1>8. Agreed /\ Absent /\ AgingFloor
  <2>1. Agree(NoItem, NoEntry)
    BY Zenon DEF Agree, NoItem, NoEntry
  <2>2. Agreed
    BY <1>7, <2>1, Zenon DEF Agreed
  <2>3. Absent
    BY <1>7, Zenon DEF Absent
  <2>4. AgingFloor
    BY <1>1, <1>7, Zenon DEF AgingFloor, Tracked
  <2> QED
    BY <2>2, <2>3, <2>4, Zenon
<1> QED
  BY <1>4, <1>5, <1>6, <1>8, Zenon DEF IInv, Exclusive, Stores, Reports

LEMMA NextOK == IInv /\ [Next]_vars => IInv'
<1> SUFFICES ASSUME IInv, [Next]_vars
             PROVE  IInv'
  BY Zenon
<1>1. CASE UNCHANGED vars
  <2>1. Base' /\ PolOK(pol')
    BY <1>1, Zenon DEF vars, IInv, Base
  <2>2. Absent' /\ Exclusive' /\ Stores'
    BY <1>1, Zenon DEF vars, IInv, Absent, Exclusive, Stores
  <2>3. Reports' /\ Agreed'
    BY <1>1, Zenon DEF vars, IInv, Reports, Agreed
  <2>4. AgingFloor'
    BY <1>1, Zenon DEF vars, IInv, AgingFloor, PureGDSF
  <2> QED
    BY <2>1, <2>2, <2>3, <2>4, Zenon DEF IInv
<1>2. CASE \E p \in Workers, k \in Keys, t \in Tenants, size \in Sizes, cost \in Costs :
             Write(p, k, t, size, cost)
  BY <1>2, WriteStep, Zenon
<1>3. CASE \E p \in Workers, k \in Keys : Delete(p, k) \/ Get(p, k) \/ ColdGet(p, k)
  BY <1>3, DeleteStep, GetStep, ColdGetStep, Zenon
<1>4. CASE \E p \in Workers : Continue(p)
  BY <1>4, ContinueStep, Zenon
<1>5. CASE ReceiveSignal \/ CheckTotal \/ CheckQuota
  BY <1>5, CheckStep, Zenon
<1>6. CASE PickVictim
  BY <1>6, PickVictimStep, Zenon
<1>7. CASE EvictStep
  <2>1. Evictor \in Procs
    BY Zenon DEF Procs
  <2> QED
    BY <1>7, <2>1, evictStep, AddBytesStep, TellPolicyStep, Zenon DEF EvictStep
<1> QED
  BY <1>1, <1>2, <1>3, <1>4, <1>5, <1>6, <1>7, Zenon DEF Next

\* The inductive invariant: types, the policy's books, exclusive stripes, what a call
\* that has changed the map owes the policy, and the agreement on every other key.
THEOREM TenantInvariance == Spec => []IInv
  BY InitOK, NextOK, PTL DEF Spec

\* Every variable keeps its type for any number of tenants and goroutines; a tenant's
\* byte total never goes below 0 (gdsf.go, removeItem).
THEOREM TenantTypes == Spec => []TypeOK
<1>1. IInv => TypeOK
  <2> SUFFICES ASSUME IInv
               PROVE  TypeOK
    BY Zenon
  <2>1. \A t \in Tenants : pol.bytes[t] \in Nat
    BY FS_CardinalityType, Zenon DEF IInv, PolOK, Accounts
  <2>2. pol \in Policies
    BY Zenon DEF IInv, PolOK
  <2>3. pol.bytes \in [Tenants -> Nat]
    BY <2>1, <2>2, Zenon DEF Policies
  <2>4. pol \in [item : [Keys -> Item], bytes : [Tenants -> Nat], inflation : Nat]
    BY <2>2, <2>3, Zenon DEF Policies
  <2> QED
    BY <2>4, Zenon DEF IInv, Base, TypeOK
<1> QED
  BY <1>1, TenantInvariance, PTL

\* A tenant's running total is what its heap holds, through overwrites, changes of
\* tenant, evictions and re-admissions (gdsf.go, RecordWrite and removeItem).
THEOREM TenantTotals == Spec => []TenantAccounting
<1>1. IInv => TenantAccounting
  BY Zenon DEF IInv, PolOK, Accounts, TenantAccounting
<1> QED
  BY <1>1, TenantInvariance, PTL

\* Store and policy agree on every key that nobody has locked for writing, though each
\* call tells the policy some steps after it changed the map (store.go, put, Delete and
\* evict).
THEOREM PolicyTracks == Spec => []PolicyTracksStore
<1>1. IInv => PolicyTracksStore
  <2> SUFFICES ASSUME IInv, NEW k \in Keys, OnKey(k) = {}
               PROVE  /\ Tracked(pol, k) <=> Resident(k)
                      /\ pol.item[k].tenant = m[k].tenant
                      /\ pol.item[k].size = m[k].size /\ pol.item[k].cost = m[k].cost
    BY Zenon DEF PolicyTracksStore
  <2>1. \A p \in Procs : Untold(call[p]) => call[p].key # k
    BY Zenon DEF OnKey, Untold, Writing
  <2> QED
    BY <2>1, Zenon DEF IInv, Agreed, Agree, Tracked, Resident
<1> QED
  BY <1>1, TenantInvariance, PTL

\* Without quotas that steer Victim, its choice is the lowest priority of all tenants, so
\* the floor L it sets is never above a tracked block (gdsf.go, victimStatic and
\* victimElastic).
THEOREM FloorHolds == Spec => []AgingFloor
<1>1. IInv => AgingFloor
  BY Zenon DEF IInv
<1> QED
  BY <1>1, TenantInvariance, PTL
-----------------------------------------------------------------------------
(* Victim returns a block whenever one is tracked.                         *)

\* Fractions a/b < c/d < e/f: the order in which victimElastic compares scores.
LEMMA ScoresTransitive ==
  ASSUME NEW a \in Nat, NEW b \in Nat, NEW c \in Nat, NEW d \in Nat, NEW e \in Nat,
         NEW f \in Nat, b > 0, d > 0, f > 0, a * d < c * b, c * f < e * d
  PROVE  a * f < e * b
<1>1. (a * d) * f < (c * b) * f
  <2> DEFINE x == a * d
             y == c * b
  <2>1. x \in Nat /\ y \in Nat /\ x + 1 <= y
    OBVIOUS
  <2> HIDE DEF x, y
  <2>2. y * f = (x + 1) * f + (y - (x + 1)) * f /\ (y - (x + 1)) * f >= 0
    BY <2>1
  <2>3. (x + 1) * f = x * f + f
    BY <2>1
  <2>4. x * f \in Int /\ y * f \in Int
    BY <2>1
  <2>5. x * f < y * f
    BY <2>2, <2>3, <2>4, <2>1
  <2> QED
    BY <2>5, Zenon DEF x, y
<1>2. (c * f) * b < (e * d) * b
  <2> DEFINE x == c * f
             y == e * d
  <2>1. x \in Nat /\ y \in Nat /\ x + 1 <= y
    OBVIOUS
  <2> HIDE DEF x, y
  <2>2. y * b = (x + 1) * b + (y - (x + 1)) * b /\ (y - (x + 1)) * b >= 0
    BY <2>1
  <2>3. (x + 1) * b = x * b + b
    BY <2>1
  <2>4. x * b \in Int /\ y * b \in Int
    BY <2>1
  <2>5. x * b < y * b
    BY <2>2, <2>3, <2>4, <2>1
  <2> QED
    BY <2>5, Zenon DEF x, y
<1>3. (c * b) * f = (c * f) * b /\ (a * d) * f = (a * f) * d /\ (e * d) * b = (e * b) * d
  OBVIOUS
<1>4. (a * f) * d < (e * b) * d
  <2>1. (a * d) * f \in Int /\ (c * b) * f \in Int /\ (e * d) * b \in Int
    OBVIOUS
  <2> QED
    BY <1>1, <1>2, <1>3, <2>1
<1> DEFINE x == a * f
           y == e * b
<1>5. x \in Nat /\ y \in Nat /\ x * d < y * d
  BY <1>4
<1> HIDE DEF x, y
<1>6. SUFFICES ASSUME x >= y PROVE FALSE
  BY <1>5 DEF x, y
<1>7. x * d = y * d + (x - y) * d /\ (x - y) * d >= 0
  BY <1>5, <1>6
<1> QED
  BY <1>5, <1>7

\* A finite set has an element with the lowest score: the one with fewest below it.
LEMMA LowestScore ==
  ASSUME NEW S, IsFiniteSet(S), S # {}, NEW num \in [S -> Nat], NEW den \in [S -> Nat],
         \A k \in S : den[k] > 0
  PROVE  \E k \in S : \A j \in S : num[k] * den[j] <= num[j] * den[k]
<1> DEFINE Below(k) == {j \in S : num[j] * den[k] < num[k] * den[j]}
           N == {Cardinality(Below(k)) : k \in S}
<1>1. \A k \in S : IsFiniteSet(Below(k)) /\ Cardinality(Below(k)) \in Nat
  <2> TAKE k \in S
  <2>1. Below(k) \subseteq S
    BY Zenon
  <2>2. IsFiniteSet(Below(k))
    BY <2>1, FS_Subset, Zenon
  <2> QED
    BY <2>2, FS_CardinalityType, Zenon
<1>2. N \subseteq Nat /\ N # {}
  BY <1>1, Zenon
<1>3. PICK n \in N : \A i \in N : n <= i
  BY <1>2, Smallest, Zenon
<1>4. PICK k \in S : n = Cardinality(Below(k))
  BY Zenon
<1>5. ASSUME NEW j \in S, num[j] * den[k] < num[k] * den[j]
      PROVE  FALSE
  <2>1. Below(j) \subseteq Below(k)
    <3> SUFFICES ASSUME NEW i \in S, num[i] * den[j] < num[j] * den[i]
                 PROVE  num[i] * den[k] < num[k] * den[i]
      BY Zenon
    <3>1. /\ num[i] \in Nat /\ num[j] \in Nat /\ num[k] \in Nat
          /\ den[i] \in Nat /\ den[j] \in Nat /\ den[k] \in Nat
          /\ den[i] > 0 /\ den[j] > 0 /\ den[k] > 0
      BY Zenon
    <3> QED
      BY <3>1, <1>5, ScoresTransitive, Zenon
  <2>2. j \in Below(k)
    BY <1>5, Zenon
  <2>3. j \notin Below(j)
    <3>1. num[j] * den[j] \in Int
      OBVIOUS
    <3> QED
      BY <3>1
  <2> HIDE DEF Below
  <2>4. Below(j) # Below(k)
    BY <2>2, <2>3, Zenon
  <2>5. Cardinality(Below(j)) < Cardinality(Below(k))
    BY <1>1, <2>1, <2>4, FS_Subset
  <2>6. Cardinality(Below(j)) \in N
    BY Zenon
  <2> QED
    BY <1>1, <1>3, <1>4, <2>5, <2>6
<1>6. ASSUME NEW j \in S
      PROVE  num[k] * den[j] <= num[j] * den[k]
  <2>1. num[k] * den[j] \in Int /\ num[j] * den[k] \in Int
    OBVIOUS
  <2> QED
    BY <1>5, <2>1
<1> QED
  BY <1>6, Zenon

\* Victim finds nothing only when no block is tracked, whatever the quotas and the
\* weight (gdsf.go, victimStatic and victimElastic).
LEMMA VictimExists ==
  ASSUME NEW P \in Policies, NEW c \in Config, NEW j \in Keys, Tracked(P, j)
  PROVE  Victims(c, P) # {}
<1>1. /\ P.item[j].tenant \in Tenants
      /\ \A i \in Keys : P.item[i].priority \in Nat /\ P.item[i].tenant \in Tenants
  BY Zenon DEF Policies, Item
<1>2. CASE c.elastic
  <2> DEFINE S == UNION {Roots(P, t) : t \in Tenants}
             num == [k \in S |-> P.item[k].priority * DiscountDen(c, P.item[k].tenant)]
             den == [k \in S |-> DiscountNum(c, P, P.item[k].tenant)]
  <2>1. S \subseteq Keys
    BY Zenon DEF Roots, Heap
  <2>2. S # {}
    BY <1>1, RootBelow, Zenon
  <2>3. IsFiniteSet(S)
    BY <2>1, GDSFAssumption, FS_Subset, Zenon
  <2>4. \A t \in Tenants : /\ DiscountDen(c, t) \in Nat
                           /\ DiscountNum(c, P, t) \in Nat /\ DiscountNum(c, P, t) > 0
    <3> TAKE t \in Tenants
    <3> DEFINE x == IF c.quota[t] = 0
                      THEN IF P.bytes[t] > 0 THEN MaxOverage ELSE 0
                      ELSE IF P.bytes[t] > c.quota[t] THEN P.bytes[t] - c.quota[t] ELSE 0
               d == DiscountDen(c, t)
    <3>1. c.quota[t] \in Nat /\ P.bytes[t] \in Int /\ c.weight \in Nat
      BY DEF Config, Policies
    <3>2. x \in Nat
      BY <3>1, GDSFAssumption
    <3>3. d \in Nat /\ d > 0
      BY <3>1 DEF DiscountDen
    <3>4. DiscountNum(c, P, t) = d + c.weight * x
      BY Zenon DEF DiscountNum
    <3> HIDE DEF x, d
    <3>5. c.weight * x \in Nat
      BY <3>1, <3>2
    <3>6. DiscountNum(c, P, t) \in Nat /\ DiscountNum(c, P, t) > 0
      BY <3>3, <3>4, <3>5
    <3> QED
      BY <3>3, <3>6, Zenon DEF d
  <2>5. num \in [S -> Nat] /\ den \in [S -> Nat] /\ \A k \in S : den[k] > 0
    BY <1>1, <2>1, <2>4
  <2>6. PICK k \in S : \A i \in S : num[k] * den[i] <= num[i] * den[k]
    <3> HIDE DEF S, num, den
    <3> QED
      BY <2>2, <2>3, <2>5, LowestScore, Zenon
  <2>7. k \in victimElastic(c, P)
    BY <2>6, Zenon DEF victimElastic
  <2> QED
    BY <1>2, <2>7, Zenon DEF Victims
<1>3. CASE ~c.elastic
  <2> DEFINE over == {t \in Tenants : Heap(P, t) # {} /\ Over(c, P, t)}
             payers == IF over # {} THEN over ELSE Tenants
             S == UNION {Roots(P, t) : t \in payers}
             N == {P.item[k].priority : k \in S}
  <2>1. \E t \in payers : Heap(P, t) # {}
    <3>1. j \in Heap(P, P.item[j].tenant)
      BY Zenon DEF Heap
    <3> QED
      BY <1>1, <3>1, Zenon
  <2>2. PICK t \in payers, i \in Keys : Tracked(P, i) /\ P.item[i].tenant = t
    BY <2>1, Zenon DEF Heap
  <2>3. Roots(P, t) # {}
    BY <2>2, RootBelow, Zenon
  <2>4. S # {} /\ S \subseteq Keys
    BY <2>3 DEF Roots, Heap
  <2>5. N \subseteq Nat /\ N # {}
    BY <1>1, <2>4
  <2>6. PICK n \in N : \A x \in N : n <= x
    <3> HIDE DEF N
    <3> QED
      BY <2>5, Smallest, Zenon
  <2>7. PICK k \in S : n = P.item[k].priority
    BY Zenon
  <2>8. k \in Lowest(P, S)
    BY <2>6, <2>7 DEF Lowest
  <2>9. victimStatic(c, P) = Lowest(P, S)
    BY Zenon DEF victimStatic
  <2> QED
    BY <1>3, <2>8, <2>9, Zenon DEF Victims
<1> QED
  BY <1>2, <1>3, Zenon
-----------------------------------------------------------------------------
(* The byte total, and who answers when it or a quota calls for evictions. *)

\* The map has changed and totalBytes has not.
NotAdded(c) == c.at = "add" \/ (c.at = "policy" /\ c.op # "drain")

\* What a goroutine is doing at the labels after the map has changed.
WorkerOK(c) ==
  /\ c.at \in {"policy", "add"} =>
       c.op \in {"put", "readmit"} \/ (c.op = "delete" /\ c.entry = NoEntry)
  /\ c.at \in {"signal", "quota", "send"} => c.op \in {"put", "readmit"}
EvictorOK(c) ==
  \/ c.at \in {"select", "check", "checkQuota", "victim"}
  \/ (c.at \in {"evict", "add", "policy"} /\ c.op = "drain" /\ c.entry = NoEntry)
Roles == (\A p \in Workers : WorkerOK(call[p])) /\ EvictorOK(call[Evictor])

\* totalBytes is the sum of f: the sizes in the map, but of a key whose change has not
\* been added yet the size before the change.
Cells(f) == UNION {{k} \X (1..f[k]) : k \in Keys}
Counts(f) ==
  /\ \A p \in Procs : NotAdded(call[p]) => f[call[p].key] = call[p].prev
  /\ \A k \in Keys :
       (\A p \in Procs : NotAdded(call[p]) => call[p].key # k) => f[k] = m[k].size
  /\ IsFiniteSet(Cells(f)) /\ totalBytes = Cardinality(Cells(f))
Counted == \E f \in [Keys -> Nat] : Counts(f)
Owes == \A p \in Procs : NotAdded(call[p]) => call[p].entry.size = m[call[p].key].size
Books == Owes /\ Counted

\* A write that has yet to compare the total with the watermark, or that is to send.
Nudging(c) == c.op \in {"put", "readmit"} /\ c.at \in {"policy", "add", "signal", "send"}
\* A write that has yet to ask the policy about quotas, or that is to send.
Asking(c) == c.op \in {"put", "readmit"} /\ c.at \in Writing
\* The evictor will compare the total with the low watermark again.
Draining == {"check", "victim", "evict", "add", "policy"}

\* The last case: nothing is stored, and the total only waits for deletes.
TotalAnswered ==
  Pressured /\ AboveLow =>
    \/ evictSig \/ call[Evictor].at \in Draining
    \/ \E p \in Workers : Nudging(call[p])
    \/ \A k \in Keys : m[k].size = 0
QuotaAnswered ==
  OverQuota(conf, pol) =>
    \/ evictSig \/ call[Evictor].at \in Draining \cup {"checkQuota"}
    \/ \E p \in Workers : Asking(call[p])

WInv == IInv /\ Roles /\ Books /\ TotalAnswered /\ QuotaAnswered

\* A goroutine moves on; what it still has to add stays the same.
LEMMA BooksMove ==
  ASSUME IInv, Books, NEW p \in Procs, NEW c \in Call, call' = [call EXCEPT ![p] = c],
         m' = m, totalBytes' = totalBytes, NotAdded(c) <=> NotAdded(call[p]),
         NotAdded(c) => /\ c.key = call[p].key /\ c.prev = call[p].prev
                        /\ c.entry = call[p].entry
  PROVE  Books'
<1>1. /\ call \in [Procs -> Call] /\ call'[p] = c
      /\ \A q \in Procs : q # p => call'[q] = call[q]
  BY Zenon DEF IInv, Base
<1>2. \A q \in Procs : /\ NotAdded(call'[q]) <=> NotAdded(call[q])
                       /\ NotAdded(call[q]) => /\ call'[q].key = call[q].key
                                               /\ call'[q].prev = call[q].prev
                                               /\ call'[q].entry = call[q].entry
  BY <1>1, Zenon
<1>3. Owes'
  BY <1>2, Zenon DEF Books, Owes
<1>4. PICK f \in [Keys -> Nat] : Counts(f)
  BY Zenon DEF Books, Counted
<1>5. Counts(f)'
  <2>1. \A q \in Procs : NotAdded(call'[q]) => f[call'[q].key] = call'[q].prev
    BY <1>2, <1>4, Zenon DEF Counts
  <2>2. ASSUME NEW k \in Keys, \A q \in Procs : NotAdded(call'[q]) => call'[q].key # k
        PROVE  f[k] = m'[k].size
    <3>1. \A q \in Procs : NotAdded(call[q]) => call[q].key # k
      BY <1>2, <2>2, Zenon
    <3> QED
      BY <1>4, <3>1, Zenon DEF Counts
  <2>3. IsFiniteSet(Cells(f)) /\ totalBytes' = Cardinality(Cells(f))
    BY <1>4, Zenon DEF Counts
  <2> QED
    BY <2>1, <2>2, <2>3, Zenon DEF Counts
<1> QED
  BY <1>3, <1>5, Zenon DEF Books, Counted

\* A goroutine changes the map; the total does not move yet.
LEMMA BooksLock ==
  ASSUME IInv, Books, NEW p \in Procs, NEW c \in Call, call' = [call EXCEPT ![p] = c],
         CanLock(c.key), call[p].at \notin Writing, NotAdded(c), c.prev = m[c.key].size,
         NEW e \in Entry, m' = [m EXCEPT ![c.key] = e], c.entry.size = e.size,
         totalBytes' = totalBytes
  PROVE  Books'
<1>1. /\ call \in [Procs -> Call] /\ call'[p] = c
      /\ \A q \in Procs : q # p => call'[q] = call[q]
  BY Zenon DEF IInv, Base
<1>2. /\ c.key \in Keys /\ m'[c.key] = e
      /\ \A k \in Keys : k # c.key => m'[k] = m[k]
  BY Zenon DEF IInv, Base, Call
<1>3. \A q \in Procs : NotAdded(call[q]) => q # p /\ call[q].key # c.key /\ call[q].key \in Keys
  BY <1>1, Zenon DEF CanLock, NotAdded, Writing, Call
<1>4. Owes'
  <2> SUFFICES ASSUME NEW q \in Procs, NotAdded(call'[q])
               PROVE  call'[q].entry.size = m'[call'[q].key].size
    BY Zenon DEF Owes
  <2>1. CASE q = p
    BY <1>1, <1>2, <2>1, Zenon
  <2>2. CASE q # p
    BY <1>1, <1>2, <1>3, <2>2 DEF Books, Owes
  <2> QED
    BY <2>1, <2>2, Zenon
<1>5. PICK f \in [Keys -> Nat] : Counts(f)
  BY Zenon DEF Books, Counted
<1>6. f[c.key] = m[c.key].size
  BY <1>2, <1>3, <1>5, Zenon DEF Counts
<1>7. Counts(f)'
  <2>1. \A q \in Procs : NotAdded(call'[q]) => f[call'[q].key] = call'[q].prev
    BY <1>1, <1>5, <1>6, Zenon DEF Counts
  <2>2. ASSUME NEW k \in Keys, \A q \in Procs : NotAdded(call'[q]) => call'[q].key # k
        PROVE  f[k] = m'[k].size
    <3>1. k # c.key
      BY <1>1, <2>2, Zenon
    <3>2. \A q \in Procs : NotAdded(call[q]) => call[q].key # k
      BY <1>1, <1>3, <2>2, Zenon
    <3> QED
      BY <1>2, <1>5, <3>1, <3>2, Zenon DEF Counts
  <2>3. IsFiniteSet(Cells(f)) /\ totalBytes' = Cardinality(Cells(f))
    BY <1>5, Zenon DEF Counts
  <2> QED
    BY <2>1, <2>2, <2>3, Zenon DEF Counts
<1> QED
  BY <1>4, <1>7, Zenon DEF Books, Counted

LEMMA CellsUpdate ==
  ASSUME NEW k \in Keys, NEW f, NEW g, f[k] \in Nat, g[k] \in Nat,
         \A j \in Keys : j # k => g[j] = f[j], IsFiniteSet(Cells(f))
  PROVE  IsFiniteSet(Cells(g)) /\ Cardinality(Cells(g)) = Cardinality(Cells(f)) + g[k] - f[k]
<1>1. IsFiniteSet(UNION {{j} \X (1..f[j]) : j \in Keys})
  BY Zenon DEF Cells
<1>2. /\ IsFiniteSet(UNION {{j} \X (1..g[j]) : j \in Keys})
      /\ Cardinality(UNION {{j} \X (1..g[j]) : j \in Keys})
           = Cardinality(UNION {{j} \X (1..f[j]) : j \in Keys}) + g[k] - f[k]
  BY <1>1, ColumnUpdate
<1> QED
  BY <1>2, Zenon DEF Cells

\* The total moves to the size in the map.
LEMMA BooksAdd ==
  ASSUME IInv, Books, NEW p \in Procs, NEW c \in Call, call' = [call EXCEPT ![p] = c],
         call[p].at = "add", ~NotAdded(c), m' = m,
         totalBytes' = totalBytes + call[p].entry.size - call[p].prev
  PROVE  Books'
<1> DEFINE k == call[p].key
<1>1. /\ call \in [Procs -> Call] /\ call'[p] = c
      /\ \A q \in Procs : q # p => call'[q] = call[q]
  BY Zenon DEF IInv, Base
<1>2. NotAdded(call[p]) /\ k \in Keys /\ m[k].size \in Nat
  BY <1>1, Zenon DEF NotAdded, Call, IInv, Base, Entry
<1>3. \A q \in Procs : NotAdded(call[q]) /\ q # p => call[q].key # k
  BY Zenon DEF IInv, Exclusive, NotAdded, Writing
<1>4. Owes'
  BY <1>1, Zenon DEF Books, Owes
<1>5. PICK f \in [Keys -> Nat] : Counts(f)
  BY Zenon DEF Books, Counted
<1>6. f[k] = call[p].prev /\ call[p].entry.size = m[k].size
  BY <1>2, <1>5, Zenon DEF Counts, Books, Owes
<1>7. PICK g \in [Keys -> Nat] : g[k] = m[k].size /\ \A j \in Keys : j # k => g[j] = f[j]
  <2>1. [f EXCEPT ![k] = m[k].size] \in [Keys -> Nat]
    BY <1>2, Zenon
  <2> QED
    BY <1>2, <2>1, Zenon
<1>8. IsFiniteSet(Cells(g)) /\ Cardinality(Cells(g)) = Cardinality(Cells(f)) + g[k] - f[k]
  <2>1. IsFiniteSet(Cells(f)) /\ f[k] \in Nat /\ g[k] \in Nat
    BY <1>2, <1>5, Zenon DEF Counts
  <2> QED
    BY <1>2, <1>7, <2>1, CellsUpdate, Zenon
<1>9. Counts(g)'
  <2>1. ASSUME NEW q \in Procs, NotAdded(call'[q])
        PROVE  g[call'[q].key] = call'[q].prev
    <3>1. q # p /\ call'[q] = call[q] /\ call[q].key # k /\ call[q].key \in Keys
      BY <1>1, <1>3, <2>1, Zenon DEF Call
    <3> QED
      BY <1>5, <1>7, <2>1, <3>1 DEF Counts
  <2>2. ASSUME NEW j \in Keys, \A q \in Procs : NotAdded(call'[q]) => call'[q].key # j
        PROVE  g[j] = m'[j].size
    <3>1. CASE j = k
      BY <1>7, <3>1, Zenon
    <3>2. CASE j # k
      <4>1. \A q \in Procs : NotAdded(call[q]) => call[q].key # j
        BY <1>1, <2>2, <3>2, Zenon
      <4> QED
        BY <1>5, <1>7, <3>2, <4>1, Zenon DEF Counts
    <3> QED
      BY <3>1, <3>2, Zenon
  <2>3. totalBytes' = Cardinality(Cells(g))
    BY <1>5, <1>6, <1>7, <1>8, Zenon DEF Counts
  <2> QED
    BY <1>8, <2>1, <2>2, <2>3, Zenon DEF Counts
<1> QED
  BY <1>4, <1>7, <1>9, Zenon DEF Books, Counted

\* A worker moves on without adding to the total or to a tenant, and does not give up a
\* nudge it still owes.
LEMMA AnsweredStill ==
  ASSUME WInv, NEW p \in Workers, NEW c \in Call, call' = [call EXCEPT ![p] = c],
         bound' = bound, totalBytes' \in Int, totalBytes' <= totalBytes, evictSig' = evictSig,
         (\A k \in Keys : m[k].size = 0) => (\A k \in Keys : m'[k].size = 0),
         OverQuota(conf', pol') => OverQuota(conf, pol),
         Nudging(call[p]) => Nudging(c), Asking(call[p]) => Asking(c)
  PROVE  TotalAnswered' /\ QuotaAnswered'
<1>1. /\ call \in [Procs -> Call] /\ p \in Procs /\ call'[p] = c
      /\ \A q \in Procs : q # p => call'[q] = call[q]
      /\ Evictor \in Procs /\ Evictor # p /\ Workers \subseteq Procs
  BY TenantShardAssumption, Zenon DEF WInv, IInv, Base, Procs
<1>2. /\ (\E q \in Workers : Nudging(call[q])) => \E q \in Workers : Nudging(call'[q])
      /\ (\E q \in Workers : Asking(call[q])) => \E q \in Workers : Asking(call'[q])
  BY <1>1, Zenon
<1>3. TotalAnswered'
  <2> SUFFICES ASSUME Pressured', AboveLow'
               PROVE  \/ evictSig' \/ call'[Evictor].at \in Draining
                      \/ \E q \in Workers : Nudging(call'[q])
                      \/ \A k \in Keys : m'[k].size = 0
    BY Zenon DEF TotalAnswered
  <2>1. totalBytes \in Int /\ bound.hi \in Nat /\ bound.lo \in Nat
    BY TenantShardAssumption, Zenon DEF WInv, IInv, Base, Bound
  <2>2. Pressured /\ AboveLow
    BY <2>1 DEF Pressured, AboveLow
  <2> QED
    BY <1>1, <1>2, <2>2, Zenon DEF WInv, TotalAnswered
<1>4. QuotaAnswered'
  BY <1>1, <1>2, Zenon DEF WInv, QuotaAnswered
<1> QED
  BY <1>3, <1>4, Zenon

\* A worker that still has both comparisons before it.
LEMMA AnsweredByWorker ==
  ASSUME NEW p \in Workers, Nudging(call'[p])
  PROVE  TotalAnswered' /\ QuotaAnswered'
<1>1. Asking(call'[p])
  BY Zenon DEF Nudging, Asking, Writing
<1> QED
  BY <1>1, Zenon DEF TotalAnswered, QuotaAnswered

LEMMA AnsweredByEvictor ==
  ASSUME call'[Evictor].at \in Draining
  PROVE  TotalAnswered' /\ QuotaAnswered'
  BY Zenon DEF TotalAnswered, QuotaAnswered

\* Removing a block takes bytes off its tenant and off no one else.
LEMMA EvictRelieves ==
  ASSUME NEW P \in Policies, NEW c \in Config, NEW k \in Keys,
         OverQuota(c, RecordEvict(P, k))
  PROVE  OverQuota(c, P)
<1> DEFINE Q == RecordEvict(P, k)
<1>1. /\ P.item[k].tenant \in Tenants /\ P.item[k].size \in Nat
      /\ P.bytes \in [Tenants -> Int]
  BY Zenon DEF Policies, Item
<1>2. \A t \in Tenants : Q.bytes[t] \in Int /\ Q.bytes[t] <= P.bytes[t]
  <2>1. CASE Tracked(P, k)
    <3>1. Q.bytes = [P.bytes EXCEPT ![P.item[k].tenant] = @ - P.item[k].size]
      BY <2>1, Zenon DEF RecordEvict, removeItem, Policies
    <3> HIDE DEF Q
    <3> QED
      BY <1>1, <3>1
  <2>2. CASE ~Tracked(P, k)
    <3>1. Q.bytes = P.bytes
      BY <2>2, Zenon DEF RecordEvict
    <3> HIDE DEF Q
    <3> QED
      BY <1>1, <3>1
  <2> QED
    BY <2>1, <2>2, Zenon
<1> HIDE DEF Q
<1>3. PICK t \in Tenants : ~c.elastic /\ c.quota[t] > 0 /\ Q.bytes[t] > c.quota[t]
  BY Zenon DEF OverQuota, Over, Q
<1>4. c.quota[t] \in Nat /\ P.bytes[t] > c.quota[t]
  BY <1>1, <1>2, <1>3 DEF Config
<1> QED
  BY <1>3, <1>4, Zenon DEF OverQuota, Over

\* A worker's step keeps the roles when its own role is kept.
LEMMA WorkerRole ==
  ASSUME WInv, NEW p \in Workers, NEW c \in Call, call' = [call EXCEPT ![p] = c], WorkerOK(c)
  PROVE  Roles'
<1>1. /\ call \in [Procs -> Call] /\ p \in Procs /\ call'[p] = c
      /\ \A q \in Procs : q # p => call'[q] = call[q]
      /\ Evictor \in Procs /\ Evictor # p /\ Workers \subseteq Procs
  BY TenantShardAssumption, Zenon DEF WInv, IInv, Base, Procs
<1> QED
  BY <1>1, Zenon DEF WInv, Roles

LEMMA EvictorRole ==
  ASSUME WInv, NEW c \in Call, call' = [call EXCEPT ![Evictor] = c], EvictorOK(c)
  PROVE  Roles'
<1>1. /\ call \in [Procs -> Call] /\ Evictor \in Procs /\ call'[Evictor] = c
      /\ \A q \in Workers : call'[q] = call[q]
  BY TenantShardAssumption, Zenon DEF WInv, IInv, Base, Procs
<1> QED
  BY <1>1, Zenon DEF WInv, Roles

\* A worker that moves on, owes nothing to the total before and after, and leaves the map,
\* the totals and the signal alone.
LEMMA IdleStep ==
  ASSUME WInv, IInv', NEW p \in Workers, NEW c \in Call, call' = [call EXCEPT ![p] = c],
         call[p].at \in {"idle", "fetched", "admitted", "read"}, c.at \notin Writing,
         m' = m, totalBytes' = totalBytes, evictSig' = evictSig, bound' = bound, conf' = conf,
         pol'.bytes = pol.bytes
  PROVE  WInv'
<1>1. /\ p \in Procs /\ ~NotAdded(c) /\ ~NotAdded(call[p]) /\ WorkerOK(c)
      /\ ~Nudging(call[p]) /\ ~Asking(call[p]) /\ totalBytes \in Int
  BY Zenon DEF Procs, NotAdded, Writing, WorkerOK, Nudging, Asking, WInv, IInv, Base
<1>2. Books'
  BY <1>1, BooksMove, Zenon DEF WInv
<1>3. Roles'
  BY <1>1, WorkerRole, Zenon
<1>4. OverQuota(conf', pol') => OverQuota(conf, pol)
  BY Zenon DEF OverQuota, Over
<1>5. totalBytes' \in Int /\ totalBytes' <= totalBytes
  BY <1>1
<1>6. TotalAnswered' /\ QuotaAnswered'
  <2>1. (\A k \in Keys : m[k].size = 0) => (\A k \in Keys : m'[k].size = 0)
    BY Zenon
  <2> QED
    BY <1>1, <1>4, <1>5, <2>1, AnsweredStill, Zenon
<1> QED
  BY <1>2, <1>3, <1>6, Zenon DEF WInv

LEMMA BeginWakes ==
  ASSUME WInv, NEW p \in Workers, NEW k \in Keys,
         \/ \E t \in Tenants, size \in Sizes, cost \in Costs : Write(p, k, t, size, cost)
         \/ Get(p, k) \/ ColdGet(p, k)
  PROVE  WInv'
<1>1. IInv'
  BY WriteStep, GetStep, ColdGetStep, Zenon DEF WInv
<1>2. p \in Procs /\ call \in [Procs -> Call] /\ call' \in [Procs -> Call]
  BY <1>1, Zenon DEF Procs, WInv, IInv, Base
<1>3. /\ call' = [call EXCEPT ![p] = call'[p]] /\ call'[p].at \notin Writing
      /\ call[p].at = "idle"
  <2>1. call[p].at = "idle"
    BY Zenon DEF Write, Get, ColdGet
  <2>2. ASSUME NEW e, NEW op, NEW label \in {"admitted", "read", "fetched"},
               Enter(p, label, op, k, e, 0)
        PROVE  call' = [call EXCEPT ![p] = call'[p]] /\ call'[p].at = label
    BY <1>2, <2>2, Zenon DEF Enter
  <2>3. CASE \E t \in Tenants, size \in Sizes, cost \in Costs : Write(p, k, t, size, cost)
    BY <2>1, <2>2, <2>3, Zenon DEF Write, Writing
  <2>4. CASE Get(p, k)
    BY <2>1, <2>2, <2>4, Zenon DEF Get, Writing
  <2>5. CASE ColdGet(p, k)
    BY <2>1, <2>2, <2>5, Zenon DEF ColdGet, Writing
  <2> QED
    BY <2>3, <2>4, <2>5, Zenon
<1>4. /\ m' = m /\ totalBytes' = totalBytes /\ evictSig' = evictSig
      /\ bound' = bound /\ conf' = conf /\ pol' = pol
  BY Zenon DEF Write, Get, ColdGet, fixed
<1> QED
  BY <1>1, <1>2, <1>3, <1>4, IdleStep, Zenon

LEMMA RecordReadWakes ==
  ASSUME WInv, NEW p \in Workers, RecordRead(p) \/ Readmit(p)
  PROVE  WInv'
<1>1. IInv' /\ p \in Procs
  BY RecordReadStep, ReadmitStep, Zenon DEF WInv, Procs
<1>2. /\ call \in [Procs -> Call] /\ call' \in [Procs -> Call] /\ pol \in Policies
      /\ call[p].key \in Keys
  BY <1>1, Zenon DEF WInv, IInv, Base, PolOK, Call
<1>3. /\ call' = [call EXCEPT ![p] = call'[p]] /\ call'[p].at \notin Writing
      /\ call[p].at \in {"fetched", "read"}
  <2>1. /\ Leave(p, "idle") \/ Goto(p, "admitted")
        /\ call[p].at \in {"fetched", "read"}
    BY Zenon DEF RecordRead, Readmit
  <2>2. At("idle").at = "idle"
    BY Zenon DEF At
  <2>3. CASE Leave(p, "idle")
    BY <1>1, <1>2, <2>1, <2>2, <2>3, Zenon DEF Leave, Writing
  <2>4. CASE Goto(p, "admitted")
    <3>1. call[p] \in Call
      BY <1>1, <1>2, Zenon
    <3>2. [call[p] EXCEPT !.at = "admitted"].at = "admitted"
      BY <3>1, Zenon DEF Call
    <3> QED
      BY <1>1, <1>2, <2>1, <2>4, <3>2, Zenon DEF Goto, Writing
  <2> QED
    BY <2>1, <2>3, <2>4, Zenon
<1>4. /\ m' = m /\ totalBytes' = totalBytes /\ evictSig' = evictSig
      /\ bound' = bound /\ conf' = conf
  BY Zenon DEF RecordRead, Readmit, fixed
<1>5. pol'.bytes = pol.bytes
  <2>1. pol' = RecordAccess(pol, call[p].key) \/ pol' = pol
    BY Zenon DEF RecordRead, Readmit
  <2>2. RecordAccess(pol, call[p].key).bytes = pol.bytes
    BY <1>2, Zenon DEF RecordAccess, Policies
  <2> QED
    BY <2>1, <2>2, Zenon
<1> QED
  BY <1>1, <1>2, <1>3, <1>4, <1>5, IdleStep, Zenon

LEMMA DeleteWakes ==
  ASSUME WInv, NEW p \in Workers, NEW k \in Keys, Delete(p, k)
  PROVE  WInv'
<1> DEFINE c == [at |-> "policy", op |-> "delete", key |-> k, entry |-> NoEntry, prev |-> m[k].size]
<1>1. IInv' /\ IInv
  BY DeleteStep, Zenon DEF WInv
<1>2. /\ p \in Procs /\ NoEntry \in Entry /\ NoEntry.size = 0 /\ m[k].size \in Nat
      /\ call[p].at = "idle" /\ totalBytes \in Int /\ m \in [Keys -> Entry]
  BY <1>1, GDSFAssumption, Zenon DEF Procs, NoEntry, Entry, IInv, Base, Delete
<1>3. call' = [call EXCEPT ![p] = c] /\ m' = [m EXCEPT ![c.key] = NoEntry] /\ CanLock(c.key)
  BY Zenon DEF Delete, Enter
<1>4. /\ c \in Call /\ c.at = "policy" /\ c.op = "delete" /\ c.entry = NoEntry
      /\ c.key = k /\ c.prev = m[c.key].size
  BY <1>2, Zenon DEF Call, Labels
<1> HIDE DEF c
<1>5. /\ pol' = pol /\ conf' = conf /\ bound' = bound /\ totalBytes' = totalBytes
      /\ evictSig' = evictSig
  BY Zenon DEF Delete, fixed
<1>6. /\ NotAdded(c) /\ WorkerOK(c) /\ call[p].at \notin Writing
      /\ ~Nudging(call[p]) /\ ~Asking(call[p])
  BY <1>2, <1>4, Zenon DEF NotAdded, WorkerOK, Writing, Nudging, Asking
<1>7. Books'
  BY <1>1, <1>2, <1>3, <1>4, <1>5, <1>6, BooksLock, Zenon DEF WInv
<1>8. Roles'
  BY <1>3, <1>4, <1>6, WorkerRole, Zenon
<1>9. (\A j \in Keys : m[j].size = 0) => (\A j \in Keys : m'[j].size = 0)
  BY <1>2, <1>3, Zenon
<1>10. TotalAnswered' /\ QuotaAnswered'
  <2>1. totalBytes' \in Int /\ totalBytes' <= totalBytes
    BY <1>2, <1>5
  <2>2. OverQuota(conf', pol') => OverQuota(conf, pol)
    BY <1>5, Zenon
  <2> QED
    BY <1>3, <1>4, <1>5, <1>6, <1>9, <2>1, <2>2, AnsweredStill, Zenon
<1> QED
  BY <1>1, <1>7, <1>8, <1>10, Zenon DEF WInv

LEMMA PublishWakes ==
  ASSUME WInv, NEW p \in Workers, Publish(p)
  PROVE  WInv'
<1> DEFINE k == call[p].key
           e == call[p].entry
           new == IF call[p].op = "put" THEN [e EXCEPT !.version = m[k].version + 1] ELSE e
           c == [at |-> "policy", op |-> call[p].op, key |-> k, entry |-> e, prev |-> m[k].size]
<1>1. IInv' /\ IInv
  BY PublishStep, Zenon DEF WInv
<1>2. /\ p \in Procs /\ call[p] \in Call /\ k \in Keys /\ e \in Entry /\ m[k] \in Entry
      /\ call[p].at = "admitted" /\ call[p].at \notin Writing
      /\ call[p].op \in {"put", "readmit"} /\ CanLock(k) /\ call \in [Procs -> Call]
  BY <1>1, Zenon DEF Procs, Publish, Writing, IInv, Base, Stores, Storing, Call
<1>3. /\ pol' = pol /\ conf' = conf /\ bound' = bound /\ totalBytes' = totalBytes
      /\ evictSig' = evictSig
  BY Zenon DEF Publish, fixed
<1>4. CASE Leave(p, "idle") /\ m' = m
  <2>1. At("idle") \in Call /\ At("idle").at \notin Writing
    BY AtType, Zenon DEF Labels, Writing
  <2> QED
    BY <1>1, <1>2, <1>3, <1>4, <2>1, IdleStep, Zenon DEF Leave
<1>5. CASE /\ m' = [m EXCEPT ![k] = new]
           /\ Enter(p, "policy", call[p].op, k, e, m[k].size)
  <2>1. new \in Entry /\ new.size = e.size
    BY <1>2 DEF Entry
  <2>2. call' = [call EXCEPT ![p] = c] /\ m' = [m EXCEPT ![c.key] = new] /\ CanLock(c.key)
    BY <1>2, <1>5, Zenon DEF Enter
  <2>3. /\ c \in Call /\ c.at = "policy" /\ c.op \in {"put", "readmit"}
        /\ c.entry.size = new.size /\ c.prev = m[c.key].size
    BY <1>2, <2>1, Zenon DEF Call, Labels, Entry
  <2> HIDE DEF c, new
  <2>4. NotAdded(c) /\ WorkerOK(c) /\ Nudging(c)
    BY <2>3, Zenon DEF NotAdded, WorkerOK, Nudging
  <2>5. Books'
    BY <1>1, <1>2, <1>3, <2>1, <2>2, <2>3, <2>4, BooksLock, Zenon DEF WInv
  <2>6. Roles'
    BY <2>2, <2>3, <2>4, WorkerRole, Zenon
  <2>7. call'[p] = c
    BY <1>2, <2>2, Zenon
  <2>8. TotalAnswered' /\ QuotaAnswered'
    BY <2>4, <2>7, AnsweredByWorker, Zenon
  <2> QED
    BY <1>1, <2>5, <2>6, <2>8, Zenon DEF WInv
<1> QED
  BY <1>4, <1>5, Zenon DEF Publish

LEMMA TellPolicyWakes ==
  ASSUME WInv, NEW p \in Workers, TellPolicy(p)
  PROVE  WInv'
<1> DEFINE c == [call[p] EXCEPT !.at = "add"]
<1>1. IInv' /\ IInv /\ p \in Procs
  BY TellPolicyStep, Zenon DEF WInv, Procs
<1>2. /\ call[p] \in Call /\ call[p].at = "policy" /\ call \in [Procs -> Call]
      /\ totalBytes \in Int /\ pol \in Policies /\ conf \in Config
      /\ WorkerOK(call[p])
  BY <1>1, TenantShardAssumption, Zenon DEF TellPolicy, IInv, Base, PolOK, WInv, Roles
<1>3. call[p].op # "drain"
  BY <1>2, Zenon DEF WorkerOK
<1>4. /\ m' = m /\ conf' = conf /\ bound' = bound /\ totalBytes' = totalBytes
      /\ evictSig' = evictSig
  BY Zenon DEF TellPolicy, fixed
<1>5. call' = [call EXCEPT ![p] = c]
  BY <1>3, Zenon DEF TellPolicy, Goto
<1>6. /\ c \in Call /\ c.at = "add" /\ c.op = call[p].op /\ c.key = call[p].key
      /\ c.entry = call[p].entry /\ c.prev = call[p].prev
  BY <1>2, Zenon DEF Call, Labels
<1> HIDE DEF c
<1>7. NotAdded(c) /\ NotAdded(call[p]) /\ WorkerOK(c)
  BY <1>2, <1>3, <1>6, Zenon DEF NotAdded, WorkerOK
<1>8. Books'
  BY <1>1, <1>4, <1>5, <1>6, <1>7, BooksMove, Zenon DEF WInv
<1>9. Roles'
  BY <1>5, <1>6, <1>7, WorkerRole, Zenon
<1>10. TotalAnswered' /\ QuotaAnswered'
  <2>1. CASE call[p].op \in {"put", "readmit"}
    <3>1. Nudging(call'[p])
      BY <1>1, <1>2, <1>5, <1>6, <2>1, Zenon DEF Nudging
    <3> QED
      BY <3>1, AnsweredByWorker, Zenon
  <2>2. CASE call[p].op \notin {"put", "readmit"}
    <3>1. pol' = RecordEvict(pol, call[p].key) /\ call[p].key \in Keys
      BY <1>2, <2>2, Zenon DEF TellPolicy, Call
    <3>2. OverQuota(conf', pol') => OverQuota(conf, pol)
      BY <1>2, <1>4, <3>1, EvictRelieves, Zenon
    <3>3. ~Nudging(call[p]) /\ ~Asking(call[p])
      BY <2>2, Zenon DEF Nudging, Asking
    <3> QED
      <4>1. totalBytes' \in Int /\ totalBytes' <= totalBytes
        BY <1>2, <1>4
      <4>2. (\A k \in Keys : m[k].size = 0) => (\A k \in Keys : m'[k].size = 0)
        BY <1>4, Zenon
      <4> QED
        BY <1>4, <1>5, <1>6, <3>2, <3>3, <4>1, <4>2, AnsweredStill, Zenon
  <2> QED
    BY <2>1, <2>2, Zenon
<1> QED
  BY <1>1, <1>8, <1>9, <1>10, Zenon DEF WInv

LEMMA AddBytesWakes ==
  ASSUME WInv, NEW p \in Workers, AddBytes(p)
  PROVE  WInv'
<1>1. IInv' /\ IInv /\ p \in Procs
  BY AddBytesStep, Zenon DEF WInv, Procs
<1>2. /\ call[p] \in Call /\ call[p].at = "add" /\ call \in [Procs -> Call]
      /\ totalBytes \in Int /\ totalBytes' \in Int /\ WorkerOK(call[p])
  BY <1>1, Zenon DEF AddBytes, IInv, Base, WInv, Roles
<1>3. /\ m' = m /\ conf' = conf /\ bound' = bound /\ pol' = pol /\ evictSig' = evictSig
      /\ totalBytes' = totalBytes + call[p].entry.size - call[p].prev
  BY Zenon DEF AddBytes, fixed
<1>4. CASE call[p].op = "delete"
  <2> DEFINE c == At("idle")
  <2>1. call' = [call EXCEPT ![p] = c]
    BY <1>4, Zenon DEF AddBytes, Leave
  <2>2. c \in Call /\ c.at = "idle"
    BY AtType, Zenon DEF Labels
  <2> HIDE DEF c
  <2>3. /\ ~NotAdded(c) /\ WorkerOK(c) /\ ~Nudging(call[p]) /\ ~Asking(call[p])
    BY <1>4, <2>2, Zenon DEF NotAdded, WorkerOK, Nudging, Asking
  <2>4. Books'
    BY <1>1, <1>2, <1>3, <2>1, <2>2, <2>3, BooksAdd, Zenon DEF WInv
  <2>5. Roles'
    BY <2>1, <2>2, <2>3, WorkerRole, Zenon
  <2>6. totalBytes' <= totalBytes
    <3>1. call[p].entry.size = 0 /\ call[p].prev \in Nat
      BY <1>2, <1>4 DEF WorkerOK, NoEntry, Call
    <3> QED
      BY <1>2, <1>3, <3>1
  <2>7. TotalAnswered' /\ QuotaAnswered'
    BY <1>2, <1>3, <2>1, <2>2, <2>3, <2>6, AnsweredStill, Zenon
  <2> QED
    BY <1>1, <2>4, <2>5, <2>7, Zenon DEF WInv
<1>5. CASE call[p].op # "delete"
  <2> DEFINE c == [call[p] EXCEPT !.at = "signal"]
  <2>1. call[p].op \in {"put", "readmit"}
    BY <1>2, <1>5, Zenon DEF WorkerOK
  <2>2. call' = [call EXCEPT ![p] = c]
    BY <2>1, Zenon DEF AddBytes, Goto
  <2>3. c \in Call /\ c.at = "signal" /\ c.op = call[p].op
    BY <1>2, Zenon DEF Call, Labels
  <2> HIDE DEF c
  <2>4. ~NotAdded(c) /\ WorkerOK(c) /\ Nudging(c) /\ call'[p] = c
    BY <1>1, <1>2, <2>1, <2>2, <2>3, Zenon DEF NotAdded, WorkerOK, Nudging
  <2>5. Books'
    BY <1>1, <1>2, <1>3, <2>2, <2>3, <2>4, BooksAdd, Zenon DEF WInv
  <2>6. Roles'
    BY <2>2, <2>3, <2>4, WorkerRole, Zenon
  <2>7. TotalAnswered' /\ QuotaAnswered'
    BY <2>4, AnsweredByWorker, Zenon
  <2> QED
    BY <1>1, <2>5, <2>6, <2>7, Zenon DEF WInv
<1> QED
  BY <1>4, <1>5, Zenon

\* Each comparison finds the pressure and passes it on, or there is none; what comes
\* later is for the next writer to find.
LEMMA SignalWakes ==
  ASSUME WInv, NEW p \in Workers, signalEvict(p) \/ signalQuota(p) \/ SendSignal(p)
  PROVE  WInv'
<1>1. IInv' /\ IInv /\ p \in Procs
  BY SignalStep, Zenon DEF WInv, Procs
<1>2. /\ call[p] \in Call /\ call[p].at \in {"signal", "quota", "send"}
      /\ call \in [Procs -> Call] /\ totalBytes \in Int
      /\ m' = m /\ conf' = conf /\ bound' = bound /\ pol' = pol /\ totalBytes' = totalBytes
  BY <1>1, Zenon DEF signalEvict, signalQuota, SendSignal, fixed, IInv, Base
<1>3. call[p].op \in {"put", "readmit"} /\ ~NotAdded(call[p])
  BY <1>2, Zenon DEF WInv, Roles, WorkerOK, NotAdded
<1>4. ASSUME NEW c \in Call, call' = [call EXCEPT ![p] = c],
             c.at = "idle" \/ (c.at \in {"quota", "send"} /\ c.op = call[p].op)
      PROVE  Books' /\ Roles' /\ call'[p] = c
  <2>1. ~NotAdded(c) /\ WorkerOK(c)
    BY <1>3, <1>4, Zenon DEF NotAdded, WorkerOK
  <2>2. Books'
    BY <1>1, <1>2, <1>3, <1>4, <2>1, BooksMove, Zenon DEF WInv
  <2>3. Roles'
    BY <1>4, <2>1, WorkerRole, Zenon
  <2> QED
    BY <1>1, <1>2, <1>4, <2>2, <2>3, Zenon
<1> DEFINE idle == At("idle")
           To(label) == [call[p] EXCEPT !.at = label]
<1>5. idle \in Call /\ idle.at = "idle"
  BY AtType, Zenon DEF Labels
<1>6. \A label \in {"quota", "send"} :
        To(label) \in Call /\ To(label).at = label /\ To(label).op = call[p].op
  BY <1>2, Zenon DEF Call, Labels
<1> HIDE DEF idle, To
<1>7. CASE Goto(p, "send")
  <2>1. call' = [call EXCEPT ![p] = To("send")]
    BY <1>7, Zenon DEF Goto, To
  <2>2. Books' /\ Roles' /\ call'[p] = To("send")
    BY <1>4, <1>6, <2>1, Zenon
  <2>3. Nudging(call'[p])
    BY <1>3, <1>6, <2>2, Zenon DEF Nudging
  <2>4. TotalAnswered' /\ QuotaAnswered'
    BY <2>3, AnsweredByWorker, Zenon
  <2> QED
    BY <1>1, <2>2, <2>4, Zenon DEF WInv
<1>8. CASE signalEvict(p) /\ Goto(p, "quota") /\ ~Pressured
  <2>1. call' = [call EXCEPT ![p] = To("quota")]
    BY <1>8, Zenon DEF Goto, To
  <2>2. Books' /\ Roles' /\ call'[p] = To("quota")
    BY <1>4, <1>6, <2>1, Zenon
  <2>3. TotalAnswered'
    BY <1>2, <1>8, Zenon DEF TotalAnswered, Pressured
  <2>4. Asking(call'[p])
    BY <1>3, <1>6, <2>2, Zenon DEF Asking, Writing
  <2>5. QuotaAnswered'
    BY <2>4, Zenon DEF QuotaAnswered
  <2> QED
    BY <1>1, <2>2, <2>3, <2>5, Zenon DEF WInv
<1>9. CASE signalQuota(p) /\ Leave(p, "idle") /\ ~OverQuota(conf, pol)
  <2>1. call' = [call EXCEPT ![p] = idle]
    BY <1>9, Zenon DEF Leave, idle
  <2>2. Books' /\ Roles' /\ call'[p] = idle
    BY <1>4, <1>5, <2>1, Zenon
  <2>3. QuotaAnswered'
    BY <1>2, <1>9, Zenon DEF QuotaAnswered
  <2>4. TotalAnswered'
    <3>1. call[p].at = "quota" /\ evictSig' = evictSig
      BY <1>9, Zenon DEF signalQuota
    <3>2. ~Nudging(call[p])
      BY <3>1, Zenon DEF Nudging
    <3>3. /\ (\E q \in Workers : Nudging(call[q])) => \E q \in Workers : Nudging(call'[q])
          /\ call'[Evictor] = call[Evictor]
      BY <1>2, <2>1, <3>2, TenantShardAssumption, Zenon DEF Procs
    <3>4. (Pressured /\ AboveLow)' => Pressured /\ AboveLow
      BY <1>2, Zenon DEF Pressured, AboveLow
    <3> QED
      BY <1>2, <3>1, <3>3, <3>4, Zenon DEF WInv, TotalAnswered
  <2> QED
    BY <1>1, <2>2, <2>3, <2>4, Zenon DEF WInv
<1>10. CASE SendSignal(p)
  <2>1. call' = [call EXCEPT ![p] = idle] /\ evictSig'
    BY <1>10, Zenon DEF SendSignal, Leave, idle
  <2>2. Books' /\ Roles'
    BY <1>4, <1>5, <2>1, Zenon
  <2>3. TotalAnswered' /\ QuotaAnswered'
    BY <2>1, Zenon DEF TotalAnswered, QuotaAnswered
  <2> QED
    BY <1>1, <2>2, <2>3, Zenon DEF WInv
<1> QED
  BY <1>7, <1>8, <1>9, <1>10, Zenon DEF signalEvict, signalQuota
-----------------------------------------------------------------------------
(* The evictor gives up only when there is nothing to do.                  *)

\* The evictor moves on and owes the total nothing.
LEMMA EvictorBooks ==
  ASSUME WInv, NEW c \in Call, call' = [call EXCEPT ![Evictor] = c], m' = m,
         totalBytes' = totalBytes, ~NotAdded(call[Evictor]), ~NotAdded(c), EvictorOK(c)
  PROVE  Books' /\ Roles'
<1>1. Evictor \in Procs /\ IInv /\ Books
  BY Zenon DEF Procs, WInv
<1>2. Books'
  BY <1>1, BooksMove, Zenon
<1> QED
  BY <1>2, EvictorRole, Zenon

\* What a worker or a pending signal answers, it still answers.
LEMMA OthersAnswer ==
  ASSUME WInv, NEW c \in Call, call' = [call EXCEPT ![Evictor] = c], m' = m, pol' = pol,
         totalBytes' = totalBytes, bound' = bound, conf' = conf, evictSig' = evictSig
  PROVE  /\ TotalAnswered' \/ call[Evictor].at \in Draining
         /\ QuotaAnswered' \/ call[Evictor].at \in Draining \cup {"checkQuota"}
<1>1. \A q \in Workers : call'[q] = call[q]
  BY TenantShardAssumption, Zenon DEF WInv, IInv, Base, Procs
<1>2. (Pressured /\ AboveLow)' => Pressured /\ AboveLow
  BY Zenon DEF Pressured, AboveLow
<1> QED
  BY <1>1, <1>2, Zenon DEF WInv, TotalAnswered, QuotaAnswered

LEMMA CheckWakes ==
  ASSUME WInv, ReceiveSignal \/ CheckTotal \/ CheckQuota
  PROVE  WInv'
<1>1. IInv' /\ IInv /\ Evictor \in Procs
  BY CheckStep, Zenon DEF WInv, Procs
<1>2. /\ call \in [Procs -> Call]
      /\ m' = m /\ conf' = conf /\ bound' = bound /\ pol' = pol /\ totalBytes' = totalBytes
      /\ call[Evictor].at \in {"select", "check", "checkQuota"}
  BY <1>1, Zenon DEF ReceiveSignal, CheckTotal, CheckQuota, fixed, IInv, Base
<1>3. PICK label \in {"check", "victim", "checkQuota", "select"} :
        /\ Leave(Evictor, label)
        /\ \/ label \in {"check", "victim"}
           \/ label = "checkQuota" /\ CheckTotal /\ ~AboveLow
           \/ label = "select" /\ CheckQuota /\ ~OverQuota(conf, pol)
  BY Zenon DEF ReceiveSignal, CheckTotal, CheckQuota
<1> DEFINE c == At(label)
<1>4. c \in Call /\ c.at = label
  BY AtType, Zenon DEF Labels
<1>5. call' = [call EXCEPT ![Evictor] = c]
  BY <1>3, Zenon DEF Leave
<1> HIDE DEF c
<1>6. Books' /\ Roles'
  <2>1. ~NotAdded(call[Evictor]) /\ ~NotAdded(c) /\ EvictorOK(c)
    BY <1>2, <1>4, Zenon DEF NotAdded, EvictorOK
  <2> QED
    BY <1>2, <1>4, <1>5, <2>1, EvictorBooks, Zenon
<1>7. call'[Evictor].at = label
  BY <1>1, <1>2, <1>4, <1>5, Zenon
<1>8. TotalAnswered' /\ QuotaAnswered'
  <2>1. CASE label \in {"check", "victim"}
    <3>1. call'[Evictor].at \in Draining
      BY <1>7, <2>1, Zenon DEF Draining
    <3> QED
      BY <3>1, AnsweredByEvictor, Zenon
  <2>2. CASE label = "checkQuota" /\ CheckTotal /\ ~AboveLow
    <3>1. TotalAnswered'
      BY <1>2, <2>2, Zenon DEF TotalAnswered, AboveLow
    <3>2. QuotaAnswered'
      BY <1>7, <2>2, Zenon DEF QuotaAnswered
    <3> QED
      BY <3>1, <3>2, Zenon
  <2>3. CASE label = "select" /\ CheckQuota /\ ~OverQuota(conf, pol)
    <3>1. QuotaAnswered'
      BY <1>2, <2>3, Zenon DEF QuotaAnswered
    <3>2. call[Evictor].at \notin Draining /\ evictSig' = evictSig
      BY <2>3, Zenon DEF CheckQuota, Draining
    <3>3. TotalAnswered'
      BY <1>2, <1>4, <1>5, <3>2, OthersAnswer, Zenon
    <3> QED
      BY <3>1, <3>3, Zenon
  <2> QED
    BY <1>3, <2>1, <2>2, <2>3, Zenon
<1> QED
  BY <1>1, <1>6, <1>8, Zenon DEF WInv

\* No block tracked: every tenant's total is 0, and the map is empty but for writes that
\* have yet to tell the policy.
LEMMA NothingTracked ==
  ASSUME WInv, \A k \in Keys : ~Tracked(pol, k), call[Evictor].at = "victim",
         \A p \in Workers : ~Nudging(call[p])
  PROVE  ~OverQuota(conf, pol) /\ \A k \in Keys : m[k].size = 0
<1>1. IInv /\ PolOK(pol) /\ conf \in Config
  BY TenantShardAssumption, Zenon DEF WInv, IInv, Base
<1>2. \A t \in Tenants : pol.bytes[t] = 0
  <2> TAKE t \in Tenants
  <2>1. \A k \in Keys : SizeIn(pol, t, k) = 0
    BY Zenon DEF SizeIn, Heap
  <2>2. HeapBytes(pol, t) = {}
    BY <2>1 DEF HeapBytes
  <2> QED
    BY <1>1, <2>2, FS_EmptySet, Zenon DEF PolOK, Accounts
<1>3. ~OverQuota(conf, pol)
  BY <1>1, <1>2 DEF OverQuota, Over, Config
<1>4. ASSUME NEW k \in Keys
      PROVE  m[k].size = 0
  <2>1. NoEntry.size = 0
    BY Zenon DEF NoEntry
  <2>2. CASE \A p \in Procs : Untold(call[p]) => call[p].key # k
    <3>1. m[k].version = 0
      BY <1>1, <2>2, Zenon DEF IInv, Agreed, Agree, Tracked
    <3> QED
      BY <1>1, <2>1, <3>1, Zenon DEF IInv, Absent
  <2>3. CASE \E p \in Procs : Untold(call[p]) /\ call[p].key = k
    <3>1. PICK p \in Procs : Untold(call[p]) /\ call[p].key = k
      BY <2>3, Zenon
    <3>2. p \in Workers
      BY <3>1, Zenon DEF Procs, Untold
    <3>3. call[p].at \in {"policy", "add"}
      BY <3>1, Zenon DEF Untold
    <3>4. call[p].op \notin {"put", "readmit"}
      BY <3>2, <3>3, Zenon DEF Nudging
    <3>5. m[k] = NoEntry
      BY <1>1, <3>1, <3>4, Zenon DEF IInv, Reports, Left
    <3> QED
      BY <2>1, <3>5, Zenon
  <2> QED
    BY <2>2, <2>3, Zenon
<1> QED
  BY <1>3, <1>4, Zenon

LEMMA PickVictimWakes ==
  ASSUME WInv, PickVictim
  PROVE  WInv'
<1>1. IInv' /\ IInv /\ Evictor \in Procs
  BY PickVictimStep, Zenon DEF WInv, Procs
<1>2. /\ call \in [Procs -> Call] /\ call' \in [Procs -> Call] /\ call[Evictor].at = "victim"
      /\ m' = m /\ conf' = conf /\ bound' = bound /\ totalBytes' = totalBytes
      /\ evictSig' = evictSig
  BY <1>1, Zenon DEF PickVictim, fixed, IInv, Base
<1>3. ~NotAdded(call[Evictor])
  BY <1>2, Zenon DEF NotAdded
<1>4. CASE \E k \in Victims(conf, pol) : Enter(Evictor, "evict", "drain", k, NoEntry, 0)
  <2> DEFINE c == call'[Evictor]
  <2>1. /\ call' = [call EXCEPT ![Evictor] = c] /\ c.at = "evict" /\ c.op = "drain"
        /\ c.entry = NoEntry
    BY <1>1, <1>2, <1>4 DEF Enter
  <2>2. c \in Call
    BY <1>1, <1>2, Zenon
  <2>3. ~NotAdded(c) /\ EvictorOK(c) /\ c.at \in Draining
    BY <2>1, Zenon DEF NotAdded, EvictorOK, Draining
  <2>4. Books' /\ Roles'
    BY <1>2, <1>3, <2>1, <2>2, <2>3, EvictorBooks, Zenon
  <2>5. TotalAnswered' /\ QuotaAnswered'
    BY <2>3, AnsweredByEvictor, Zenon
  <2> QED
    BY <1>1, <2>4, <2>5, Zenon DEF WInv
<1>5. CASE Victims(conf, pol) = {} /\ Leave(Evictor, "select") /\ pol' = pol
  <2> DEFINE c == At("select")
  <2>1. c \in Call /\ c.at = "select"
    BY AtType, Zenon DEF Labels
  <2>2. call' = [call EXCEPT ![Evictor] = c]
    BY <1>5, Zenon DEF Leave
  <2> HIDE DEF c
  <2>3. ~NotAdded(c) /\ EvictorOK(c)
    BY <2>1, Zenon DEF NotAdded, EvictorOK
  <2>4. Books' /\ Roles'
    BY <1>2, <1>3, <2>1, <2>2, <2>3, EvictorBooks, Zenon
  <2>5. \A k \in Keys : ~Tracked(pol, k)
    <3>1. pol \in Policies /\ conf \in Config
      BY <1>1, TenantShardAssumption, Zenon DEF IInv, Base, PolOK
    <3> QED
      BY <1>5, <3>1, VictimExists, Zenon
  <2>6. \A q \in Workers : call'[q] = call[q]
    BY <1>2, <2>2, TenantShardAssumption, Zenon DEF Procs
  <2>7. TotalAnswered' /\ QuotaAnswered'
    <3>1. CASE \E p \in Workers : Nudging(call[p])
      <4>1. PICK p \in Workers : Nudging(call'[p])
        BY <2>6, <3>1, Zenon
      <4> QED
        BY <4>1, AnsweredByWorker, Zenon
    <3>2. CASE \A p \in Workers : ~Nudging(call[p])
      <4>1. ~OverQuota(conf, pol) /\ \A k \in Keys : m[k].size = 0
        BY <1>2, <2>5, <3>2, NothingTracked, Zenon
      <4> QED
        BY <1>2, <1>5, <4>1, Zenon DEF TotalAnswered, QuotaAnswered
    <3> QED
      BY <3>1, <3>2, Zenon
  <2> QED
    BY <1>1, <2>4, <2>7, Zenon DEF WInv
<1> QED
  BY <1>4, <1>5, Zenon DEF PickVictim

LEMMA EvictWakes ==
  ASSUME WInv, EvictStep
  PROVE  WInv'
<1>1. IInv' /\ IInv /\ Evictor \in Procs /\ Books
  BY evictStep, AddBytesStep, TellPolicyStep, Zenon DEF WInv, EvictStep, Procs
<1>2. /\ call \in [Procs -> Call] /\ call' \in [Procs -> Call] /\ call[Evictor] \in Call
      /\ m \in [Keys -> Entry] /\ EvictorOK(call[Evictor])
  BY <1>1, Zenon DEF IInv, Base, WInv, Roles
<1> DEFINE c == call'[Evictor]
           k == call[Evictor].key
<1>3. ASSUME call' = [call EXCEPT ![Evictor] = c], EvictorOK(c), c.at \in Draining, Books'
      PROVE  WInv'
  <2>1. c \in Call
    BY <1>1, <1>2, Zenon
  <2>2. Roles'
    BY <1>3, <2>1, EvictorRole, Zenon
  <2>3. TotalAnswered' /\ QuotaAnswered'
    BY <1>3, AnsweredByEvictor, Zenon
  <2> QED
    BY <1>1, <1>3, <2>2, <2>3, Zenon DEF WInv
<1>4. At("check") \in Call /\ At("check").at = "check"
  BY AtType, Zenon DEF Labels
<1>5. CASE evict /\ ~Resident(k)
  <2>1. /\ call' = [call EXCEPT ![Evictor] = At("check")] /\ m' = m
        /\ totalBytes' = totalBytes /\ call[Evictor].at = "evict"
    BY <1>5, Zenon DEF evict, Leave
  <2>2. c = At("check")
    BY <1>1, <1>2, <2>1, Zenon
  <2>3. EvictorOK(c) /\ c.at \in Draining /\ ~NotAdded(c) /\ ~NotAdded(call[Evictor])
    BY <1>4, <2>1, <2>2, Zenon DEF EvictorOK, Draining, NotAdded
  <2> HIDE DEF c
  <2>4. Books'
    BY <1>1, <1>4, <2>1, <2>2, <2>3, BooksMove, Zenon
  <2> QED
    BY <1>3, <2>1, <2>2, <2>3, <2>4, Zenon
<1>6. CASE evict /\ Resident(k)
  <2> DEFINE d == [at |-> "add", op |-> "drain", key |-> k, entry |-> NoEntry, prev |-> m[k].size]
  <2>1. /\ call' = [call EXCEPT ![Evictor] = d] /\ m' = [m EXCEPT ![k] = NoEntry] /\ CanLock(k)
        /\ totalBytes' = totalBytes /\ call[Evictor].at = "evict"
    BY <1>6, Zenon DEF evict, Enter
  <2>2. /\ d.at = "add" /\ d.op = "drain" /\ d.key = k /\ d.entry = NoEntry
        /\ d.prev = m[d.key].size /\ NoEntry \in Entry
    BY GDSFAssumption, Zenon DEF NoEntry, Entry
  <2>3. c = d /\ d \in Call
    BY <1>1, <1>2, <2>1, Zenon
  <2> HIDE DEF d
  <2>4. /\ EvictorOK(c) /\ c.at \in Draining /\ NotAdded(d) /\ call[Evictor].at \notin Writing
    BY <2>1, <2>2, <2>3, Zenon DEF EvictorOK, Draining, NotAdded, Writing
  <2> HIDE DEF c, k
  <2>5. Books'
    BY <1>1, <2>1, <2>2, <2>3, <2>4, BooksLock, Zenon
  <2> QED
    BY <1>3, <2>1, <2>3, <2>4, <2>5, Zenon
<1>7. CASE AddBytes(Evictor)
  <2> DEFINE d == [call[Evictor] EXCEPT !.at = "policy"]
  <2>1. call[Evictor].at = "add" /\ call[Evictor].op = "drain" /\ call[Evictor].entry = NoEntry
    BY <1>2, <1>7, Zenon DEF AddBytes, EvictorOK
  <2>2. /\ call' = [call EXCEPT ![Evictor] = d] /\ m' = m
        /\ totalBytes' = totalBytes + call[Evictor].entry.size - call[Evictor].prev
    BY <1>7, <2>1, Zenon DEF AddBytes, Goto
  <2>3. d \in Call /\ d.at = "policy" /\ d.op = "drain" /\ d.entry = NoEntry
    BY <1>2, <2>1, Zenon DEF Call, Labels
  <2>4. c = d
    BY <1>1, <1>2, <2>2, Zenon
  <2> HIDE DEF d
  <2>5. EvictorOK(c) /\ c.at \in Draining /\ ~NotAdded(d)
    BY <2>3, <2>4, Zenon DEF EvictorOK, Draining, NotAdded
  <2> HIDE DEF c, k
  <2>6. Books'
    BY <1>1, <2>1, <2>2, <2>3, <2>5, BooksAdd, Zenon
  <2> QED
    BY <1>3, <2>2, <2>4, <2>5, <2>6, Zenon
<1>8. CASE TellPolicy(Evictor)
  <2>1. call[Evictor].at = "policy" /\ call[Evictor].op = "drain"
    BY <1>2, <1>8, Zenon DEF TellPolicy, EvictorOK
  <2>2. /\ call' = [call EXCEPT ![Evictor] = At("check")] /\ m' = m
        /\ totalBytes' = totalBytes
    BY <1>8, <2>1, Zenon DEF TellPolicy, Leave
  <2>3. c = At("check")
    BY <1>1, <1>2, <2>2, Zenon
  <2>4. EvictorOK(c) /\ c.at \in Draining /\ ~NotAdded(c) /\ ~NotAdded(call[Evictor])
    BY <1>4, <2>1, <2>3, Zenon DEF EvictorOK, Draining, NotAdded
  <2> HIDE DEF c, k
  <2>5. Books'
    BY <1>1, <1>4, <2>2, <2>3, <2>4, BooksMove, Zenon
  <2> QED
    BY <1>3, <2>2, <2>3, <2>4, <2>5, Zenon
<1> QED
  BY <1>5, <1>6, <1>7, <1>8, Zenon DEF EvictStep

LEMMA WakesInit == Init => WInv
<1> SUFFICES ASSUME Init
             PROVE  WInv
  BY Zenon
<1>1. IInv
  BY InitOK, Zenon
<1>2. \A p \in Procs : call[p] = At(IF p = Evictor THEN "select" ELSE "idle")
  BY Zenon DEF Init
<1>3. /\ call[Evictor].at = "select" /\ \A p \in Workers : call[p].at = "idle"
      /\ \A p \in Procs : ~NotAdded(call[p])
  <2>1. At("select").at = "select" /\ At("idle").at = "idle"
    BY Zenon DEF At
  <2>2. call[Evictor].at = "select" /\ \A p \in Workers : call[p].at = "idle"
    BY <1>2, <2>1, TenantShardAssumption, Zenon DEF Procs
  <2> QED
    BY <2>2, Zenon DEF Procs, NotAdded
<1>4. Roles
  BY <1>3, Zenon DEF Roles, WorkerOK, EvictorOK
<1>5. m = [k \in Keys |-> NoEntry] /\ totalBytes = 0 /\ pol = EmptyPolicy /\ NoEntry.size = 0
  BY Zenon DEF Init, NoEntry
<1>6. Books
  <2> DEFINE f == [k \in Keys |-> 0]
  <2>1. Cells(f) = {}
    BY DEF Cells
  <2>2. IsFiniteSet(Cells(f)) /\ Cardinality(Cells(f)) = 0
    BY <2>1, FS_EmptySet, Zenon
  <2>3. Counts(f)
    BY <1>3, <1>5, <2>2, Zenon DEF Counts
  <2>4. f \in [Keys -> Nat]
    BY Zenon
  <2> HIDE DEF f
  <2> QED
    BY <1>3, <2>3, <2>4, Zenon DEF Books, Owes, Counted
<1>7. TotalAnswered
  BY <1>5, Zenon DEF TotalAnswered
<1>8. QuotaAnswered
  <2>1. \A t \in Tenants : pol.bytes[t] = 0
    BY <1>5, Zenon DEF EmptyPolicy
  <2>2. conf \in Config
    BY <1>1, TenantShardAssumption, Zenon DEF IInv, Base
  <2>3. ~OverQuota(conf, pol)
    BY <2>1, <2>2 DEF OverQuota, Over, Config
  <2> QED
    BY <2>3, Zenon DEF QuotaAnswered
<1> QED
  BY <1>1, <1>4, <1>6, <1>7, <1>8, Zenon DEF WInv

LEMMA WakesNext == WInv /\ [Next]_vars => WInv'
<1> SUFFICES ASSUME WInv, [Next]_vars
             PROVE  WInv'
  BY Zenon
<1>1. CASE UNCHANGED vars
  <2>1. IInv'
    BY <1>1, NextOK, Zenon DEF WInv
  <2>2. Roles' /\ Owes'
    BY <1>1, Zenon DEF vars, WInv, Roles, Books, Owes
  <2>3. Counted'
    BY <1>1, Zenon DEF vars, WInv, Books, Counted, Counts
  <2>4. TotalAnswered' /\ QuotaAnswered'
    BY <1>1, Zenon DEF vars, WInv, TotalAnswered, QuotaAnswered, Pressured, AboveLow
  <2> QED
    BY <2>1, <2>2, <2>3, <2>4, Zenon DEF WInv, Books
<1>2. CASE \E p \in Workers, k \in Keys :
             \/ \E t \in Tenants, size \in Sizes, cost \in Costs : Write(p, k, t, size, cost)
             \/ Get(p, k) \/ ColdGet(p, k)
  BY <1>2, BeginWakes, Zenon
<1>3. CASE \E p \in Workers, k \in Keys : Delete(p, k)
  BY <1>3, DeleteWakes, Zenon
<1>4. CASE \E p \in Workers : Continue(p)
  BY <1>4, RecordReadWakes, PublishWakes, TellPolicyWakes, AddBytesWakes, SignalWakes, Zenon
     DEF Continue
<1>5. CASE ReceiveSignal \/ CheckTotal \/ CheckQuota
  BY <1>5, CheckWakes, Zenon
<1>6. CASE PickVictim
  BY <1>6, PickVictimWakes, Zenon
<1>7. CASE EvictStep
  BY <1>7, EvictWakes, Zenon
<1> QED
  BY <1>1, <1>2, <1>3, <1>4, <1>5, <1>6, <1>7, Zenon DEF Next

\* The stronger invariant: exact byte totals with what each call still owes them, and for
\* each reason to evict someone who has yet to act on it.
THEOREM WakeInvariance == Spec => []WInv
  BY WakesInit, WakesNext, PTL DEF Spec

\* When the total or a quota calls for evictions, a nudge is pending, the evictor is at
\* work or a call that has not finished will see to it, for any number of goroutines
\* (store.go, signalEvict, needsEviction and drain).
THEOREM NoWakeupLost == Spec => []NoLostWakeup
<1>1. WInv => NoLostWakeup
  <2> SUFFICES ASSUME WInv, NeedsNudge, ~evictSig, call[Evictor].at = "select"
               PROVE  \E p \in Workers : call[p].at \in Writing
    BY Zenon DEF NoLostWakeup
  <2>1. CASE OverQuota(conf, pol)
    BY <2>1, Zenon DEF WInv, QuotaAnswered, Draining, Asking
  <2>2. CASE \E p \in Workers : Nudging(call[p])
    BY <2>2, Zenon DEF Nudging, Writing
  <2>3. CASE Pressured /\ AboveLow /\ \A k \in Keys : m[k].size = 0
    <3>1. totalBytes > 0
      <4>1. totalBytes \in Int /\ bound.lo \in Nat
        BY TenantShardAssumption, Zenon DEF WInv, IInv, Base, Bound
      <4> QED
        BY <2>3, <4>1 DEF AboveLow
    <3>2. PICK f \in [Keys -> Nat] : Counts(f)
      BY Zenon DEF WInv, Books, Counted
    <3>3. Cells(f) # {}
      BY <3>1, <3>2, FS_EmptySet DEF Counts
    <3>4. PICK k \in Keys : f[k] # 0
      BY <3>3 DEF Cells
    <3>5. PICK p \in Procs : NotAdded(call[p])
      BY <2>3, <3>2, <3>4, Zenon DEF Counts
    <3>6. p \in Workers /\ call[p].at \in Writing
      BY <3>5, Zenon DEF Procs, NotAdded, Writing
    <3> QED
      BY <3>6, Zenon
  <2> QED
    BY <2>1, <2>2, <2>3, Zenon DEF NeedsNudge, WInv, TotalAnswered, Draining
<1> QED
  BY <1>1, WakeInvariance, PTL
=============================================================================
