--------------------------- MODULE ShardInduction ---------------------------
(***************************************************************************)
(* Type correctness of Shard, what its recency list holds after each of    *)
(* lru.go's methods, the steps of Shard classified by what they do to the  *)
(* shared state, and that every step keeps each part of the inductive      *)
(* invariant.  Holds for any number of keys, stripes and handlers, any     *)
(* block sizes and any watermarks.                                         *)
(***************************************************************************)
EXTENDS ShardInvariant, Counting, SequenceTheorems
-----------------------------------------------------------------------------
(***************************************************************************)
(* What the recency list of lru.go holds after each of its methods.        *)
(***************************************************************************)
\* The node the items map finds is the node of the key.
LEMMA PositionFound ==
  ASSUME NEW S, NEW s \in Seq(S), NEW k \in Range(s)
  PROVE  PositionOf(s, k) \in 1..Len(s) /\ s[PositionOf(s, k)] = k
  <1>1. DOMAIN s = 1..Len(s)
    BY LenProperties, Zenon
  <1>2. \E i \in 1..Len(s) : s[i] = k
    BY <1>1, Zenon DEF Range
  <1> QED
    BY <1>2, Zenon DEF PositionOf

\* Unlinking by position: the elements before it keep their place, those after it
\* move up by one.
LEMMA ListRemoveShape ==
  ASSUME NEW S, NEW s \in Seq(S), NEW n \in 1..Len(s)
  PROVE  /\ ListRemove(s, n) \in Seq(S)
         /\ Len(ListRemove(s, n)) = Len(s) - 1
         /\ \A i \in 1..(Len(s) - 1) :
              ListRemove(s, n)[i] = IF i < n THEN s[i] ELSE s[i + 1]
  <1> DEFINE a == SubSeq(s, 1, n - 1)
             b == SubSeq(s, n + 1, Len(s))
  <1>0. Len(s) \in Nat /\ \A i \in 1..Len(s) : s[i] \in S
    BY LenProperties, ElementOfSeq, Zenon
  <1>1. /\ a \in Seq(S) /\ Len(a) = n - 1
        /\ \A i \in 1..(n - 1) : a[i] = s[i]
    BY <1>0, SubSeqProperties
  <1>2. /\ b \in Seq(S) /\ Len(b) = Len(s) - n
        /\ \A i \in 1..(Len(s) - n) : b[i] = s[n + i]
    BY <1>0, SubSeqProperties
  <1>3. ListRemove(s, n) = a \o b
    BY Zenon DEF ListRemove
  <1> HIDE DEF a, b
  <1>4. /\ a \o b \in Seq(S)
        /\ Len(a \o b) = Len(a) + Len(b)
        /\ \A i \in 1..(Len(a) + Len(b)) :
             (a \o b)[i] = IF i <= Len(a) THEN a[i] ELSE b[i - Len(a)]
    BY <1>1, <1>2, ConcatProperties, Zenon
  <1>5. ASSUME NEW i \in 1..(Len(s) - 1)
        PROVE  (a \o b)[i] = IF i < n THEN s[i] ELSE s[i + 1]
    <2>1. CASE i < n
      BY <1>0, <1>1, <1>2, <1>4, <2>1
    <2>2. CASE ~(i < n)
      <3>1. i - Len(a) \in 1..(Len(s) - n) /\ n + (i - Len(a)) = i + 1
        BY <1>0, <1>1, <2>2
      <3>2. (a \o b)[i] = b[i - Len(a)]
        BY <1>0, <1>1, <1>2, <1>4, <2>2
      <3>3. b[i - Len(a)] = s[n + (i - Len(a))]
        BY <1>2, <3>1, Zenon
      <3> QED
        BY <2>2, <3>1, <3>2, <3>3, Zenon
    <2> QED
      BY <2>1, <2>2, Zenon
  <1> QED
    BY <1>0, <1>1, <1>2, <1>3, <1>4, <1>5

\* Unlink takes exactly its key out of a list without repetitions.
LEMMA UnlinkFacts ==
  ASSUME NEW S, NEW s \in Seq(S), IsInjective(s), NEW k \in Range(s)
  PROVE  /\ Unlink(s, k) \in Seq(S)
         /\ IsInjective(Unlink(s, k))
         /\ Range(Unlink(s, k)) = Range(s) \ {k}
  <1> DEFINE n == PositionOf(s, k)
             u == ListRemove(s, n)
  <1>1. n \in 1..Len(s) /\ s[n] = k
    BY PositionFound, Zenon
  <1> HIDE DEF n
  <1>2. /\ u \in Seq(S)
        /\ Len(u) = Len(s) - 1
        /\ \A i \in 1..(Len(s) - 1) : u[i] = IF i < n THEN s[i] ELSE s[i + 1]
    BY <1>1, ListRemoveShape, Zenon
  <1> HIDE DEF u
  <1>3. Len(s) \in Nat /\ DOMAIN s = 1..Len(s) /\ DOMAIN u = 1..(Len(s) - 1)
    BY <1>2, LenProperties, Zenon
  <1>4. \A i, j \in 1..Len(s) : s[i] = s[j] => i = j
    BY <1>3, Zenon DEF IsInjective
  <1>5. IsInjective(u)
    <2> SUFFICES ASSUME NEW i \in 1..(Len(s) - 1), NEW j \in 1..(Len(s) - 1), u[i] = u[j]
                 PROVE  i = j
      BY <1>3, Zenon DEF IsInjective
    <2> QED
      BY <1>1, <1>2, <1>3, <1>4
  <1>6. Range(u) \subseteq Range(s) \ {k}
    <2> SUFFICES ASSUME NEW i \in 1..(Len(s) - 1)
                 PROVE  u[i] \in Range(s) \ {k}
      BY <1>3, Zenon DEF Range
    <2>1. PICK j \in 1..Len(s) : j # n /\ u[i] = s[j]
      BY <1>1, <1>2, <1>3
    <2> QED
      BY <1>1, <1>3, <1>4, <2>1, Zenon DEF Range
  <1>7. Range(s) \ {k} \subseteq Range(u)
    <2> SUFFICES ASSUME NEW j \in 1..Len(s), s[j] # k
                 PROVE  s[j] \in Range(u)
      BY <1>3, Zenon DEF Range
    <2>1. CASE j < n
      <3>1. j \in 1..(Len(s) - 1) /\ u[j] = s[j]
        BY <1>1, <1>2, <1>3, <2>1
      <3> QED
        BY <1>3, <3>1, Zenon DEF Range
    <2>2. CASE j > n
      <3>1. j - 1 \in 1..(Len(s) - 1) /\ u[j - 1] = s[j]
        BY <1>1, <1>2, <1>3, <2>2
      <3> QED
        BY <1>3, <3>1, Zenon DEF Range
    <2> QED
      BY <1>1, <2>1, <2>2
  <1> QED
    BY <1>2, <1>5, <1>6, <1>7, Zenon DEF Unlink, u, n

\* A new key goes to the front.
LEMMA PushFrontFacts ==
  ASSUME NEW S, NEW s \in Seq(S), IsInjective(s), NEW k \in S, k \notin Range(s)
  PROVE  /\ <<k>> \o s \in Seq(S)
         /\ IsInjective(<<k>> \o s)
         /\ Range(<<k>> \o s) = Range(s) \cup {k}
  <1> DEFINE t == <<k>> \o s
  <1>0. Len(s) \in Nat /\ DOMAIN s = 1..Len(s)
    BY LenProperties, Zenon
  <1>1. <<k>> \in Seq(S) /\ Len(<<k>>) = 1 /\ <<k>>[1] = k
    OBVIOUS
  <1>2. /\ t \in Seq(S) /\ Len(t) = 1 + Len(s)
        /\ \A i \in 1..(1 + Len(s)) : t[i] = IF i <= 1 THEN <<k>>[i] ELSE s[i - 1]
    BY <1>1, ConcatProperties, Zenon
  <1> HIDE DEF t
  <1>3. DOMAIN t = 1..(1 + Len(s))
    BY <1>2, LenProperties, Zenon
  <1>4. t[1] = k /\ \A i \in 1..Len(s) : t[i + 1] = s[i]
    BY <1>0, <1>1, <1>2
  <1>5. \A i \in 1..(1 + Len(s)) : i = 1 \/ (i - 1 \in 1..Len(s) /\ t[i] = s[i - 1])
    BY <1>0, <1>2
  <1>6. \A i \in 1..Len(s) : s[i] # k
    BY <1>0, Zenon DEF Range
  <1>7. IsInjective(t)
    <2> SUFFICES ASSUME NEW i \in 1..(1 + Len(s)), NEW j \in 1..(1 + Len(s)), t[i] = t[j]
                 PROVE  i = j
      BY <1>3, Zenon DEF IsInjective
    <2>1. \A x, y \in 1..Len(s) : s[x] = s[y] => x = y
      BY <1>0, Zenon DEF IsInjective
    <2>2. CASE i = 1
      BY <1>4, <1>5, <1>6, <2>2, Zenon
    <2>3. CASE j = 1
      BY <1>4, <1>5, <1>6, <2>3, Zenon
    <2>4. CASE i # 1 /\ j # 1
      BY <1>0, <1>5, <2>1, <2>4
    <2> QED
      BY <2>2, <2>3, <2>4, Zenon
  <1>8. Range(t) = Range(s) \cup {k}
    <2>1. ASSUME NEW i \in 1..(1 + Len(s)) PROVE t[i] \in Range(s) \cup {k}
      BY <1>0, <1>4, <1>5, Zenon DEF Range
    <2>2. ASSUME NEW i \in 1..Len(s) PROVE s[i] \in Range(t)
      <3>1. i + 1 \in 1..(1 + Len(s))
        BY <1>0
      <3> QED
        BY <1>3, <1>4, <3>1, Zenon DEF Range
    <2>3. k \in Range(t)
      <3>1. 1 \in 1..(1 + Len(s))
        BY <1>0
      <3> QED
        BY <1>3, <1>4, <3>1, Zenon DEF Range
    <2> QED
      BY <1>0, <1>3, <2>1, <2>2, <2>3, Zenon DEF Range
  <1> QED
    BY <1>2, <1>7, <1>8, Zenon DEF t

LEMMA MoveToFrontFacts ==
  ASSUME NEW S, NEW s \in Seq(S), IsInjective(s), NEW k \in Range(s)
  PROVE  /\ MoveToFront(s, k) \in Seq(S)
         /\ IsInjective(MoveToFront(s, k))
         /\ Range(MoveToFront(s, k)) = Range(s)
  <1>1. k \in S
    BY PositionFound, ElementOfSeq
  <1>2. /\ Unlink(s, k) \in Seq(S)
        /\ IsInjective(Unlink(s, k))
        /\ Range(Unlink(s, k)) = Range(s) \ {k}
    BY UnlinkFacts, Zenon
  <1>3. k \notin Range(Unlink(s, k))
    BY <1>2, Zenon
  <1> DEFINE u == Unlink(s, k)
  <1>4. u \in Seq(S) /\ IsInjective(u) /\ k \notin Range(u) /\ Range(u) = Range(s) \ {k}
    BY <1>2, <1>3, Zenon
  <1>5. MoveToFront(s, k) = <<k>> \o u
    BY Zenon DEF MoveToFront
  <1> HIDE DEF u
  <1>6. /\ <<k>> \o u \in Seq(S)
        /\ IsInjective(<<k>> \o u)
        /\ Range(<<k>> \o u) = Range(u) \cup {k}
    BY <1>1, <1>4, PushFrontFacts
  <1>7. Range(u) \cup {k} = Range(s)
    BY <1>4, Zenon
  <1> QED
    BY <1>5, <1>6, <1>7, Zenon

\* A read reorders the list and keeps its keys.
LEMMA RecordAccessFacts ==
  ASSUME NEW S, NEW s \in Seq(S), IsInjective(s), NEW k \in S
  PROVE  /\ RecordAccess(s, k) \in Seq(S)
         /\ IsInjective(RecordAccess(s, k))
         /\ Range(RecordAccess(s, k)) = Range(s)
  <1>1. CASE k \in Range(s)
    BY <1>1, MoveToFrontFacts, Zenon DEF RecordAccess
  <1>2. CASE k \notin Range(s)
    BY <1>2, Zenon DEF RecordAccess
  <1> QED
    BY <1>1, <1>2, Zenon

\* A write makes its key a candidate victim, once, whether or not it was one.
LEMMA RecordWriteFacts ==
  ASSUME NEW S, NEW s \in Seq(S), IsInjective(s), NEW k \in S
  PROVE  /\ RecordWrite(s, k) \in Seq(S)
         /\ IsInjective(RecordWrite(s, k))
         /\ Range(RecordWrite(s, k)) = Range(s) \cup {k}
  <1>1. CASE k \in Range(s)
    <2>1. RecordWrite(s, k) = MoveToFront(s, k) /\ Range(s) = Range(s) \cup {k}
      BY <1>1, Zenon DEF RecordWrite
    <2> QED
      BY <1>1, <2>1, MoveToFrontFacts, Zenon
  <1>2. CASE k \notin Range(s)
    <2>1. RecordWrite(s, k) = <<k>> \o s
      BY <1>2, Zenon DEF RecordWrite
    <2> QED
      BY <1>2, <2>1, PushFrontFacts
  <1> QED
    BY <1>1, <1>2, Zenon

\* A removal takes its key, and no other, off the list of candidates.
LEMMA RecordEvictFacts ==
  ASSUME NEW S, NEW s \in Seq(S), IsInjective(s), NEW k \in S
  PROVE  /\ RecordEvict(s, k) \in Seq(S)
         /\ IsInjective(RecordEvict(s, k))
         /\ Range(RecordEvict(s, k)) = Range(s) \ {k}
  <1>1. CASE k \in Range(s)
    BY <1>1, UnlinkFacts, Zenon DEF RecordEvict
  <1>2. CASE k \notin Range(s)
    BY <1>2, Zenon DEF RecordEvict
  <1> QED
    BY <1>1, <1>2, Zenon

\* The victim is a key of the list, and there is one unless the list is empty.
LEMMA VictimFacts ==
  ASSUME NEW S, NEW s \in Seq(S)
  PROVE  /\ HasVictim(s) => Victim(s) \in S /\ Victim(s) \in Range(s)
         /\ ~HasVictim(s) => Range(s) = {}
  <1>1. DOMAIN s = 1..Len(s) /\ Len(s) \in Nat
    BY LenProperties, Zenon
  <1>2. CASE s = << >>
    BY <1>2 DEF HasVictim, Range
  <1>3. CASE s # << >>
    <2>1. Len(s) \in 1..Len(s)
      BY <1>1, <1>3, EmptySeq
    <2> QED
      BY <1>1, <1>3, <2>1, ElementOfSeq, Zenon DEF HasVictim, Victim, Range
  <1> QED
    BY <1>2, <1>3, Zenon
-----------------------------------------------------------------------------
(***************************************************************************)
(* Type correctness.                                                       *)
(***************************************************************************)
LEMMA EnterType ==
  ASSUME call \in [Procs -> Call],
         NEW p \in Procs, NEW label \in Labels, NEW op \in Operations, NEW k \in Keys,
         NEW size \in Nat, NEW prev \in Nat, Enter(p, label, op, k, size, prev)
  PROVE  call' \in [Procs -> Call]
  BY Zenon DEF Enter, Call

LEMMA GotoType ==
  ASSUME call \in [Procs -> Call], NEW p \in Procs, NEW label \in Labels, Goto(p, label)
  PROVE  call' \in [Procs -> Call]
  BY Zenon DEF Goto, Call

LEMMA AtType ==
  ASSUME NEW label \in Labels
  PROVE  At(label) \in Call /\ At(label).at = label /\ At(label).op = "none"
  <1>1. (CHOOSE k \in Keys : TRUE) \in Keys
    BY StoreAssumption, Zenon
  <1> QED
    BY <1>1, Zenon DEF At, Call, Operations

LEMMA LeaveType ==
  ASSUME call \in [Procs -> Call], NEW p \in Procs, NEW label \in Labels, Leave(p, label)
  PROVE  call' \in [Procs -> Call]
  BY AtType, Zenon DEF Leave

LEMMA ReturnType ==
  ASSUME NEW p
  PROVE  Return(p) \in Labels /\ Return(p) \in {"check", "sweeping"}
  BY Zenon DEF Return, Labels

LEMMA InitTypeOK == Init => TypeOK
  <1> SUFFICES ASSUME Init PROVE TypeOK
    BY Zenon
  <1>1. m \in [Keys -> Entry]
    BY Zenon DEF Init, StoreInit, Entry, NoEntry
  <1>2. ll \in Seq(Keys) /\ IsInjective(ll)
    BY DEF Init, StoreInit, IsInjective
  <1>3. call \in [Procs -> Call]
    <2>1. \A p \in Procs : (IF p = Evictor THEN "select" ELSE "idle") \in Labels
      BY Zenon DEF Labels
    <2> QED
      BY <2>1, AtType, Zenon DEF Init, StoreInit
  <1>4. evictSig \in BOOLEAN /\ victims \in SUBSET Keys
    BY Zenon DEF Init, StoreInit
  <1>5. totalBytes \in Int /\ now \in Nat /\ ops \in Nat /\ cutoff \in Int /\ scan \in Nat
    BY DEF Init, StoreInit
  <1> QED
    BY <1>1, <1>2, <1>3, <1>4, <1>5, Zenon DEF TypeOK

LEMMA PublishType ==
  ASSUME TypeOK, NEW p \in Procs, NEW k \in Keys, NEW size \in Nat, NEW version \in Nat,
         Publish(p, k, size, version)
  PROVE  m' \in [Keys -> Entry] /\ call' \in [Procs -> Call]
  <1>1. m[k] \in Entry
    BY Zenon DEF TypeOK
  <1>2. m[k].size \in Nat /\ m[k].created \in Nat
    BY <1>1, Zenon DEF Entry
  <1>3. call' \in [Procs -> Call]
    <2>1. "policy" \in Labels /\ "put" \in Operations
      BY Zenon DEF Labels, Writing, Operations
    <2> QED
      BY <1>2, <2>1, EnterType, Zenon DEF Publish, TypeOK
  <1>4. m' \in [Keys -> Entry]
    BY <1>2, Zenon DEF Publish, TypeOK, Entry
  <1> QED
    BY <1>3, <1>4, Zenon

LEMMA UnpublishType ==
  ASSUME TypeOK, NEW p \in Procs, NEW op \in Operations, NEW k \in Keys, NEW label \in Labels,
         Unpublish(p, op, k, label)
  PROVE  m' \in [Keys -> Entry] /\ call' \in [Procs -> Call]
  <1>1. m[k].size \in Nat
    BY Zenon DEF TypeOK, Entry
  <1>2. call' \in [Procs -> Call]
    BY <1>1, EnterType, Zenon DEF Unpublish, TypeOK
  <1>3. m' \in [Keys -> Entry]
    BY Zenon DEF Unpublish, TypeOK, Entry, NoEntry
  <1> QED
    BY <1>2, <1>3, Zenon
LEMMA TellPolicyType ==
  ASSUME TypeOK, NEW p \in Procs, TellPolicy(p)
  PROVE  ll' \in Seq(Keys) /\ IsInjective(ll') /\ call' \in [Procs -> Call]
  <1>1. call[p].key \in Keys /\ ll \in Seq(Keys) /\ IsInjective(ll)
    BY Zenon DEF TypeOK, Call
  <1>2. ll' \in Seq(Keys) /\ IsInjective(ll')
    BY <1>1, RecordWriteFacts, RecordEvictFacts, Zenon DEF TellPolicy
  <1>3. Goto(p, "add") \/ Leave(p, Return(p))
    BY Zenon DEF TellPolicy
  <1>4. "add" \in Labels
    BY Zenon DEF Labels, Writing
  <1> QED
    BY <1>2, <1>3, <1>4, GotoType, LeaveType, ReturnType, Zenon DEF TypeOK

LEMMA AddBytesType ==
  ASSUME TypeOK, NEW p \in Procs, AddBytes(p)
  PROVE  totalBytes' \in Int /\ call' \in [Procs -> Call]
  <1>1. call[p].size \in Nat /\ call[p].prev \in Nat /\ totalBytes \in Int
    BY Zenon DEF TypeOK, Call
  <1>2. totalBytes' \in Int
    BY <1>1 DEF AddBytes
  <1>3. Goto(p, "signal") \/ Leave(p, "idle") \/ Goto(p, "policy")
    BY Zenon DEF AddBytes
  <1>4. "signal" \in Labels /\ "idle" \in Labels /\ "policy" \in Labels
    BY Zenon DEF Labels, Writing
  <1> QED
    BY <1>2, <1>3, <1>4, GotoType, LeaveType, Zenon DEF TypeOK

\* Every action keeps every variable in its type.
LEMMA StepTypeOK == TypeOK /\ [Next]_vars => TypeOK'
  <1> SUFFICES ASSUME TypeOK, [Next]_vars PROVE TypeOK'
    BY Zenon
  <1>0. \A p \in Procs : call[p] \in Call
    BY Zenon DEF TypeOK
  <1>00. Sizes \subseteq Nat /\ ReplicaVersions \subseteq Nat
    BY StoreAssumption, ShardAssumption
  <1>1. ASSUME NEW p \in Workers, NEW k \in Keys, NEW size \in Sizes, Write(p, k, size)
        PROVE  TypeOK'
    <2>1. "admitted" \in Labels /\ "put" \in Operations /\ p \in Procs
      BY Zenon DEF Labels, Operations, Procs
    <2>2. call' \in [Procs -> Call]
      BY <1>00, <1>1, <2>1, EnterType, Zenon DEF Write, TypeOK
    <2> QED
      BY <1>1, <2>2 DEF Write, CountOp, TypeOK, sweepVars
  <1>2. ASSUME NEW p \in Workers, NEW k \in Keys, NEW size \in Sizes,
               NEW version \in ReplicaVersions, Replicate(p, k, size, version)
        PROVE  TypeOK'
    <2>1. m' \in [Keys -> Entry] /\ call' \in [Procs -> Call]
      BY <1>00, <1>2, PublishType, Zenon DEF Replicate, PutWithVersion, Procs
    <2> QED
      BY <1>2, <2>1
      DEF Replicate, PutWithVersion, Publish, CountOp, TypeOK, sweepVars
  <1>3. ASSUME NEW p \in Workers, NEW k \in Keys, Evict(p, k)
        PROVE  TypeOK'
    <2>1. "policy" \in Labels /\ "delete" \in Operations /\ p \in Procs
      BY Zenon DEF Labels, Writing, Operations, Procs
    <2>2. m' \in [Keys -> Entry] /\ call' \in [Procs -> Call]
      BY <1>3, <2>1, UnpublishType, Zenon DEF Evict, Delete
    <2> QED
      BY <1>3, <2>2 DEF Evict, Delete, Unpublish, CountOp, TypeOK, sweepVars
  <1>4. ASSUME NEW p \in Workers, NEW k \in Keys, Fetch(p, k)
        PROVE  TypeOK'
    <2>1. "read" \in Labels /\ "get" \in Operations /\ p \in Procs
      BY Zenon DEF Labels, Operations, Procs
    <2>2. call' \in [Procs -> Call]
      BY <1>4, <2>1, EnterType, Zenon DEF Fetch, Get, TypeOK
    <2>3. m' \in [Keys -> Entry]
      BY <1>4, Zenon DEF Fetch, Get, TypeOK, Entry
    <2> QED
      BY <1>4, <2>2, <2>3, Zenon DEF Fetch, Get, TypeOK, sweepVars
  <1>5. ASSUME NEW p \in Workers, Continue(p)
        PROVE  TypeOK'
    <2>0. p \in Procs
      BY Zenon DEF Procs
    <2>1. CASE Put(p)
      <3>1. call[p].key \in Keys /\ call[p].size \in Nat
        BY <1>0, <2>0, Zenon DEF Call
      <3>2. m[call[p].key].version + 1 \in Nat
        BY <3>1 DEF TypeOK, Entry
      <3>3. m' \in [Keys -> Entry] /\ call' \in [Procs -> Call]
        BY <2>0, <2>1, <3>1, <3>2, PublishType, Zenon DEF Put
      <3> QED
        BY <1>5, <2>1, <3>3, Zenon DEF Continue, Put, Publish, TypeOK, sweepVars
    <2>2. CASE TellPolicy(p)
      <3>1. ll' \in Seq(Keys) /\ IsInjective(ll') /\ call' \in [Procs -> Call]
        BY <2>0, <2>2, TellPolicyType, Zenon
      <3> QED
        BY <1>5, <2>2, <3>1, Zenon DEF Continue, TellPolicy, TypeOK, sweepVars
    <2>3. CASE AddBytes(p)
      <3>1. totalBytes' \in Int /\ call' \in [Procs -> Call]
        BY <2>0, <2>3, AddBytesType, Zenon
      <3> QED
        BY <1>5, <2>3, <3>1, Zenon DEF Continue, AddBytes, TypeOK, sweepVars
    <2>4. CASE signalEvict(p)
      <3>1. "send" \in Labels /\ "idle" \in Labels
        BY Zenon DEF Labels, Writing
      <3>2. call' \in [Procs -> Call]
        BY <2>0, <2>4, <3>1, GotoType, LeaveType, Zenon DEF signalEvict, TypeOK
      <3> QED
        BY <1>5, <2>4, <3>2, Zenon DEF Continue, signalEvict, TypeOK, sweepVars
    <2>5. CASE SendSignal(p)
      <3>1. "idle" \in Labels
        BY Zenon DEF Labels
      <3>2. call' \in [Procs -> Call]
        BY <2>0, <2>5, <3>1, LeaveType, Zenon DEF SendSignal, TypeOK
      <3>3. evictSig' \in BOOLEAN
        BY <2>5, Zenon DEF SendSignal
      <3> QED
        BY <1>5, <2>5, <3>2, <3>3, Zenon DEF Continue, SendSignal, TypeOK, sweepVars
    <2>6. CASE RecordRead(p)
      <3>1. "idle" \in Labels /\ call[p].key \in Keys
        BY <1>0, <2>0, Zenon DEF Labels, Call
      <3>2. call' \in [Procs -> Call]
        BY <2>0, <2>6, <3>1, LeaveType, Zenon DEF RecordRead, TypeOK
      <3>3. ll' \in Seq(Keys) /\ IsInjective(ll')
        BY <2>6, <3>1, RecordAccessFacts, Zenon DEF RecordRead, TypeOK
      <3> QED
        BY <1>5, <2>6, <3>2, <3>3, Zenon DEF Continue, RecordRead, TypeOK, sweepVars
    <2> QED
      BY <1>5, <2>1, <2>2, <2>3, <2>4, <2>5, <2>6, Zenon DEF Continue
  <1>6. CASE EvictorNext
    <2>0. /\ Evictor \in Procs
          /\ {"select", "check", "victim", "evict", "collect", "sweeping", "add"} \subseteq Labels
          /\ {"drain", "sweep"} \subseteq Operations
      BY Zenon DEF Procs, Labels, Writing, Operations
    <2>1. CASE ReceiveSignal
      <3>1. call' \in [Procs -> Call]
        BY <2>0, <2>1, LeaveType, Zenon DEF ReceiveSignal, TypeOK
      <3>2. evictSig' \in BOOLEAN
        BY <2>1, Zenon DEF ReceiveSignal
      <3> QED
        BY <2>1, <3>1, <3>2, Zenon DEF ReceiveSignal, TypeOK, sweepVars
    <2>2. CASE CheckPressure
      <3>1. call' \in [Procs -> Call]
        BY <2>0, <2>2, LeaveType, Zenon DEF CheckPressure, TypeOK
      <3> QED
        BY <2>2, <3>1, Zenon DEF CheckPressure, TypeOK, sweepVars
    <2>3. CASE PickVictim
      <3>1. HasVictim(ll) => Victim(ll) \in Keys
        BY VictimFacts, Zenon DEF TypeOK
      <3>2. call' \in [Procs -> Call]
        BY <2>0, <2>3, <3>1, EnterType, LeaveType, Zenon DEF PickVictim, TypeOK
      <3> QED
        BY <2>3, <3>2, Zenon DEF PickVictim, TypeOK, sweepVars
    <2>4. CASE StartSweep
      <3>1. CASE TTL > 0
        <4>1. call' \in [Procs -> Call]
          BY <2>0, <2>4, <3>1, LeaveType, Zenon DEF StartSweep, TypeOK
        <4>2. cutoff' \in Int /\ scan' \in Nat /\ victims' \in SUBSET Keys
          BY <2>4, <3>1, ShardAssumption DEF StartSweep, TypeOK
        <4> QED
          BY <2>4, <4>1, <4>2, Zenon DEF StartSweep, TypeOK
      <3>2. CASE ~(TTL > 0)
        BY <2>4, <3>2, Zenon DEF StartSweep, TypeOK, sweepVars
      <3> QED
        BY <3>1, <3>2, Zenon
    <2>5. CASE CollectStripe
      <3>1. call' \in [Procs -> Call]
        BY <2>0, <2>5, LeaveType, Zenon DEF CollectStripe, TypeOK
      <3>2. scan' \in Nat /\ victims' \in SUBSET Keys
        BY <2>5 DEF CollectStripe, TypeOK
      <3> QED
        BY <2>5, <3>1, <3>2, Zenon DEF CollectStripe, TypeOK
    <2>6. CASE SweepNext
      <3>1. call' \in [Procs -> Call] /\ victims' \in SUBSET Keys
        <4>1. CASE victims = {}
          BY <2>0, <2>6, <4>1, LeaveType, Zenon DEF SweepNext, TypeOK
        <4>2. CASE victims # {}
          <5>1. PICK k \in victims : /\ Enter(Evictor, "evict", "sweep", k, 0, 0)
                                     /\ victims' = victims \ {k}
            BY <2>6, <4>2, Zenon DEF SweepNext
          <5>2. k \in Keys
            BY Zenon DEF TypeOK
          <5>3. call' \in [Procs -> Call]
            BY <2>0, <5>1, <5>2, EnterType, Zenon DEF TypeOK
          <5> QED
            BY <5>1, <5>3, Zenon DEF TypeOK
        <4> QED
          BY <4>1, <4>2, Zenon
      <3> QED
        BY <2>6, <3>1, Zenon DEF SweepNext, TypeOK
    <2>7. CASE EvictStep
      <3>1. CASE evict(Evictor)
        <4>1. call[Evictor].key \in Keys /\ call[Evictor].op \in Operations
          BY <1>0, <2>0, Zenon DEF Call
        <4>2. CASE Resident(call[Evictor].key)
          <5>1. m' \in [Keys -> Entry] /\ call' \in [Procs -> Call]
            BY <2>0, <3>1, <4>1, <4>2, UnpublishType, Zenon DEF evict
          <5> QED
            BY <2>7, <3>1, <4>2, <5>1, Zenon DEF EvictStep, evict, Unpublish, TypeOK, sweepVars
        <4>3. CASE ~Resident(call[Evictor].key)
          <5>1. call' \in [Procs -> Call]
            BY <2>0, <3>1, <4>3, LeaveType, ReturnType, Zenon DEF evict, TypeOK
          <5> QED
            BY <2>7, <3>1, <4>3, <5>1, Zenon DEF EvictStep, evict, TypeOK, sweepVars
        <4> QED
          BY <4>2, <4>3, Zenon
      <3>2. CASE AddBytes(Evictor)
        <4>1. totalBytes' \in Int /\ call' \in [Procs -> Call]
          BY <2>0, <3>2, AddBytesType, Zenon
        <4> QED
          BY <2>7, <3>2, <4>1, Zenon DEF EvictStep, AddBytes, TypeOK, sweepVars
      <3>3. CASE TellPolicy(Evictor)
        <4>1. ll' \in Seq(Keys) /\ IsInjective(ll') /\ call' \in [Procs -> Call]
          BY <2>0, <3>3, TellPolicyType, Zenon
        <4> QED
          BY <2>7, <3>3, <4>1, Zenon DEF EvictStep, TellPolicy, TypeOK, sweepVars
      <3> QED
        BY <2>7, <3>1, <3>2, <3>3, Zenon DEF EvictStep
    <2> QED
      BY <1>6, <2>1, <2>2, <2>3, <2>4, <2>5, <2>6, <2>7, Zenon DEF EvictorNext
  <1>7. CASE Tick
    BY <1>7 DEF Tick, TypeOK, sweepVars
  <1>8. CASE UNCHANGED vars
    BY <1>8, Zenon DEF vars, TypeOK
  <1> QED
    BY <1>1, <1>2, <1>3, <1>4, <1>5, <1>6, <1>7, <1>8, Zenon DEF Next

\* Type correctness of a shard: in particular the recency list of lru.go never holds
\* a key twice, so a removal leaves no second node behind.
THEOREM TypeCorrect == Spec => []TypeOK
  <1> QED
    BY InitTypeOK, StepTypeOK, PTL DEF Spec
-----------------------------------------------------------------------------
(***************************************************************************)
(* The steps of Next, by what they do to the shared state: what the proofs *)
(* of the invariants use in place of the actions.                          *)
(***************************************************************************)
Locks == Writing \cup {"read"}

Others(p) == \A q \in Procs : q # p => call'[q] = call[q]

SameCall(p) ==
  /\ call'[p].op = call[p].op /\ call'[p].key = call[p].key
  /\ call'[p].size = call[p].size /\ call'[p].prev = call[p].prev

\* Put or PutWithVersion takes the lock and publishes.
PublishStep(p, k) ==
  /\ p \in Workers /\ CanLock(StripeOf[k])
  /\ \/ call[p].at = "admitted" /\ call'[p].size = call[p].size
        /\ m'[k].version = m[k].version + 1
     \/ call[p].at = "idle" /\ m'[k].version \in ReplicaVersions
  /\ Others(p)
  /\ call'[p].at = "policy" /\ call'[p].op = "put" /\ call'[p].key = k
  /\ call'[p].prev = m[k].size /\ call'[p].size = m'[k].size
  /\ m'[k].version > m[k].version
  /\ \A j \in Keys : j # k => m'[j] = m[j]
  /\ UNCHANGED <<ll, totalBytes, evictSig>>

\* Delete or evict takes the lock and removes.
UnpublishStep(p, k) ==
  /\ \/ p \in Workers /\ call[p].at = "idle" /\ call'[p].at = "policy" /\ call'[p].op = "delete"
     \/ p = Evictor /\ call[p].at = "evict" /\ call'[p].at = "add" /\ call'[p].op = call[p].op
  /\ CanLock(StripeOf[k])
  /\ Others(p)
  /\ call'[p].key = k /\ call'[p].size = 0 /\ call'[p].prev = m[k].size
  /\ m'[k].version = 0 /\ m'[k].size = 0
  /\ \A j \in Keys : j # k => m'[j] = m[j]
  /\ UNCHANGED <<ll, totalBytes, evictSig>>

TellStep(p) ==
  /\ p \in Procs /\ call[p].at = "policy"
  /\ Others(p)
  /\ Range(ll') = IF call[p].op = "put" THEN Range(ll) \cup {call[p].key}
                                        ELSE Range(ll) \ {call[p].key}
  /\ IF call[p].op \in {"put", "delete"}
       THEN call'[p].at = "add" /\ SameCall(p)
       ELSE /\ call'[p].at = IF call[p].op = "drain" THEN "check" ELSE "sweeping"
            /\ call'[p].op = "none"
  /\ UNCHANGED <<m, totalBytes, evictSig>>

AddStep(p) ==
  /\ p \in Procs /\ call[p].at = "add"
  /\ Others(p)
  /\ totalBytes' = totalBytes + call[p].size - call[p].prev
  /\ \/ call[p].op = "put" /\ call'[p].at = "signal" /\ SameCall(p)
     \/ call[p].op = "delete" /\ call'[p].at = "idle" /\ call'[p].op = "none"
     \/ call[p].op \notin {"put", "delete"} /\ call'[p].at = "policy" /\ SameCall(p)
  /\ UNCHANGED <<m, ll, evictSig>>

\* signalEvict's read of the total, and its send.
SignalStep(p) ==
  /\ p \in Workers
  /\ Others(p)
  /\ \/ call[p].at = "signal" /\ Pressured /\ call'[p].at = "send" /\ SameCall(p)
        /\ evictSig' = evictSig
     \/ call[p].at = "signal" /\ ~Pressured /\ call'[p].at = "idle" /\ call'[p].op = "none"
        /\ evictSig' = evictSig
     \/ call[p].at = "send" /\ call'[p].at = "idle" /\ call'[p].op = "none" /\ evictSig'
  /\ UNCHANGED <<m, ll, totalBytes>>

\* Get, before and after it tells the policy.
ReadStep(p) ==
  /\ p \in Workers
  /\ Others(p)
  /\ \/ /\ call[p].at = "idle" /\ call'[p].at = "read" /\ call'[p].op = "get"
        /\ CanRLock(StripeOf[call'[p].key])
     \/ call[p].at = "read" /\ call'[p].at = "idle" /\ call'[p].op = "none"
  /\ Range(ll') = Range(ll)
  /\ \A k \in Keys : m'[k].version = m[k].version /\ m'[k].size = m[k].size
  /\ UNCHANGED <<totalBytes, evictSig>>

\* A handler passes the admission check.
AdmitStep(p) ==
  /\ p \in Workers /\ call[p].at = "idle" /\ call'[p].at = "admitted" /\ call'[p].op = "put"
  /\ call'[p].size \in Sizes /\ ~OverHardLimit(call'[p].size)
  /\ Others(p)
  /\ UNCHANGED <<m, ll, totalBytes, evictSig>>

\* A step of the evictor's loops that touches neither map nor policy.
LoopStep ==
  LET from == call[Evictor].at
      to == call'[Evictor].at
      op == call'[Evictor].op
      Stays == op = "none" /\ evictSig' = evictSig
  IN /\ Others(Evictor)
     /\ \/ from = "select" /\ to = "check" /\ op = "none"
        \/ from = "check" /\ to = "victim" /\ Stays
        \/ from = "check" /\ to = "select" /\ Stays /\ ~needsEviction
        \/ from = "victim" /\ to = "evict" /\ op = "drain" /\ evictSig' = evictSig
        \/ from = "victim" /\ to = "select" /\ Stays /\ Range(ll) = {}
        \/ from = "select" /\ to = "collect" /\ Stays
        \/ from = "collect" /\ to \in {"collect", "sweeping"} /\ Stays
        \/ from = "sweeping" /\ to = "select" /\ Stays
        \/ from = "sweeping" /\ to = "evict" /\ op = "sweep" /\ evictSig' = evictSig
        \/ from = "evict" /\ call[Evictor].op = "drain" /\ to = "check" /\ Stays
        \/ from = "evict" /\ call[Evictor].op # "drain" /\ to = "sweeping" /\ Stays
     /\ UNCHANGED <<m, ll, totalBytes>>

NoStep == UNCHANGED <<m, ll, totalBytes, evictSig, call>>

SomeStep ==
  \/ \E p \in Procs, k \in Keys : PublishStep(p, k) \/ UnpublishStep(p, k)
  \/ \E p \in Procs : TellStep(p) \/ AddStep(p) \/ SignalStep(p) \/ ReadStep(p) \/ AdmitStep(p)
  \/ LoopStep
  \/ NoStep

LEMMA EnterFacts ==
  ASSUME call \in [Procs -> Call], NEW p \in Procs,
         NEW label, NEW op, NEW k, NEW size, NEW prev, Enter(p, label, op, k, size, prev)
  PROVE  /\ Others(p)
         /\ call'[p].at = label /\ call'[p].op = op /\ call'[p].key = k
         /\ call'[p].size = size /\ call'[p].prev = prev
  BY Zenon DEF Enter, Others

LEMMA GotoFacts ==
  ASSUME call \in [Procs -> Call], NEW p \in Procs, NEW label, Goto(p, label)
  PROVE  Others(p) /\ call'[p].at = label /\ SameCall(p)
  BY Zenon DEF Goto, Others, SameCall, Call

LEMMA LeaveFacts ==
  ASSUME call \in [Procs -> Call], NEW p \in Procs, NEW label, Leave(p, label)
  PROVE  Others(p) /\ call'[p].at = label /\ call'[p].op = "none"
  BY Zenon DEF Leave, Others, At

LEMMA PublishIsStep ==
  ASSUME TypeOK, NEW p \in Workers, NEW k \in Keys, NEW size \in Nat, NEW version \in Nat,
         \/ call[p].at = "admitted" /\ size = call[p].size /\ version = m[k].version + 1
         \/ call[p].at = "idle" /\ version \in ReplicaVersions,
         CanLock(StripeOf[k]), version > m[k].version,
         Publish(p, k, size, version)
  PROVE  PublishStep(p, k)
  <1>1. p \in Procs /\ call \in [Procs -> Call]
    BY Zenon DEF Procs, TypeOK
  <1>2. /\ Others(p)
        /\ call'[p].at = "policy" /\ call'[p].op = "put" /\ call'[p].key = k
        /\ call'[p].size = size /\ call'[p].prev = m[k].size
    BY <1>1, EnterFacts DEF Publish
  <1>3. /\ m'[k].version = version /\ m'[k].size = size
        /\ \A j \in Keys : j # k => m'[j] = m[j]
    BY Zenon DEF Publish, TypeOK
  <1> QED
    BY <1>2, <1>3, Zenon DEF PublishStep, Publish

LEMMA UnpublishFacts ==
  ASSUME TypeOK, NEW p \in Procs, NEW op, NEW k \in Keys, NEW label,
         Unpublish(p, op, k, label)
  PROVE  /\ Others(p)
         /\ call'[p].at = label /\ call'[p].op = op /\ call'[p].key = k
         /\ call'[p].size = 0 /\ call'[p].prev = m[k].size
         /\ m'[k].version = 0 /\ m'[k].size = 0
         /\ \A j \in Keys : j # k => m'[j] = m[j]
         /\ UNCHANGED <<ll, totalBytes, evictSig>>
  <1>1. call \in [Procs -> Call]
    BY Zenon DEF TypeOK
  <1>2. /\ Others(p)
        /\ call'[p].at = label /\ call'[p].op = op /\ call'[p].key = k
        /\ call'[p].size = 0 /\ call'[p].prev = m[k].size
    BY <1>1, EnterFacts DEF Unpublish
  <1>3. /\ m'[k].version = 0 /\ m'[k].size = 0
        /\ \A j \in Keys : j # k => m'[j] = m[j]
    BY Zenon DEF Unpublish, TypeOK, NoEntry
  <1> QED
    BY <1>2, <1>3, Zenon DEF Unpublish

LEMMA TellIsStep ==
  ASSUME TypeOK, NEW p \in Procs, TellPolicy(p)
  PROVE  TellStep(p)
  <1>1. call \in [Procs -> Call] /\ call[p].key \in Keys /\ ll \in Seq(Keys) /\ IsInjective(ll)
    BY Zenon DEF TypeOK, Call
  <1>2. Range(ll') = IF call[p].op = "put" THEN Range(ll) \cup {call[p].key}
                                           ELSE Range(ll) \ {call[p].key}
    <2>1. CASE call[p].op = "put"
      BY <1>1, <2>1, RecordWriteFacts DEF TellPolicy
    <2>2. CASE call[p].op # "put"
      BY <1>1, <2>2, RecordEvictFacts DEF TellPolicy
    <2> QED
      BY <2>1, <2>2, Zenon
  <1>3. CASE call[p].op \in {"put", "delete"}
    <2>1. Goto(p, "add")
      BY <1>3, Zenon DEF TellPolicy
    <2>2. Others(p) /\ call'[p].at = "add" /\ SameCall(p)
      BY <1>1, <2>1, GotoFacts, Zenon
    <2> QED
      BY <1>2, <1>3, <2>2, Zenon DEF TellPolicy, TellStep
  <1>4. CASE call[p].op \notin {"put", "delete"}
    <2>1. Leave(p, Return(p))
      BY <1>4, Zenon DEF TellPolicy
    <2>2. Others(p) /\ call'[p].at = Return(p) /\ call'[p].op = "none"
      BY <1>1, <2>1, LeaveFacts, Zenon
    <2> QED
      BY <1>2, <1>4, <2>2, Zenon DEF TellPolicy, TellStep, Return
  <1> QED
    BY <1>3, <1>4, Zenon

LEMMA AddIsStep ==
  ASSUME TypeOK, NEW p \in Procs, AddBytes(p)
  PROVE  AddStep(p)
  <1>1. call \in [Procs -> Call]
    BY Zenon DEF TypeOK
  <1>2. CASE call[p].op = "put"
    <2>1. Goto(p, "signal")
      BY <1>2, Zenon DEF AddBytes
    <2> QED
      BY <1>1, <1>2, <2>1, GotoFacts, Zenon DEF AddBytes, AddStep
  <1>3. CASE call[p].op = "delete"
    <2>1. Leave(p, "idle")
      BY <1>3, Zenon DEF AddBytes
    <2> QED
      BY <1>1, <1>3, <2>1, LeaveFacts, Zenon DEF AddBytes, AddStep
  <1>4. CASE call[p].op \notin {"put", "delete"}
    <2>1. Goto(p, "policy")
      BY <1>4, Zenon DEF AddBytes
    <2> QED
      BY <1>1, <1>4, <2>1, GotoFacts, Zenon DEF AddBytes, AddStep
  <1> QED
    BY <1>2, <1>3, <1>4, Zenon

\* Every step of the specification is one of these.
LEMMA StepKinds == TypeOK /\ LabelsOK /\ [Next]_vars => SomeStep
  <1> SUFFICES ASSUME TypeOK, LabelsOK, [Next]_vars PROVE SomeStep
    BY Zenon
  <1>0. /\ call \in [Procs -> Call] /\ Evictor \in Procs /\ Workers \subseteq Procs
        /\ Sizes \subseteq Nat /\ ReplicaVersions \subseteq Nat
    BY StoreAssumption, ShardAssumption DEF TypeOK, Procs
  <1>1. ASSUME NEW p \in Workers, NEW k \in Keys, NEW size \in Sizes, Write(p, k, size)
        PROVE  SomeStep
    <2>1. AdmitStep(p)
      BY <1>0, <1>1, EnterFacts, Zenon DEF Write, AdmitStep
    <2> QED
      BY <1>0, <2>1, Zenon DEF SomeStep
  <1>2. ASSUME NEW p \in Workers, NEW k \in Keys, NEW size \in Sizes,
               NEW version \in ReplicaVersions, Replicate(p, k, size, version)
        PROVE  SomeStep
    <2>1. m[k].version \in Nat
      BY Zenon DEF TypeOK, Entry
    <2>2. PublishStep(p, k)
      BY <1>0, <1>2, <2>1, PublishIsStep, Zenon DEF Replicate, PutWithVersion
    <2> QED
      BY <1>0, <2>2, Zenon DEF SomeStep
  <1>3. ASSUME NEW p \in Workers, NEW k \in Keys, Evict(p, k)
        PROVE  SomeStep
    <2>1. /\ call[p].at = "idle" /\ CanLock(StripeOf[k])
          /\ Unpublish(p, "delete", k, "policy")
      BY <1>3, Zenon DEF Evict, Delete
    <2>2. /\ Others(p)
          /\ call'[p].at = "policy" /\ call'[p].op = "delete" /\ call'[p].key = k
          /\ call'[p].size = 0 /\ call'[p].prev = m[k].size
          /\ m'[k].version = 0 /\ m'[k].size = 0
          /\ \A j \in Keys : j # k => m'[j] = m[j]
          /\ UNCHANGED <<ll, totalBytes, evictSig>>
      BY <1>0, <2>1, UnpublishFacts, Zenon
    <2>3. UnpublishStep(p, k)
      BY <2>1, <2>2, Zenon DEF UnpublishStep
    <2> QED
      BY <1>0, <2>3, Zenon DEF SomeStep
  <1>4. ASSUME NEW p \in Workers, NEW k \in Keys, Fetch(p, k)
        PROVE  SomeStep
    <2>1. \A j \in Keys : m'[j].version = m[j].version /\ m'[j].size = m[j].size
      BY <1>4, Zenon DEF Fetch, Get, TypeOK, Entry
    <2>2. Others(p) /\ call'[p].at = "read" /\ call'[p].op = "get" /\ call'[p].key = k
      BY <1>0, <1>4, EnterFacts, Zenon DEF Fetch, Get
    <2>3. ReadStep(p)
      BY <1>4, <2>1, <2>2, Zenon DEF Fetch, Get, ReadStep
    <2> QED
      BY <1>0, <2>3, Zenon DEF SomeStep
  <1>5. ASSUME NEW p \in Workers, Continue(p)
        PROVE  SomeStep
    <2>1. CASE Put(p)
      <3>1. call[p].key \in Keys /\ call[p].size \in Nat
        BY <1>0, Zenon DEF Call
      <3>2. m[call[p].key].version \in Nat
        BY <3>1, Zenon DEF TypeOK, Entry
      <3>3. PublishStep(p, call[p].key)
        BY <2>1, <3>1, <3>2, PublishIsStep DEF Put
      <3> QED
        BY <1>0, <3>1, <3>3, Zenon DEF SomeStep
    <2>2. CASE TellPolicy(p)
      BY <1>0, <2>2, TellIsStep, Zenon DEF SomeStep
    <2>3. CASE AddBytes(p)
      BY <1>0, <2>3, AddIsStep, Zenon DEF SomeStep
    <2>4. CASE signalEvict(p)
      <3>1. SignalStep(p)
        BY <1>0, <2>4, GotoFacts, LeaveFacts, Zenon DEF signalEvict, SignalStep
      <3> QED
        BY <1>0, <3>1, Zenon DEF SomeStep
    <2>5. CASE SendSignal(p)
      <3>1. SignalStep(p)
        BY <1>0, <2>5, LeaveFacts, Zenon DEF SendSignal, SignalStep
      <3> QED
        BY <1>0, <3>1, Zenon DEF SomeStep
    <2>6. CASE RecordRead(p)
      <3>1. Range(ll') = Range(ll)
        BY <1>0, <2>6, RecordAccessFacts, Zenon DEF RecordRead, TypeOK, Call
      <3>2. ReadStep(p)
        BY <1>0, <2>6, <3>1, LeaveFacts, Zenon DEF RecordRead, ReadStep
      <3> QED
        BY <1>0, <3>2, Zenon DEF SomeStep
    <2> QED
      BY <1>5, <2>1, <2>2, <2>3, <2>4, <2>5, <2>6, Zenon DEF Continue
  <1>6. CASE EvictorNext
    <2>1. CASE ReceiveSignal
      <3>1. LoopStep
        BY <1>0, <2>1, LeaveFacts, Zenon DEF ReceiveSignal, LoopStep
      <3> QED
        BY <3>1, Zenon DEF SomeStep
    <2>2. CASE CheckPressure
      <3>1. LoopStep
        BY <1>0, <2>2, LeaveFacts, Zenon DEF CheckPressure, LoopStep
      <3> QED
        BY <3>1, Zenon DEF SomeStep
    <2>3. CASE PickVictim
      <3>1. CASE HasVictim(ll)
        <4>1. LoopStep
          BY <1>0, <2>3, <3>1, EnterFacts, Zenon DEF PickVictim, LoopStep
        <4> QED
          BY <4>1, Zenon DEF SomeStep
      <3>2. CASE ~HasVictim(ll)
        <4>1. Range(ll) = {}
          BY <3>2, VictimFacts, Zenon DEF TypeOK
        <4>2. LoopStep
          BY <1>0, <2>3, <3>2, <4>1, LeaveFacts, Zenon DEF PickVictim, LoopStep
        <4> QED
          BY <4>2, Zenon DEF SomeStep
      <3> QED
        BY <3>1, <3>2, Zenon
    <2>4. CASE StartSweep
      <3>1. CASE TTL > 0
        <4>1. LoopStep
          BY <1>0, <2>4, <3>1, LeaveFacts, Zenon DEF StartSweep, LoopStep
        <4> QED
          BY <4>1, Zenon DEF SomeStep
      <3>2. CASE ~(TTL > 0)
        BY <2>4, <3>2, Zenon DEF StartSweep, SomeStep, NoStep
      <3> QED
        BY <3>1, <3>2, Zenon
    <2>5. CASE CollectStripe
      <3>1. LoopStep
        BY <1>0, <2>5, LeaveFacts, Zenon DEF CollectStripe, LoopStep
      <3> QED
        BY <3>1, Zenon DEF SomeStep
    <2>6. CASE SweepNext
      <3>1. CASE victims = {}
        <4>1. LoopStep
          BY <1>0, <2>6, <3>1, LeaveFacts, Zenon DEF SweepNext, LoopStep
        <4> QED
          BY <4>1, Zenon DEF SomeStep
      <3>2. CASE victims # {}
        <4>1. PICK k \in victims : Enter(Evictor, "evict", "sweep", k, 0, 0)
          BY <2>6, <3>2, Zenon DEF SweepNext
        <4>2. LoopStep
          BY <1>0, <2>6, <4>1, EnterFacts, Zenon DEF SweepNext, LoopStep
        <4> QED
          BY <4>2, Zenon DEF SomeStep
      <3> QED
        BY <3>1, <3>2, Zenon
    <2>7. CASE EvictStep
      <3>1. CASE evict(Evictor)
        <4>0. call[Evictor].key \in Keys
          BY <1>0, Zenon DEF Call
        <4>1. CASE Resident(call[Evictor].key)
          <5>1. PICK k \in Keys, op \in Operations :
                   k = call[Evictor].key /\ op = call[Evictor].op
            BY <1>0, Zenon DEF Call
          <5>2. /\ call[Evictor].at = "evict" /\ CanLock(StripeOf[k])
                /\ Unpublish(Evictor, op, k, "add")
            BY <3>1, <4>1, <5>1, Zenon DEF evict
          <5>3. /\ Others(Evictor)
                /\ call'[Evictor].at = "add" /\ call'[Evictor].op = op
                /\ call'[Evictor].key = k
                /\ call'[Evictor].size = 0 /\ call'[Evictor].prev = m[k].size
                /\ m'[k].version = 0 /\ m'[k].size = 0
                /\ \A j \in Keys : j # k => m'[j] = m[j]
                /\ UNCHANGED <<ll, totalBytes, evictSig>>
            BY <1>0, <5>2, UnpublishFacts
          <5>4. UnpublishStep(Evictor, k)
            BY <5>1, <5>2, <5>3, Zenon DEF UnpublishStep
          <5> QED
            BY <1>0, <5>4, Zenon DEF SomeStep
        <4>2. CASE ~Resident(call[Evictor].key)
          <5>1. LoopStep
            BY <1>0, <3>1, <4>2, LeaveFacts, Zenon DEF evict, LoopStep, Return
          <5> QED
            BY <5>1, Zenon DEF SomeStep
        <4> QED
          BY <4>1, <4>2, Zenon
      <3>2. CASE AddBytes(Evictor)
        BY <1>0, <3>2, AddIsStep, Zenon DEF SomeStep
      <3>3. CASE TellPolicy(Evictor)
        BY <1>0, <3>3, TellIsStep, Zenon DEF SomeStep
      <3> QED
        BY <2>7, <3>1, <3>2, <3>3, Zenon DEF EvictStep
    <2> QED
      BY <1>6, <2>1, <2>2, <2>3, <2>4, <2>5, <2>6, <2>7, Zenon DEF EvictorNext
  <1>7. CASE Tick
    BY <1>7, Zenon DEF Tick, SomeStep, NoStep
  <1>8. CASE UNCHANGED vars
    BY <1>8, Zenon DEF vars, SomeStep, NoStep
  <1> QED
    BY <1>1, <1>2, <1>3, <1>4, <1>5, <1>6, <1>7, <1>8, Zenon DEF Next

-----------------------------------------------------------------------------
(***************************************************************************)
(* Each part of the inductive invariant is kept by every step.             *)
(***************************************************************************)

LEMMA ProcsFacts ==
  /\ Evictor \in Procs /\ Evictor \notin Workers /\ Workers \subseteq Procs
  /\ \A p \in Procs : p \in Workers \/ p = Evictor
  BY StoreAssumption, Zenon DEF Procs

-----------------------------------------------------------------------------
(***************************************************************************)
(* Initially nothing is stored and nobody is in a call.                    *)
(***************************************************************************)
LEMMA InitCalls ==
  ASSUME Init
  PROVE  /\ \A p \in Procs : call[p].at \notin Writing
         /\ \A p \in Workers : call[p].at = "idle"
         /\ call[Evictor].at = "select" /\ call[Evictor].op = "none"
  <1>1. \A p \in Procs : call[p].at = IF p = Evictor THEN "select" ELSE "idle"
    BY Zenon DEF Init, StoreInit, At
  <1>2. call[Evictor].op = "none"
    BY ProcsFacts, Zenon DEF Init, StoreInit, At
  <1> QED
    BY <1>1, <1>2, ProcsFacts, Zenon DEF Writing

LEMMA InitCallsOK == Init => LabelsOK /\ Exclusive /\ MapOK /\ PolicyOK /\ PolicyTracksStore
  <1> SUFFICES ASSUME Init
               PROVE  LabelsOK /\ Exclusive /\ MapOK /\ PolicyOK /\ PolicyTracksStore
    BY Zenon
  <1>1. LabelsOK
    BY InitCalls, Zenon DEF LabelsOK
  <1>2. Exclusive
    BY InitCalls, Zenon DEF Exclusive
  <1>3. \A k \in Keys : ~Resident(k) /\ m[k].size = 0
    BY Zenon DEF Init, StoreInit, Resident, NoEntry
  <1>4. MapOK
    BY <1>3, InitCalls, Zenon DEF MapOK
  <1>5. PolicyOK
    BY InitCalls, Zenon DEF PolicyOK
  <1>6. Range(ll) = {}
    BY DEF Init, StoreInit, Range
  <1>7. PolicyTracksStore
    BY <1>3, <1>6, Zenon DEF PolicyTracksStore
  <1> QED
    BY <1>1, <1>2, <1>4, <1>5, <1>7, Zenon
-----------------------------------------------------------------------------
(***************************************************************************)
(* Labels and locks.                                                       *)
(***************************************************************************)
LEMMA StepLabels == LabelsOK /\ SomeStep => LabelsOK'
  <1> SUFFICES ASSUME LabelsOK, SomeStep PROVE LabelsOK'
    BY Zenon
  <1> USE ProcsFacts DEF Puts, Writing
  <1>1. ASSUME NEW p \in Procs, NEW k \in Keys, PublishStep(p, k) PROVE LabelsOK'
    BY <1>1, Zenon DEF LabelsOK, PublishStep, Others
  <1>2. ASSUME NEW p \in Procs, NEW k \in Keys, UnpublishStep(p, k) PROVE LabelsOK'
    BY <1>2, Zenon DEF LabelsOK, UnpublishStep, Others
  <1>3. ASSUME NEW p \in Procs, TellStep(p) PROVE LabelsOK'
    BY <1>3, Zenon DEF LabelsOK, TellStep, Others, SameCall
  <1>4. ASSUME NEW p \in Procs, AddStep(p) PROVE LabelsOK'
    BY <1>4, Zenon DEF LabelsOK, AddStep, Others, SameCall
  <1>5. ASSUME NEW p \in Procs, SignalStep(p) PROVE LabelsOK'
    BY <1>5, Zenon DEF LabelsOK, SignalStep, Others, SameCall
  <1>6. ASSUME NEW p \in Procs, ReadStep(p) PROVE LabelsOK'
    BY <1>6, Zenon DEF LabelsOK, ReadStep, Others
  <1>7. ASSUME NEW p \in Procs, AdmitStep(p) PROVE LabelsOK'
    BY <1>7, Zenon DEF LabelsOK, AdmitStep, Others
  <1>8. CASE LoopStep
    BY <1>8, Zenon DEF LabelsOK, LoopStep, Others
  <1>9. CASE NoStep
    BY <1>9, Zenon DEF LabelsOK, NoStep
  <1> QED
    BY <1>1, <1>2, <1>3, <1>4, <1>5, <1>6, <1>7, <1>8, <1>9, Zenon DEF SomeStep

\* A process that is not given a lock it lacks cannot break exclusion.
LEMMA KeepsExclusive ==
  ASSUME Exclusive, NEW p \in Procs, Others(p),
         \/ call'[p].at \notin Locks
         \/ /\ call[p].at \in Writing /\ call'[p].at \in Writing
            /\ call'[p].key = call[p].key
  PROVE  Exclusive'
  <1> SUFFICES ASSUME NEW q \in Procs, NEW r \in Procs, q # r,
                      call'[q].at \in Writing, call'[r].at \in Locks
               PROVE  StripeOf[call'[q].key] # StripeOf[call'[r].key]
    BY Zenon DEF Exclusive, Locks
  <1> QED
    BY DEF Exclusive, Others, Locks

LEMMA StepExclusive == LabelsOK /\ Exclusive /\ SomeStep => Exclusive'
  <1> SUFFICES ASSUME LabelsOK, Exclusive, SomeStep PROVE Exclusive'
    BY Zenon
  <1>1. ASSUME NEW p \in Procs, NEW k \in Keys, PublishStep(p, k) PROVE Exclusive'
    BY <1>1 DEF Exclusive, PublishStep, Others, CanLock
  <1>2. ASSUME NEW p \in Procs, NEW k \in Keys, UnpublishStep(p, k) PROVE Exclusive'
    BY <1>2 DEF Exclusive, UnpublishStep, Others, CanLock
  <1>3. ASSUME NEW p \in Procs, TellStep(p) PROVE Exclusive'
    BY <1>3, KeepsExclusive, Zenon DEF TellStep, SameCall, Locks, Writing
  <1>4. ASSUME NEW p \in Procs, AddStep(p) PROVE Exclusive'
    BY <1>4, KeepsExclusive, Zenon DEF AddStep, SameCall, Locks, Writing
  <1>5. ASSUME NEW p \in Procs, SignalStep(p) PROVE Exclusive'
    BY <1>5, KeepsExclusive, Zenon DEF SignalStep, SameCall, Locks, Writing
  <1>6. ASSUME NEW p \in Procs, ReadStep(p) PROVE Exclusive'
    <2>1. CASE call'[p].at = "idle"
      BY <1>6, <2>1, KeepsExclusive, Zenon DEF ReadStep, Locks, Writing
    <2>2. CASE call'[p].at = "read"
      BY <1>6, <2>2 DEF Exclusive, ReadStep, Others, CanRLock, Writing
    <2> QED
      BY <1>6, <2>1, <2>2, Zenon DEF ReadStep
  <1>7. ASSUME NEW p \in Procs, AdmitStep(p) PROVE Exclusive'
    BY <1>7, KeepsExclusive, Zenon DEF AdmitStep, Locks, Writing
  <1>8. CASE LoopStep
    BY <1>8, KeepsExclusive, ProcsFacts, Zenon DEF LoopStep, Locks, Writing
  <1>9. CASE NoStep
    BY <1>9, Zenon DEF Exclusive, NoStep
  <1> QED
    BY <1>1, <1>2, <1>3, <1>4, <1>5, <1>6, <1>7, <1>8, <1>9, Zenon DEF SomeStep

-----------------------------------------------------------------------------
(***************************************************************************)
(* The map and the recency list.                                           *)
(***************************************************************************)

\* Two calls that hold write locks are on different keys.
LEMMA DistinctKeys == TypeOK /\ Exclusive =>
    \A p, q \in Procs : p # q /\ call[p].at \in Writing /\ call[q].at \in Writing =>
                          call[p].key # call[q].key
  BY Zenon DEF TypeOK, Exclusive

\* A lock on k is granted only when no call is writing k.
LEMMA LockedOut ==
  ASSUME NEW k \in Keys, CanLock(StripeOf[k]), NEW q \in Procs, call[q].at \in Writing
  PROVE  call[q].key # k
  BY Zenon DEF CanLock

LEMMA StepMap == TypeOK /\ LabelsOK /\ MapOK /\ SomeStep /\ TypeOK' => MapOK'
  <1> SUFFICES ASSUME TypeOK, LabelsOK, MapOK, SomeStep, TypeOK' PROVE MapOK'
    BY Zenon
  <1> USE ProcsFacts
  <1>0. \A q \in Procs : call[q].key \in Keys /\ call[q].op \in Operations
    BY Zenon DEF TypeOK, Call
  <1>1. ASSUME NEW p \in Procs, NEW k \in Keys, PublishStep(p, k) PROVE MapOK'
    <2>1. m[k].version \in Nat /\ m'[k].version \in Nat
      BY Zenon DEF TypeOK, Entry
    <2>2. /\ m'[k].version > m[k].version /\ CanLock(StripeOf[k]) /\ Others(p)
          /\ call'[p].at = "policy" /\ call'[p].op = "put" /\ call'[p].key = k /\ call'[p].size = m'[k].size
          /\ \A j \in Keys : j # k => m'[j] = m[j]
      BY <1>1, Zenon DEF PublishStep
    <2>3. m'[k].version # 0
      BY <2>1, <2>2
    <2>4. \A q \in Procs : q # p /\ call[q].at \in Writing => call[q].key # k
      BY <2>2, LockedOut, Zenon
    <2> QED
      BY <1>0, <2>2, <2>3, <2>4 DEF MapOK, Others, Resident, Puts, Removes
  <1>2. ASSUME NEW p \in Procs, NEW k \in Keys, UnpublishStep(p, k) PROVE MapOK'
    <2>1. \A q \in Procs : q # p /\ call[q].at \in Writing => call[q].key # k
      BY <1>2, LockedOut, Zenon DEF UnpublishStep
    <2>2. ~Puts(p)'
      BY <1>2, Zenon DEF UnpublishStep, LabelsOK, Puts
    <2> QED
      BY <1>0, <1>2, <2>1, <2>2 DEF MapOK, UnpublishStep, Others, Resident, Puts, Removes
  <1>3. ASSUME NEW p \in Procs, TellStep(p) PROVE MapOK'
    BY <1>3 DEF MapOK, TellStep, Others, SameCall, Resident, Puts, Removes, Writing
  <1>4. ASSUME NEW p \in Procs, AddStep(p) PROVE MapOK'
    BY <1>4 DEF MapOK, AddStep, Others, SameCall, Resident, Puts, Removes, Writing
  <1>5. ASSUME NEW p \in Procs, SignalStep(p) PROVE MapOK'
    BY <1>5 DEF MapOK, SignalStep, Others, SameCall, Resident, Puts, Removes, Writing
  <1>6. ASSUME NEW p \in Procs, ReadStep(p) PROVE MapOK'
    BY <1>0, <1>6 DEF MapOK, ReadStep, Others, Resident, Puts, Removes, Writing
  <1>7. ASSUME NEW p \in Procs, AdmitStep(p) PROVE MapOK'
    BY <1>7, Zenon DEF MapOK, AdmitStep, Others, Resident, Puts, Removes, Writing
  <1>8. CASE LoopStep
    <2>1. call'[Evictor].at \notin Writing
      BY <1>8, Zenon DEF LoopStep, Writing
    <2> QED
      BY <1>8, <2>1, Zenon DEF MapOK, LoopStep, Others, Resident, Puts, Removes
  <1>9. CASE NoStep
    BY <1>9, Zenon DEF MapOK, NoStep, Resident, Puts, Removes
  <1> QED
    BY <1>1, <1>2, <1>3, <1>4, <1>5, <1>6, <1>7, <1>8, <1>9, Zenon DEF SomeStep

LEMMA StepPolicy ==
    TypeOK /\ LabelsOK /\ Exclusive /\ MapOK /\ PolicyOK /\ SomeStep => PolicyOK'
  <1> SUFFICES ASSUME TypeOK, LabelsOK, Exclusive, MapOK, PolicyOK, SomeStep PROVE PolicyOK'
    BY Zenon
  <1> USE ProcsFacts
  <1>1. ASSUME NEW p \in Procs, NEW k \in Keys, PublishStep(p, k) PROVE PolicyOK'
    BY <1>1, Zenon DEF PolicyOK, PublishStep, Others, Puts, Removes
  <1>2. ASSUME NEW p \in Procs, NEW k \in Keys, UnpublishStep(p, k) PROVE PolicyOK'
    BY <1>2, Zenon DEF PolicyOK, UnpublishStep, Others, Puts, Removes
  <1>3. ASSUME NEW p \in Procs, TellStep(p) PROVE PolicyOK'
    <2>1. \A q \in Workers : q # p /\ call[q].at \in Writing => call[q].key # call[p].key
      BY <1>3, DistinctKeys, Zenon DEF TellStep, Writing
    <2>2. \A q \in Workers : q # p /\ call[q].at \in Writing =>
             (call[q].key \in Range(ll') <=> call[q].key \in Range(ll))
      BY <1>3, <2>1, Zenon DEF TellStep
    <2>3. ASSUME NEW q \in Workers, q # p
          PROVE  /\ call'[q].at \in {"add", "signal", "send"} /\ Puts(q)' =>
                      call'[q].key \in Range(ll')
                 /\ call'[q].at = "add" /\ Removes(q)' => call'[q].key \notin Range(ll')
      BY <1>3, <2>2, <2>3, Zenon DEF PolicyOK, TellStep, Others, Puts, Removes, Writing
    <2>4. ASSUME p \in Workers
          PROVE  /\ call'[p].at \in {"add", "signal", "send"} /\ Puts(p)' =>
                      call'[p].key \in Range(ll')
                 /\ call'[p].at = "add" /\ Removes(p)' => call'[p].key \notin Range(ll')
      BY <1>3, <2>4, Zenon DEF LabelsOK, TellStep, SameCall, Puts, Removes
    <2> QED
      BY <2>3, <2>4, Zenon DEF PolicyOK
  <1>4. ASSUME NEW p \in Procs, AddStep(p) PROVE PolicyOK'
    BY <1>4, Zenon DEF PolicyOK, AddStep, Others, SameCall, Puts, Removes
  <1>5. ASSUME NEW p \in Procs, SignalStep(p) PROVE PolicyOK'
    BY <1>5, Zenon DEF PolicyOK, SignalStep, Others, SameCall, Puts, Removes
  <1>6. ASSUME NEW p \in Procs, ReadStep(p) PROVE PolicyOK'
    BY <1>6, Zenon DEF PolicyOK, ReadStep, Others, Puts, Removes
  <1>7. ASSUME NEW p \in Procs, AdmitStep(p) PROVE PolicyOK'
    BY <1>7, Zenon DEF PolicyOK, AdmitStep, Others, Puts, Removes
  <1>8. CASE LoopStep
    BY <1>8, Zenon DEF PolicyOK, LoopStep, Others, Puts, Removes
  <1>9. CASE NoStep
    BY <1>9, Zenon DEF PolicyOK, NoStep, Puts, Removes
  <1> QED
    BY <1>1, <1>2, <1>3, <1>4, <1>5, <1>6, <1>7, <1>8, <1>9, Zenon DEF SomeStep

LEMMA StepTracks ==
    TypeOK /\ LabelsOK /\ MapOK /\ PolicyOK /\ PolicyTracksStore /\ SomeStep
      => PolicyTracksStore'
  <1> SUFFICES ASSUME TypeOK, LabelsOK, MapOK, PolicyOK, PolicyTracksStore, SomeStep,
                      NEW j \in Keys, CallsOn(j)' = {}
               PROVE  j \in Range(ll') <=> Resident(j)'
    BY Zenon DEF PolicyTracksStore
  <1> USE ProcsFacts
  <1>0. \A q \in Procs : ~(call'[q].at \in Writing /\ call'[q].key = j)
    BY Zenon DEF CallsOn
  <1>00. CallsOn(j) = {} => (j \in Range(ll) <=> Resident(j))
    BY Zenon DEF PolicyTracksStore
  <1>1. ASSUME NEW p \in Procs, NEW k \in Keys, PublishStep(p, k) \/ UnpublishStep(p, k)
        PROVE  j \in Range(ll') <=> Resident(j)'
    <2>1. j # k
      BY <1>0, <1>1, Zenon DEF PublishStep, UnpublishStep, Writing
    <2>2. CallsOn(j) = {}
      BY <1>0, <1>1, Zenon DEF CallsOn, PublishStep, UnpublishStep, Others, Writing
    <2> QED
      BY <1>00, <1>1, <2>1, <2>2, Zenon DEF PublishStep, UnpublishStep, Resident
  <1>2. ASSUME NEW p \in Procs, call[p].at \in Writing, Others(p), UNCHANGED m,
               TellStep(p) \/ AddStep(p) \/ SignalStep(p)
        PROVE  j \in Range(ll') <=> Resident(j)'
    <2>1. CASE call[p].key # j
      <3>1. CallsOn(j) = {}
        BY <1>0, <1>2, <2>1, Zenon DEF CallsOn, Others
      <3>2. j \in Range(ll') <=> j \in Range(ll)
        BY <1>2, <2>1, Zenon DEF TellStep, AddStep, SignalStep
      <3> QED
        BY <1>00, <1>2, <3>1, <3>2, Zenon DEF Resident
    <2>2. CASE call[p].key = j
      <3>1. call'[p].at \notin Writing \/ call'[p].key # j
        BY <1>0, Zenon
      <3>2. CASE TellStep(p)
        <4>1. call[p].op \notin {"put", "delete"}
          BY <2>2, <3>1, <3>2, Zenon DEF TellStep, SameCall, Writing
        <4>2. Removes(p) /\ j \notin Range(ll')
          BY <2>2, <3>2, <4>1, Zenon DEF TellStep, LabelsOK, Removes
        <4> QED
          BY <1>2, <2>2, <4>2, Zenon DEF MapOK, Resident
      <3>3. CASE AddStep(p)
        <4>1. call[p].op = "delete" /\ p \in Workers
          BY <2>2, <3>1, <3>3, Zenon DEF AddStep, SameCall, Writing, LabelsOK
        <4>2. j \notin Range(ll)
          BY <2>2, <3>3, <4>1, Zenon DEF PolicyOK, AddStep, Removes
        <4>3. ~Resident(j)
          BY <1>2, <2>2, <4>1, Zenon DEF MapOK, Removes
        <4> QED
          BY <1>2, <3>3, <4>2, <4>3, Zenon DEF AddStep, Resident
      <3>4. CASE SignalStep(p)
        <4>1. Puts(p) /\ call[p].at \in {"signal", "send"} /\ p \in Workers
          BY <3>4, Zenon DEF SignalStep, LabelsOK
        <4>2. j \in Range(ll) /\ Resident(j)
          BY <1>2, <2>2, <4>1, Zenon DEF MapOK, PolicyOK
        <4> QED
          BY <1>2, <3>4, <4>2, Zenon DEF SignalStep, Resident
      <3> QED
        BY <1>2, <3>2, <3>3, <3>4, Zenon
    <2> QED
      BY <2>1, <2>2, Zenon
  <1>3. ASSUME NEW p \in Procs, ReadStep(p) \/ AdmitStep(p)
        PROVE  j \in Range(ll') <=> Resident(j)'
    <2>1. CallsOn(j) = {}
      BY <1>0, <1>3, Zenon DEF CallsOn, ReadStep, AdmitStep, Others, Writing
    <2> QED
      BY <1>00, <1>3, <2>1, Zenon DEF ReadStep, AdmitStep, Resident
  <1>4. CASE LoopStep
    <2>1. CallsOn(j) = {}
      BY <1>0, <1>4, Zenon DEF CallsOn, LoopStep, Others, Writing
    <2> QED
      BY <1>00, <1>4, <2>1, Zenon DEF LoopStep, Resident
  <1>5. CASE NoStep
    <2>1. CallsOn(j) = {}
      BY <1>0, <1>5, Zenon DEF CallsOn, NoStep
    <2> QED
      BY <1>00, <1>5, <2>1, Zenon DEF NoStep, Resident
  <1>6. \A p \in Procs : TellStep(p) \/ AddStep(p) \/ SignalStep(p) =>
          call[p].at \in Writing /\ Others(p) /\ UNCHANGED m
    BY Zenon DEF TellStep, AddStep, SignalStep, Writing
  <1> QED
    BY <1>1, <1>2, <1>3, <1>4, <1>5, <1>6, Zenon DEF SomeStep
-----------------------------------------------------------------------------
(***************************************************************************)
(* The byte counter.                                                       *)
(***************************************************************************)
Pending(p, k) == call[p].at \in Writing /\ call[p].key = k /\ NotYetAdded(p)

\* What Counted means when the write locks exclude each other.
CountedMeaning ==
  \A k \in Keys :
    /\ \A p \in Procs : Pending(p, k) => Counted(k) = call[p].prev
    /\ (\A p \in Procs : ~Pending(p, k)) => Counted(k) = m[k].size
    /\ Counted(k) \in Nat

LEMMA CountedIs == TypeOK /\ Exclusive => CountedMeaning
  <1> SUFFICES ASSUME TypeOK, Exclusive, NEW k \in Keys
               PROVE  /\ \A p \in Procs : Pending(p, k) => Counted(k) = call[p].prev
                      /\ (\A p \in Procs : ~Pending(p, k)) => Counted(k) = m[k].size
                      /\ Counted(k) \in Nat
    BY Zenon DEF CountedMeaning
  <1>1. m[k].size \in Nat /\ \A p \in Procs : call[p].prev \in Nat
    BY Zenon DEF TypeOK, Entry, Call
  <1>2. ASSUME NEW p \in Procs, Pending(p, k) PROVE Counted(k) = call[p].prev
    <2>1. p \in CallsOn(k) /\ NotYetAdded(p)
      BY <1>2, Zenon DEF Pending, CallsOn
    <2>2. \A q \in CallsOn(k) : q = p
      BY <1>2, DistinctKeys, Zenon DEF Pending, CallsOn
    <2>3. (CHOOSE q \in CallsOn(k) : NotYetAdded(q)) = p
      BY <2>1, <2>2, Zenon
    <2> QED
      BY <2>1, <2>3, Zenon DEF Counted
  <1>3. ASSUME \A p \in Procs : ~Pending(p, k) PROVE Counted(k) = m[k].size
    BY <1>3, Zenon DEF Pending, CallsOn, Counted
  <1> QED
    BY <1>1, <1>2, <1>3, Zenon

LEMMA CountedIsNext == TypeOK' /\ Exclusive' => CountedMeaning'
  BY CountedIs, PTL

LEMMA CountedSame ==
  ASSUME CountedMeaning, CountedMeaning', NEW j \in Keys, m'[j].size = m[j].size,
         \A q \in Procs : /\ Pending(q, j)' <=> Pending(q, j)
                          /\ Pending(q, j) => call'[q].prev = call[q].prev
  PROVE  Counted(j)' = Counted(j)
  <1>1. CASE \E q \in Procs : Pending(q, j)
    BY <1>1 DEF CountedMeaning
  <1>2. CASE \A q \in Procs : ~Pending(q, j)
    <2>1. Counted(j) = m[j].size
      BY <1>2, Zenon DEF CountedMeaning
    <2>2. Counted(j)' = m'[j].size
      BY <1>2, Zenon DEF CountedMeaning
    <2> QED
      BY <2>1, <2>2, Zenon
  <1> QED
    BY <1>1, <1>2, Zenon

\* A call that takes the lock of k and changes the map accounts for the old entry.
LEMMA CountedAtLock ==
  ASSUME CountedMeaning, CountedMeaning', NEW k \in Keys, CanLock(StripeOf[k]),
         NEW p \in Procs, Pending(p, k)', call'[p].prev = m[k].size
  PROVE  Counted(k)' = Counted(k)
  <1>1. \A q \in Procs : ~Pending(q, k)
    BY LockedOut, Zenon DEF Pending
  <1>2. Counted(k) = m[k].size
    BY <1>1, Zenon DEF CountedMeaning
  <1> QED
    BY <1>2, Zenon DEF CountedMeaning

KeepsCounted == totalBytes' = totalBytes /\ \A j \in Keys : Counted(j)' = Counted(j)
MovesCounted(p, k) ==
  /\ k = call[p].key /\ AddStep(p)
  /\ Counted(k) = call[p].prev /\ Counted(k)' = call[p].size
  /\ \A j \in Keys : j # k => Counted(j)' = Counted(j)

\* totalBytes.Add settles the account of its key.
LEMMA AddMovesCounted ==
  ASSUME TypeOK, TypeOK', LabelsOK, Exclusive, Exclusive', MapOK,
         NEW p \in Procs, NEW k \in Keys, k = call[p].key, AddStep(p)
  PROVE  MovesCounted(p, k)
  <1> USE ProcsFacts
  <1>0a. CountedMeaning /\ CountedMeaning'
    BY CountedIs, CountedIsNext, Zenon
  <1>0. UNCHANGED m /\ Others(p)
    BY Zenon DEF AddStep
  <1>1. Pending(p, k)
    BY Zenon DEF AddStep, Pending, NotYetAdded, Writing
  <1>2. \A q \in Procs : q # p => ~Pending(q, k)
    BY <1>1, DistinctKeys, Zenon DEF Pending
  <1>3. \A q \in Procs : q # p => \A j \in Keys : Pending(q, j)' <=> Pending(q, j)
    BY <1>0, Zenon DEF Others, Pending, NotYetAdded
  <1>4. \A j \in Keys : ~Pending(p, j)'
    BY Zenon DEF AddStep, SameCall, Pending, NotYetAdded, Writing
  <1>5. Counted(k) = call[p].prev
    BY <1>0a, <1>0, <1>1, Zenon DEF CountedMeaning
  <1>6. Counted(k)' = m[k].size
    BY <1>0a, <1>0, <1>2, <1>3, <1>4, Zenon DEF CountedMeaning
  <1>7. m[k].size = call[p].size
    <2>1. Puts(p) \/ Removes(p)
      BY Zenon DEF AddStep, LabelsOK, Puts, Removes
    <2> QED
      BY <1>1, <2>1, Zenon DEF MapOK, Pending
  <1>8. ASSUME NEW j \in Keys, j # k PROVE Counted(j)' = Counted(j)
    <2>1. ~Pending(p, j)
      BY <1>8, Zenon DEF Pending
    <2>2. \A q \in Procs : /\ Pending(q, j)' <=> Pending(q, j)
                           /\ Pending(q, j) => call'[q].prev = call[q].prev
      BY <1>0, <1>3, <1>4, <2>1, Zenon DEF Others
    <2> QED
      BY <1>0a, <1>0, <2>2, CountedSame, Zenon
  <1> QED
    BY <1>0, <1>5, <1>6, <1>7, <1>8, Zenon DEF MovesCounted

\* Only totalBytes.Add changes what the counter accounts for, by what it adds.
LEMMA StepCounted ==
  ASSUME TypeOK, TypeOK', LabelsOK, Exclusive, Exclusive', MapOK, SomeStep
  PROVE  KeepsCounted \/ \E p \in Procs, k \in Keys : MovesCounted(p, k)
  <1> USE ProcsFacts
  <1>0. CountedMeaning /\ CountedMeaning'
    BY CountedIs, CountedIsNext, Zenon
  <1>1. ASSUME NEW p \in Procs, NEW k \in Keys, PublishStep(p, k) \/ UnpublishStep(p, k)
        PROVE  KeepsCounted
    <2>1. Pending(p, k)' /\ call'[p].prev = m[k].size /\ CanLock(StripeOf[k])
      BY <1>1, Zenon DEF PublishStep, UnpublishStep, Pending, NotYetAdded, Writing
    <2>2. Counted(k)' = Counted(k)
      BY <1>0, <2>1, CountedAtLock, Zenon
    <2>3. ASSUME NEW j \in Keys, j # k PROVE Counted(j)' = Counted(j)
      <3>1. m'[j].size = m[j].size
        BY <1>1, <2>3, Zenon DEF PublishStep, UnpublishStep
      <3>2. ~Pending(p, j) /\ ~Pending(p, j)'
        BY <1>1, <2>3, Zenon DEF PublishStep, UnpublishStep, Pending, Writing
      <3>3. \A q \in Procs : /\ Pending(q, j)' <=> Pending(q, j)
                             /\ Pending(q, j) => call'[q].prev = call[q].prev
        BY <1>1, <3>2, Zenon DEF PublishStep, UnpublishStep, Others, Pending, NotYetAdded
      <3> QED
        BY <1>0, <3>1, <3>3, CountedSame, Zenon
    <2> QED
      BY <1>1, <2>2, <2>3, Zenon DEF PublishStep, UnpublishStep, KeepsCounted
  <1>2. ASSUME NEW p \in Procs, TellStep(p) \/ SignalStep(p) \/ ReadStep(p) \/ AdmitStep(p)
        PROVE  KeepsCounted
    <2>0. Others(p) /\ totalBytes' = totalBytes /\ \A j \in Keys : m'[j].size = m[j].size
      BY <1>2, Zenon DEF TellStep, SignalStep, ReadStep, AdmitStep
    <2> SUFFICES ASSUME NEW j \in Keys PROVE Counted(j)' = Counted(j)
      BY <2>0, Zenon DEF KeepsCounted
    <2>1. /\ Pending(p, j)' <=> Pending(p, j)
          /\ Pending(p, j) => call'[p].prev = call[p].prev
      <3>1. CASE TellStep(p)
        BY <3>1, Zenon DEF TellStep, SameCall, Pending, NotYetAdded, Writing
      <3>2. CASE SignalStep(p)
        BY <3>2, Zenon DEF SignalStep, SameCall, Pending, NotYetAdded, Writing
      <3>3. CASE ReadStep(p) \/ AdmitStep(p)
        BY <3>3, Zenon DEF ReadStep, AdmitStep, Pending, Writing
      <3> QED
        BY <1>2, <3>1, <3>2, <3>3, Zenon
    <2>2. \A q \in Procs : /\ Pending(q, j)' <=> Pending(q, j)
                           /\ Pending(q, j) => call'[q].prev = call[q].prev
      BY <2>0, <2>1, Zenon DEF Others, Pending, NotYetAdded
    <2> QED
      BY <1>0, <2>0, <2>2, CountedSame, Zenon
  <1>3. ASSUME NEW p \in Procs, NEW k \in Keys, k = call[p].key, AddStep(p)
        PROVE  MovesCounted(p, k)
    BY <1>3, AddMovesCounted, Zenon
  <1>4. CASE LoopStep
    <2> SUFFICES ASSUME NEW j \in Keys PROVE Counted(j)' = Counted(j)
      BY <1>4, Zenon DEF LoopStep, KeepsCounted
    <2>1. call[Evictor].at \notin Writing /\ call'[Evictor].at \notin Writing
      BY <1>4, Zenon DEF LoopStep, Writing
    <2>2. \A q \in Procs : /\ Pending(q, j)' <=> Pending(q, j)
                           /\ Pending(q, j) => call'[q].prev = call[q].prev
      BY <1>4, <2>1, Zenon DEF LoopStep, Others, Pending, NotYetAdded
    <2> QED
      BY <1>0, <1>4, <2>2, CountedSame, Zenon DEF LoopStep
  <1>5. CASE NoStep
    <2> SUFFICES ASSUME NEW j \in Keys PROVE Counted(j)' = Counted(j)
      BY <1>5, Zenon DEF NoStep, KeepsCounted
    <2>1. \A q \in Procs : /\ Pending(q, j)' <=> Pending(q, j)
                           /\ Pending(q, j) => call'[q].prev = call[q].prev
      BY <1>5, Zenon DEF NoStep, Pending, NotYetAdded
    <2> QED
      BY <1>0, <1>5, <2>1, CountedSame, Zenon DEF NoStep
  <1>6. \A p \in Procs : call[p].key \in Keys
    BY Zenon DEF TypeOK, Call
  <1> QED
    BY <1>1, <1>2, <1>3, <1>4, <1>5, <1>6, Zenon DEF SomeStep

-----------------------------------------------------------------------------
(***************************************************************************)
(* Counting bytes.                                                         *)
(***************************************************************************)
AccountingOK == IsFiniteSet(CountedBytes) /\ Accounting

LEMMA InitAccounting == Init => AccountingOK
  <1> SUFFICES ASSUME Init PROVE AccountingOK
    BY Zenon
  <1>1. \A k \in Keys : CallsOn(k) = {} /\ m[k].size = 0
    BY InitCalls, Zenon DEF CallsOn, Init, StoreInit, NoEntry
  <1>2. \A k \in Keys : Counted(k) = 0
    BY <1>1, Zenon DEF Counted
  <1>3. \A k \in Keys : {k} \X (1..Counted(k)) = {}
    BY <1>2
  <1>4. CountedBytes = {}
    BY <1>3, Zenon DEF CountedBytes
  <1> QED
    BY <1>4, FS_EmptySet, Zenon DEF AccountingOK, Accounting, Init, StoreInit

LEMMA StepAccounting ==
  ASSUME TypeOK, TypeOK', LabelsOK, Exclusive, Exclusive', MapOK, AccountingOK, SomeStep
  PROVE  AccountingOK'
  <1>1. CASE KeepsCounted
    <2>1. \A j \in Keys : {j} \X (1..Counted(j)') = {j} \X (1..Counted(j))
      BY <1>1, Zenon DEF KeepsCounted
    <2>2. CountedBytes' = CountedBytes
      BY <2>1, Zenon DEF CountedBytes
    <2> QED
      BY <1>1, <2>2, Zenon DEF KeepsCounted, AccountingOK, Accounting
  <1>2. ASSUME NEW p \in Procs, NEW k \in Keys, MovesCounted(p, k) PROVE AccountingOK'
    <2> DEFINE f == [j \in Keys |-> Counted(j)]
               g == [j \in Keys |-> Counted(j)']
    <2>1. \A j \in Keys : {j} \X (1..f[j]) = {j} \X (1..Counted(j))
      BY Zenon
    <2>2. CountedBytes = UNION {{j} \X (1..f[j]) : j \in Keys}
      BY <2>1, Zenon DEF CountedBytes
    <2>3. \A j \in Keys : {j} \X (1..g[j]) = {j} \X (1..Counted(j)')
      BY Zenon
    <2>4. CountedBytes' = UNION {{j} \X (1..g[j]) : j \in Keys}
      BY <2>3, Zenon DEF CountedBytes
    <2>5. call[p].size \in Nat /\ call[p].prev \in Nat /\ totalBytes \in Int
      BY Zenon DEF TypeOK, Call
    <2>6. f[k] = call[p].prev /\ g[k] = call[p].size /\ \A j \in Keys : j # k => g[j] = f[j]
      BY <1>2, Zenon DEF MovesCounted
    <2> HIDE DEF f, g
    <2>7. IsFiniteSet(UNION {{j} \X (1..f[j]) : j \in Keys})
      BY <2>2, Zenon DEF AccountingOK
    <2>8. /\ IsFiniteSet(UNION {{j} \X (1..g[j]) : j \in Keys})
          /\ Cardinality(UNION {{j} \X (1..g[j]) : j \in Keys}) =
               Cardinality(UNION {{j} \X (1..f[j]) : j \in Keys}) + g[k] - f[k]
      BY <2>5, <2>6, <2>7, ColumnUpdate
    <2>9. totalBytes' = totalBytes + g[k] - f[k]
      BY <1>2, <2>6, Zenon DEF MovesCounted, AddStep
    <2> QED
      BY <2>2, <2>4, <2>8, <2>9, Zenon DEF AccountingOK, Accounting
  <1> QED
    BY <1>1, <1>2, StepCounted, Zenon
-----------------------------------------------------------------------------
(***************************************************************************)
(* Somebody answers for the pressure.                                      *)
(***************************************************************************)

\* A step that neither changes what is counted nor takes a writer away from a key
\* keeps OnlyDeletesLeft.
LEMMA KeepsOnlyDeletes ==
  ASSUME OnlyDeletesLeft, KeepsCounted,
         \A p \in Workers : call[p].at \in Writing =>
           \/ call'[p].at \in Writing /\ call'[p].key = call[p].key
           \/ Counted(call[p].key) = 0
  PROVE  OnlyDeletesLeft'
  BY Zenon DEF OnlyDeletesLeft, KeepsCounted

LEMMA StepWakeup ==
  ASSUME TypeOK, TypeOK', LabelsOK, Exclusive, Exclusive', MapOK, PolicyTracksStore,
         WakeupOK, SomeStep
  PROVE  WakeupOK'
  <1> USE ProcsFacts
  <1> SUFFICES ASSUME (Pressured /\ needsEviction)'
               PROVE  evictSig' \/ PutUnderWay' \/ DrainUnderWay' \/ OnlyDeletesLeft'
    BY Zenon DEF WakeupOK
  <1> DEFINE Goal == evictSig' \/ PutUnderWay' \/ DrainUnderWay' \/ OnlyDeletesLeft'
  <1>0. totalBytes' = totalBytes => Pressured /\ needsEviction
    BY Zenon DEF Pressured, needsEviction
  <1>00. CountedMeaning /\ CountedMeaning'
    BY CountedIs, CountedIsNext, Zenon
  <1>1. ASSUME NEW p \in Procs, NEW k \in Keys, PublishStep(p, k) PROVE Goal
    BY <1>1, Zenon DEF PublishStep, PutUnderWay, Puts, Writing
  <1>2. ASSUME NEW p \in Procs, NEW k \in Keys, UnpublishStep(p, k) PROVE Goal
    <2>1. evictSig \/ PutUnderWay \/ DrainUnderWay \/ OnlyDeletesLeft
      BY <1>0, <1>2, Zenon DEF WakeupOK, UnpublishStep
    <2>2. CASE evictSig
      BY <1>2, <2>2, Zenon DEF UnpublishStep
    <2>3. CASE PutUnderWay
      BY <1>2, <2>3, Zenon DEF UnpublishStep, PutUnderWay, Others, Puts, Writing
    <2>4. CASE DrainUnderWay
      BY <1>2, <2>4, Zenon DEF UnpublishStep, DrainUnderWay, Others
    <2>5. CASE OnlyDeletesLeft
      <3>1. KeepsCounted
        BY <1>2, StepCounted, Zenon DEF UnpublishStep, MovesCounted, AddStep, Others
      <3>2. \A q \in Workers : call[q].at \in Writing =>
               call'[q].at \in Writing /\ call'[q].key = call[q].key
        BY <1>2, Zenon DEF UnpublishStep, Others, Writing
      <3> QED
        BY <2>5, <3>1, <3>2, KeepsOnlyDeletes, Zenon
    <2> QED
      BY <2>1, <2>2, <2>3, <2>4, <2>5, Zenon
  <1>3. ASSUME NEW p \in Procs, TellStep(p) PROVE Goal
    <2>1. evictSig \/ PutUnderWay \/ DrainUnderWay \/ OnlyDeletesLeft
      BY <1>0, <1>3, Zenon DEF WakeupOK, TellStep
    <2>2. CASE evictSig
      BY <1>3, <2>2, Zenon DEF TellStep
    <2>3. CASE PutUnderWay
      BY <1>3, <2>3, Zenon DEF TellStep, PutUnderWay, Others, SameCall, Puts, Writing
    <2>4. CASE DrainUnderWay
      BY <1>3, <2>4, Zenon DEF TellStep, DrainUnderWay, Others, SameCall
    <2>5. CASE OnlyDeletesLeft
      <3>1. KeepsCounted
        BY <1>3, StepCounted, Zenon DEF TellStep, MovesCounted, AddStep, Others
      <3>2. \A q \in Workers : call[q].at \in Writing =>
               call'[q].at \in Writing /\ call'[q].key = call[q].key
        BY <1>3, Zenon DEF TellStep, Others, SameCall, LabelsOK, Writing
      <3> QED
        BY <2>5, <3>1, <3>2, KeepsOnlyDeletes, Zenon
    <2> QED
      BY <2>1, <2>2, <2>3, <2>4, <2>5, Zenon
  <1>4. ASSUME NEW p \in Procs, AddStep(p) PROVE Goal
    <2>1. CASE Puts(p)
      BY <1>4, <2>1, Zenon DEF AddStep, SameCall, LabelsOK, PutUnderWay, Puts, Writing
    <2>2. CASE ~Puts(p)
      <3>1. Removes(p) /\ call[p].at \in Writing
        BY <1>4, <2>2, Zenon DEF AddStep, LabelsOK, Puts, Removes, Writing
      <3>2. call[p].size = 0 /\ call[p].prev \in Nat /\ totalBytes \in Int
        BY <3>1, Zenon DEF MapOK, TypeOK, Call
      <3>3. totalBytes' <= totalBytes
        BY <1>4, <3>2 DEF AddStep
      <3>4. HiWater \in Int /\ LoWater \in Int
        BY StoreAssumption DEF HiWater, LoWater
      <3>5. totalBytes' \in Int
        BY Zenon DEF TypeOK
      <3>6. Pressured /\ needsEviction
        BY <3>2, <3>3, <3>4, <3>5 DEF Pressured, needsEviction
      <3>7. CASE evictSig
        BY <1>4, <3>7, Zenon DEF AddStep
      <3>8. CASE PutUnderWay
        BY <1>4, <2>2, <3>8, Zenon DEF AddStep, PutUnderWay, Others, Puts
      <3>9. CASE DrainUnderWay
        BY <1>4, <3>9, Zenon DEF AddStep, DrainUnderWay, Others, SameCall, LabelsOK
      <3>10. CASE OnlyDeletesLeft
        <4>1. PICK k \in Keys : k = call[p].key
          BY Zenon DEF TypeOK, Call
        <4>2. MovesCounted(p, k)
          BY <1>4, <4>1, AddMovesCounted, Zenon
        <4>3. Counted(k)' = 0 /\ \A j \in Keys : j # k => Counted(j)' = Counted(j)
          BY <3>2, <4>2, Zenon DEF MovesCounted
        <4> QED
          BY <1>4, <3>10, <4>1, <4>3 DEF OnlyDeletesLeft, AddStep, Others
      <3> QED
        BY <3>6, <3>7, <3>8, <3>9, <3>10, Zenon DEF WakeupOK
    <2> QED
      BY <2>1, <2>2, Zenon
  <1>5. ASSUME NEW p \in Procs, SignalStep(p) PROVE Goal
    <2>1. CASE call'[p].at = "send"
      <3>1. Puts(p)' /\ p \in Workers
        BY <1>5, <2>1, Zenon DEF SignalStep, SameCall, LabelsOK, Puts
      <3> QED
        BY <2>1, <3>1, Zenon DEF PutUnderWay, Writing
    <2>2. CASE call[p].at = "signal" /\ ~Pressured
      BY <1>0, <1>5, <2>2, Zenon DEF SignalStep
    <2>3. CASE evictSig'
      BY <2>3, Zenon
    <2> QED
      BY <1>5, <2>1, <2>2, <2>3, Zenon DEF SignalStep
  <1>6. ASSUME NEW p \in Procs, ReadStep(p) \/ AdmitStep(p) PROVE Goal
    <2>0. /\ p \in Workers /\ Others(p) /\ totalBytes' = totalBytes /\ evictSig' = evictSig
          /\ call[p].at \notin Writing /\ call[p].at # "add"
      BY <1>6, Zenon DEF ReadStep, AdmitStep, Writing
    <2>1. evictSig \/ PutUnderWay \/ DrainUnderWay \/ OnlyDeletesLeft
      BY <1>0, <2>0, Zenon DEF WakeupOK
    <2>2. CASE evictSig
      BY <2>0, <2>2, Zenon
    <2>3. CASE PutUnderWay
      BY <2>0, <2>3, Zenon DEF PutUnderWay, Others, Puts
    <2>4. CASE DrainUnderWay
      BY <2>0, <2>4, Zenon DEF DrainUnderWay, Others
    <2>5. CASE OnlyDeletesLeft
      <3>1. call'[p].at # call[p].at
        BY <1>6, Zenon DEF ReadStep, AdmitStep
      <3>2. KeepsCounted
        BY <2>0, <3>1, StepCounted, Zenon DEF MovesCounted, AddStep, Others
      <3>3. \A q \in Workers : call[q].at \in Writing =>
               call'[q].at \in Writing /\ call'[q].key = call[q].key
        BY <2>0, Zenon DEF Others
      <3> QED
        BY <2>5, <3>2, <3>3, KeepsOnlyDeletes, Zenon
    <2> QED
      BY <2>1, <2>2, <2>3, <2>4, <2>5, Zenon
  <1>7. CASE LoopStep
    <2>0. Others(Evictor) /\ totalBytes' = totalBytes /\ m' = m
      BY <1>7, Zenon DEF LoopStep
    <2>1. KeepsCounted
      <3>1. call[Evictor].at # "add" /\ call[Evictor].at \notin Writing
        BY <1>7, Zenon DEF LoopStep, Writing
      <3>2. \A q \in Procs : AddStep(q) => q # Evictor /\ call'[q].at # call[q].at
        BY <3>1, Zenon DEF AddStep
      <3>3. \A q \in Procs : ~AddStep(q)
        BY <2>0, <3>2, Zenon DEF Others
      <3> QED
        BY <3>3, StepCounted, Zenon DEF MovesCounted
    <2>2. PutUnderWay => PutUnderWay'
      BY <2>0, Zenon DEF PutUnderWay, Others, Puts
    <2>3. OnlyDeletesLeft => OnlyDeletesLeft'
      <3>1. \A q \in Workers : call'[q] = call[q]
        BY <2>0, Zenon DEF Others
      <3> QED
        BY <2>1, <3>1, KeepsOnlyDeletes, Zenon
    <2>4. CASE call'[Evictor].at \in {"check", "victim"} \/ call'[Evictor].op = "drain"
      BY <2>4, Zenon DEF DrainUnderWay
    <2>5. CASE call[Evictor].at = "check" /\ ~needsEviction
      BY <1>0, <2>0, <2>5, Zenon
    <2>6. CASE ~DrainUnderWay /\ evictSig' = evictSig
      BY <1>0, <2>0, <2>2, <2>3, <2>6, Zenon DEF WakeupOK
    <2>7. CASE call[Evictor].at = "victim" /\ Range(ll) = {}
      <3>1. SUFFICES ASSUME ~PutUnderWay, NEW k \in Keys, Counted(k) # 0
                     PROVE  \E p \in Workers : call[p].at \in Writing /\ call[p].key = k
        BY <2>2, <2>3, Zenon DEF OnlyDeletesLeft
      <3>2. SUFFICES ASSUME CallsOn(k) = {} PROVE FALSE
        BY <2>7, Zenon DEF CallsOn, Writing
      <3>3. m[k].size = 0
        BY <2>7, <3>2, Zenon DEF PolicyTracksStore, MapOK
      <3>4. Counted(k) = m[k].size
        BY <3>2, Zenon DEF Counted
      <3> QED
        BY <3>1, <3>3, <3>4, Zenon
    <2>8. /\ call[Evictor].at \in {"select", "collect", "sweeping"} => ~DrainUnderWay
          /\ call[Evictor].at = "evict" /\ call[Evictor].op # "drain" => ~DrainUnderWay
      BY Zenon DEF LabelsOK, DrainUnderWay
    <2> QED
      BY <1>7, <2>4, <2>5, <2>6, <2>7, <2>8, Zenon DEF LoopStep
  <1>8. CASE NoStep
    <2>1. evictSig \/ PutUnderWay \/ DrainUnderWay \/ OnlyDeletesLeft
      BY <1>0, <1>8, Zenon DEF WakeupOK, NoStep
    <2>2. KeepsCounted
      <3>1. \A q \in Procs : ~AddStep(q)
        BY <1>8, Zenon DEF NoStep, AddStep
      <3> QED
        BY <3>1, StepCounted, Zenon DEF MovesCounted
    <2>3. OnlyDeletesLeft => OnlyDeletesLeft'
      BY <1>8, <2>2, KeepsOnlyDeletes, Zenon DEF NoStep
    <2> QED
      BY <1>8, <2>1, <2>3, Zenon DEF NoStep, PutUnderWay, DrainUnderWay, Puts
  <1> QED
    BY <1>1, <1>2, <1>3, <1>4, <1>5, <1>6, <1>7, <1>8, Zenon DEF SomeStep

LEMMA WaterMarks == HiWater \in Int /\ LoWater \in Nat
  <1>1. MaxBytes \in Nat /\ LoPct \in Int /\ HiPct \in Int
    BY StoreAssumption, Zenon
  <1>2. GoodWatermarks => MaxBytes * LoPct \in Nat
    BY <1>1 DEF GoodWatermarks
  <1> QED
    BY <1>1, <1>2 DEF HiWater, LoWater

LEMMA InitWakeup == Init => WakeupOK
  BY WaterMarks DEF Init, StoreInit, WakeupOK, needsEviction
=============================================================================
