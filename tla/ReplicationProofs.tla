-------------------------- MODULE ReplicationProofs --------------------------
(***************************************************************************)
(* What replication promises, for every number of nodes, handlers and      *)
(* workers, every order of the nodes on the ring and every bound.          *)
(*                                                                         *)
(* The argument.  While no process has left, every router has the full     *)
(* ring, so one node mints all versions: the primary's copy is the latest  *)
(* version there is, and an owner that does not hold that version has it   *)
(* on its way (CatchUpOK).  While at most one process has left, all other  *)
(* owners keep what all owners have held, and they are owners in every     *)
(* ring that lacks at most that one node (SafeOK).                         *)
(***************************************************************************)
EXTENDS Replication, TLAPS, FiniteSetTheorems

-----------------------------------------------------------------------------
(* The inductive invariant.                                                *)

\* A job that is being forwarded has a version and somebody to go to.
BusyOK ==
  /\ \A n \in Nodes : sending[n] # Waiting => sending[n].version # 0 /\ sending[n].peers # {}
  /\ \A h \in Handlers : rpc[h].at = "enqueue" => rpc[h].version # 0
  /\ snapshots # <<>>

FullRing == /\ \A n \in Nodes : phase[n] = "up"
            /\ snapshots = <<Nodes>> /\ \A r \in Routers : seen[r] = 1
LeavingOK == /\ "departed" \notin happened => count["depart"] = 0
             /\ count["depart"] = 0 => FullRing

\* No copy was lost on its way, and none was removed.
Lossless == happened \subseteq {"spillDropped", "putError"}
Primary == Nearest(Owners)
NothingSpilled ==
  /\ bucket = 0
  /\ \A n \in Nodes : jobs[n] = <<>> /\ \A w \in SpillWorkers : putting[n][w] = 0
  /\ \A h \in Handlers : rpc[h].at # "readmit"
OneMints ==
  /\ \A h \in Handlers : rpc[h].at = "enqueue" => rpc[h].node = Primary
  /\ \A n \in Nodes : n # Primary => queue[n] = <<>> /\ sending[n] = Waiting
LatestIs(v) ==
  /\ \A n \in Nodes : hot[n] <= v
  /\ \A h \in Handlers : rpc[h].at = "enqueue" => rpc[h].version <= v
  /\ \A i \in 1..Len(queue[Primary]) : queue[Primary][i] <= v
  /\ sending[Primary].version <= v
ToBeSent(v) ==
  \/ \E h \in Handlers : rpc[h].at = "enqueue" /\ rpc[h].version = v
  \/ \E i \in 1..Len(queue[Primary]) : queue[Primary][i] = v
BeingSent(v, p) == sending[Primary].version = v /\ p \in sending[Primary].peers
OnItsWay(v) ==
  \A p \in Owners \ {Primary} : hot[p] = v \/ ToBeSent(v) \/ BeingSent(v, p)
CaughtUp ==
  NothingSpilled /\ OneMints /\ LatestIs(hot[Primary]) /\ OnItsWay(hot[Primary])
CatchUpOK ==
  ("deleted" \in happened => "removed" \in happened) /\ (Lossless => CaughtUp)

\* Only node x ever left.
OneGone(x) ==
  /\ \A n \in Nodes \ {x} : phase[n] = "up"
  /\ \A i \in 1..Len(snapshots) : Nodes \ {x} \subseteq snapshots[i]
  /\ \A r \in Routers \ {x} : seen[r] # 0
HeldBy(nodes) == "removed" \notin happened => \A n \in nodes : hot[n] >= safe
SafeOK ==
  /\ count["depart"] = 0 => HeldBy(Owners)
  /\ count["depart"] = 1 => \E x \in Nodes : OneGone(x) /\ HeldBy(Owners \ {x})

IInv == TypeOK /\ BusyOK /\ LeavingOK /\ CatchUpOK /\ SafeOK /\ NothingLost

-----------------------------------------------------------------------------
(* Placement.                                                              *)

LEMMA LeastNatural ==
  ASSUME NEW S, S \subseteq Nat, S # {}
  PROVE  \E n \in S : \A i \in S : n <= i
  <1>1. PICK n \in S : \A i \in S : ~(<<i, n>> \in OpToRel(<, Nat))
    BY NatLessThanWellFounded, WFMin, Zenon
  <1>2. \A i \in S : ~(i < n)
    BY <1>1, Zenon DEF OpToRel
  <1> QED
    BY <1>2

LEMMA PosFacts ==
  ASSUME NEW n \in Nodes
  PROVE  Pos(n) \in 1..Len(Order) /\ Order[Pos(n)] = n /\ Pos(n) \in Nat
  <1>1. \E i \in 1..Len(Order) : Order[i] = n
    BY ReplicationAssumption, Zenon
  <1>2. Pos(n) \in 1..Len(Order) /\ Order[Pos(n)] = n
    BY <1>1, Zenon DEF Pos
  <1>3. Len(Order) \in Nat
    BY ReplicationAssumption
  <1> QED
    BY <1>2, <1>3

LEMMA NodesFinite == IsFiniteSet(Nodes)
  <1>1. Len(Order) \in Nat /\ Order \in [1..Len(Order) -> Nodes]
    BY ReplicationAssumption
  <1>2. Order \in Surjection(1..Len(Order), Nodes)
    BY <1>1, ReplicationAssumption, Zenon DEF Surjection
  <1>3. IsFiniteSet(1..Len(Order))
    BY <1>1, FS_Interval
  <1> QED
    BY <1>2, <1>3, FS_Surjection, Zenon

\* The walk clockwise comes to one of the nodes first.
LEMMA NearestFacts ==
  ASSUME NEW S \in SUBSET Nodes, S # {}
  PROVE  Nearest(S) \in S /\ Nearest(S) \in Nodes /\ Ahead(S, Nearest(S)) = {}
  <1> DEFINE P == {Pos(n) : n \in S}
  <1>1. P \subseteq Nat /\ P # {}
    BY PosFacts, Zenon
  <1>2. PICK i \in P : \A j \in P : i <= j
    BY <1>1, LeastNatural, Zenon
  <1>3. PICK n \in S : Pos(n) = i
    BY <1>2, Zenon
  <1>4. \A p \in S : Pos(n) <= Pos(p) /\ Pos(n) \in Nat /\ Pos(p) \in Nat
    BY <1>2, <1>3, PosFacts, Zenon
  <1>5. Ahead(S, n) = {}
    BY <1>4 DEF Ahead
  <1> QED
    BY <1>5, Zenon DEF Nearest

LEMMA AheadCount ==
  ASSUME NEW S \in SUBSET Nodes, NEW T \in SUBSET S, NEW n
  PROVE  /\ Cardinality(Ahead(T, n)) \in Nat /\ Cardinality(Ahead(S, n)) \in Nat
         /\ Cardinality(Ahead(T, n)) <= Cardinality(Ahead(S, n))
  <1>1. Ahead(S, n) \in SUBSET Nodes /\ Ahead(T, n) \in SUBSET Ahead(S, n)
    BY Zenon DEF Ahead
  <1>2. IsFiniteSet(Ahead(S, n))
    BY <1>1, NodesFinite, FS_Subset, Zenon
  <1>3. IsFiniteSet(Ahead(T, n)) /\ Cardinality(Ahead(T, n)) <= Cardinality(Ahead(S, n))
    BY <1>1, <1>2, FS_Subset, Zenon
  <1> QED
    BY <1>2, <1>3, FS_CardinalityType, Zenon

\* A ring with a member names an owner, and every owner is a member.
LEMMA OwnersFacts ==
  ASSUME NEW view \in SUBSET Nodes
  PROVE  /\ OwnersN(view) \subseteq view
         /\ view # {} => OwnersN(view) # {}
  <1>1. ASSUME view # {} PROVE Nearest(view) \in OwnersN(view)
    <2>1. Nearest(view) \in view /\ Ahead(view, Nearest(view)) = {}
      BY <1>1, NearestFacts, Zenon
    <2>2. Cardinality(Ahead(view, Nearest(view))) < RF
      <3>1. Cardinality({}) = 0 /\ 0 < RF
        BY FS_EmptySet, ReplicationAssumption
      <3> QED
        BY <2>1, <3>1, Zenon
    <2> QED
      BY <2>1, <2>2, Zenon DEF OwnersN
  <1> QED
    BY <1>1, Zenon DEF OwnersN

LEMMA PrimaryFacts ==
  /\ Owners \subseteq Nodes /\ Owners # {}
  /\ Primary \in Owners /\ Primary \in Nodes
  <1>1. Owners \subseteq Nodes /\ Owners # {}
    BY OwnersFacts, ReplicationAssumption, Zenon DEF Owners
  <1> QED
    BY <1>1, NearestFacts, Zenon DEF Primary

\* An owner of the full ring that is still a member is still an owner.
LEMMA OwnersRemain ==
  ASSUME NEW view \in SUBSET Nodes
  PROVE  Owners \cap view \subseteq OwnersN(view)
  <1> SUFFICES ASSUME NEW n \in Owners \cap view PROVE n \in OwnersN(view)
    BY Zenon
  <1>1. Cardinality(Ahead(Nodes, n)) < RF
    BY Zenon DEF Owners, OwnersN
  <1>2. /\ Cardinality(Ahead(view, n)) \in Nat /\ Cardinality(Ahead(Nodes, n)) \in Nat
        /\ Cardinality(Ahead(view, n)) <= Cardinality(Ahead(Nodes, n))
    BY AheadCount, Zenon
  <1> QED
    BY <1>1, <1>2, ReplicationAssumption DEF OwnersN

\* With a replication factor of two or more there is a second owner.
LEMMA TwoOwners ==
  ASSUME RF >= 2, \E n, p \in Nodes : n # p
  PROVE  \A x \in Nodes : Owners \ {x} # {}
  <1> DEFINE a == Nearest(Nodes)
             S == Nodes \ {a}
             b == Nearest(S)
  <1>1. a \in Nodes /\ Ahead(Nodes, a) = {}
    BY NearestFacts, Zenon
  <1>2. b \in S /\ Ahead(S, b) = {}
    BY NearestFacts
  <1>3. Ahead(Nodes, b) \in SUBSET {a}
    BY <1>2, Zenon DEF Ahead
  <1>4. IsFiniteSet({a}) /\ Cardinality({a}) = 1
    BY FS_Singleton, Zenon
  <1>5. Cardinality(Ahead(Nodes, b)) <= 1 /\ Cardinality(Ahead(Nodes, b)) \in Nat
    BY <1>3, <1>4, FS_Subset, FS_CardinalityType, Zenon
  <1>6. Cardinality(Ahead(Nodes, a)) = 0
    BY <1>1, FS_EmptySet, Zenon
  <1>7. a \in Owners /\ b \in Owners /\ a # b
    <2>1. \A n \in Nodes : Cardinality(Ahead(Nodes, n)) < RF => n \in Owners
      BY Zenon DEF Owners, OwnersN
    <2>2. Cardinality(Ahead(Nodes, a)) < RF /\ Cardinality(Ahead(Nodes, b)) < RF
      BY <1>5, <1>6, ReplicationAssumption
    <2> QED
      BY <1>1, <1>2, <2>1, <2>2, Zenon
  <1> QED
    BY <1>7

-----------------------------------------------------------------------------
(* Types.                                                                  *)

LEMMA LimitFacts == \A e \in Events : Limit[e] \in Nat
  BY ReplicationAssumption, Zenon DEF Limit, Events

LEMMA CountType ==
  ASSUME TypeOK, NEW e \in Events, Count(e)
  PROVE  /\ count' \in [Events -> Nat] /\ \A f \in Events : count'[f] <= Limit[f]
         /\ count'[e] = count[e] + 1 /\ \A f \in Events : f # e => count'[f] = count[f]
  <1>1. count \in [Events -> Nat] /\ \A f \in Events : count[f] <= Limit[f]
    BY Zenon DEF TypeOK
  <1>2. count[e] < Limit[e] /\ count' = [count EXCEPT ![e] = count[e] + 1]
    BY Zenon DEF Count
  <1>3. count[e] \in Nat /\ Limit[e] \in Nat
    BY <1>1, LimitFacts, Zenon
  <1>4. count[e] + 1 <= Limit[e] /\ count[e] + 1 \in Nat
    BY <1>2, <1>3
  <1> QED
    BY <1>1, <1>2, <1>4, Zenon

LEMMA ViewFacts ==
  ASSUME TypeOK, BusyOK
  PROVE  /\ Len(snapshots) \in Nat \ {0} /\ Members \in SUBSET Nodes
         /\ \A r \in Routers : View(r) \in SUBSET Nodes
         /\ OwnerConns \subseteq Nodes
         /\ \A n \in Nodes : OwnersN(View(n)) \ {n} \in SUBSET Nodes
  <1>1. snapshots \in Seq(SUBSET Nodes) /\ snapshots # <<>> /\ seen \in [Routers -> 0..Len(snapshots)]
    BY Zenon DEF TypeOK, BusyOK
  <1>2. Len(snapshots) \in Nat \ {0} /\ Members \in SUBSET Nodes
    BY <1>1 DEF Members
  <1>3. ASSUME NEW r \in Routers PROVE View(r) \in SUBSET Nodes
    <2>1. seen[r] # 0 => seen[r] \in 1..Len(snapshots)
      BY <1>1, <1>2
    <2> QED
      BY <1>1, <2>1 DEF View
  <1>4. OwnerConns \subseteq Nodes
    BY <1>3, OwnersFacts, Zenon DEF OwnerConns, Routers
  <1>5. \A n \in Nodes : OwnersN(View(n)) \ {n} \in SUBSET Nodes
    BY <1>3, OwnersFacts, Zenon DEF Routers
  <1> QED
    BY <1>2, <1>3, <1>4, <1>5, Zenon

LEMMA IdleFacts ==
  /\ Idle \in [at : {"idle", "enqueue", "cold", "readmit"}, node : Nodes, version : Nat]
  /\ Idle.at = "idle"
  /\ Waiting \in [version : Nat, peers : SUBSET Nodes]
  /\ Waiting.version = 0 /\ Waiting.peers = {}
  <1>1. Order[1] \in Nodes
    <2>1. Len(Order) \in Nat /\ Len(Order) # 0
      BY ReplicationAssumption
    <2> QED
      BY <2>1, ReplicationAssumption
  <1> QED
    BY <1>1, Zenon DEF Idle, Waiting

LEMMA VersionFacts ==
  ASSUME NEW held \in Nat, NEW v \in Nat
  PROVE  /\ Put(held) = held + 1 /\ Put(held) \in Nat \ {0}
         /\ PutWithVersion(held, v) \in {held, v} /\ PutWithVersion(held, v) \in Nat
         /\ PutWithVersion(held, v) >= held /\ PutWithVersion(held, v) >= v
  BY DEF Put, PutWithVersion

\* The version every owner holds is a version, and every owner holds it.
LEMMA HeldFacts ==
  ASSUME NEW f \in [Nodes -> Nat]
  PROVE  LET v == CHOOSE v \in {f[n] : n \in Owners} : \A n \in Owners : v <= f[n]
         IN  v \in Nat /\ \A n \in Owners : v <= f[n]
  <1>1. {f[n] : n \in Owners} \subseteq Nat /\ {f[n] : n \in Owners} # {}
    BY PrimaryFacts, Zenon
  <1>2. \E v \in {f[n] : n \in Owners} : \A u \in {f[n] : n \in Owners} : v <= u
    BY <1>1, LeastNatural, Zenon
  <1>3. \E v \in {f[n] : n \in Owners} : \A n \in Owners : v <= f[n]
    BY <1>2, Zenon
  <1> QED
    BY <1>1, <1>3, Zenon

LEMMA RememberFacts ==
  ASSUME TypeOK, hot' \in [Nodes -> Nat], Remember
  PROVE  /\ safe' \in Nat
         /\ safe' = safe \/ \A n \in Owners : hot'[n] >= safe'
  <1>1. HeldByAll' \in Nat /\ \A n \in Owners : HeldByAll' <= hot'[n]
    BY HeldFacts, Zenon DEF HeldByAll
  <1>2. safe \in Nat
    BY Zenon DEF TypeOK
  <1>3. safe' = IF HeldByAll' > safe THEN HeldByAll' ELSE safe
    BY Zenon DEF Remember
  <1>4. CASE HeldByAll' > safe
    <2>1. safe' = HeldByAll'
      BY <1>3, <1>4, Zenon
    <2>2. \A n \in Owners : hot'[n] \in Nat
      BY PrimaryFacts, Zenon
    <2> QED
      BY <1>1, <2>1, <2>2, Zenon
  <1>5. CASE ~(HeldByAll' > safe)
    BY <1>2, <1>3, <1>5, Zenon
  <1> QED
    BY <1>4, <1>5, Zenon

\* A queue of a node grows at its end up to its depth, and shrinks at its head.
LEMMA Appended ==
  ASSUME NEW q \in [Nodes -> Seq(Nat \ {0})], NEW d \in Nat, \A p \in Nodes : Len(q[p]) <= d,
         NEW n \in Nodes, NEW v \in Nat \ {0}, Len(q[n]) < d,
         NEW r, r = [q EXCEPT ![n] = Append(q[n], v)]
  PROVE  r \in [Nodes -> Seq(Nat \ {0})] /\ \A p \in Nodes : Len(r[p]) <= d
  <1>1. q[n] \in Seq(Nat \ {0}) /\ Len(q[n]) \in Nat
    OBVIOUS
  <1>2. Append(q[n], v) \in Seq(Nat \ {0}) /\ Len(Append(q[n], v)) <= d
    BY <1>1
  <1>3. r[n] = Append(q[n], v) /\ \A p \in Nodes : p # n => r[p] = q[p]
    BY Zenon
  <1> QED
    BY <1>2, <1>3, Zenon

LEMMA Taken ==
  ASSUME NEW q \in [Nodes -> Seq(Nat \ {0})], NEW d \in Nat, \A p \in Nodes : Len(q[p]) <= d,
         NEW n \in Nodes, q[n] # <<>>,
         NEW r, r = [q EXCEPT ![n] = Tail(q[n])]
  PROVE  /\ r \in [Nodes -> Seq(Nat \ {0})] /\ \A p \in Nodes : Len(r[p]) <= d
         /\ Head(q[n]) \in Nat \ {0}
  <1>1. q[n] \in Seq(Nat \ {0}) /\ Len(q[n]) \in Nat /\ Len(q[n]) # 0
    OBVIOUS
  <1>2. /\ Tail(q[n]) \in Seq(Nat \ {0}) /\ Len(Tail(q[n])) <= d /\ Head(q[n]) \in Nat \ {0}
    BY <1>1
  <1>3. r[n] = Tail(q[n]) /\ \A p \in Nodes : p # n => r[p] = q[p]
    BY Zenon
  <1> QED
    BY <1>2, <1>3, Zenon

\* A handler's step, in types.
LEMMA HandlerTypes ==
  ASSUME TypeOK, BusyOK, NEW h \in Handlers,
         Write(h) \/ FetchMiss(h) \/ Enqueue(h) \/ ColdGet(h) \/ Readmit(h)
  PROVE  hot' \in [Nodes -> Nat] /\ (safe' \in Nat => TypeOK') /\ BusyOK'
  <1>0. /\ hot \in [Nodes -> Nat] /\ bucket \in Nat
        /\ rpc \in [Handlers -> [at : {"idle", "enqueue", "cold", "readmit"}, node : Nodes,
                                 version : Nat]]
        /\ queue \in [Nodes -> Seq(Nat \ {0})] /\ \A n \in Nodes : Len(queue[n]) <= QueueDepth
        /\ happened \subseteq Happenings
    BY Zenon DEF TypeOK
  <1>1. CASE Write(h)
    <2>1. PICK n \in Nodes :
            /\ hot' = [hot EXCEPT ![n] = Put(hot[n])]
            /\ rpc' = [rpc EXCEPT ![h] = [at |-> "enqueue", node |-> n, version |-> Put(hot[n])]]
      <3>1. OwnerConns \in SUBSET Nodes /\ OwnerConns # {}
        BY <1>1, ViewFacts, Zenon DEF Write
      <3>2. Nearest(OwnerConns) \in Nodes
        BY <3>1, NearestFacts, Zenon
      <3> QED
        BY <1>1, <3>2, Zenon DEF Write
    <2>2. Put(hot[n]) \in Nat /\ Put(hot[n]) # 0
      BY <1>0, VersionFacts, Zenon
    <2>3. hot' \in [Nodes -> Nat]
      BY <1>0, <2>1, <2>2, Zenon
    <2>4. /\ rpc' \in [Handlers -> [at : {"idle", "enqueue", "cold", "readmit"}, node : Nodes,
                                    version : Nat]]
          /\ \A g \in Handlers : rpc'[g].at = "enqueue" => rpc'[g].version # 0
      BY <1>0, <2>1, <2>2, Zenon DEF BusyOK
    <2>5. count' \in [Events -> Nat] /\ \A f \in Events : count'[f] <= Limit[f]
      BY <1>1, CountType, Zenon DEF Write, Events
    <2> QED
      BY <1>0, <1>1, <2>3, <2>4, <2>5, Zenon DEF Write, TypeOK, BusyOK, nodeVars, memberVars
  <1>2. CASE FetchMiss(h)
    <2>1. PICK n \in Nodes : rpc' = [rpc EXCEPT ![h] = [at |-> "cold", node |-> n, version |-> 0]]
      BY <1>2, Zenon DEF FetchMiss
    <2>2. /\ rpc' \in [Handlers -> [at : {"idle", "enqueue", "cold", "readmit"}, node : Nodes,
                                    version : Nat]]
          /\ \A g \in Handlers : rpc'[g].at = "enqueue" => rpc'[g].version # 0
      BY <1>0, <2>1, Zenon DEF BusyOK
    <2>3. count' \in [Events -> Nat] /\ \A f \in Events : count'[f] <= Limit[f]
      BY <1>2, CountType, Zenon DEF FetchMiss, Events
    <2> QED
      BY <1>0, <1>2, <2>2, <2>3, Zenon DEF FetchMiss, TypeOK, BusyOK, nodeVars, memberVars
  <1>3. CASE Enqueue(h)
    <2> DEFINE n == rpc[h].node
               v == rpc[h].version
    <2>1. n \in Nodes /\ v \in Nat \ {0} /\ rpc' = [rpc EXCEPT ![h] = Idle]
      BY <1>0, <1>3, Zenon DEF Enqueue, BusyOK
    <2>2. /\ rpc' \in [Handlers -> [at : {"idle", "enqueue", "cold", "readmit"}, node : Nodes,
                                    version : Nat]]
          /\ \A g \in Handlers : rpc'[g].at = "enqueue" => rpc'[g].version # 0
      BY <1>0, <2>1, IdleFacts, Zenon DEF BusyOK
    <2>3. \/ queue' = queue
          \/ Len(queue[n]) < QueueDepth /\ queue' = [queue EXCEPT ![n] = Append(queue[n], v)]
      BY <1>3, Zenon DEF Enqueue
    <2>4. QueueDepth \in Nat
      BY ReplicationAssumption, Zenon
    <2>6. queue' \in [Nodes -> Seq(Nat \ {0})] /\ \A p \in Nodes : Len(queue'[p]) <= QueueDepth
      BY <1>0, <2>1, <2>3, <2>4, Appended, Zenon
    <2>7. happened' \subseteq Happenings
      BY <1>0, <1>3, Zenon DEF Enqueue, Record, Happenings
    <2> QED
      BY <1>0, <1>3, <2>2, <2>6, <2>7, Zenon DEF Enqueue, TypeOK, BusyOK, memberVars
  <1>4. CASE ColdGet(h)
    <2>1. PICK R \in [at : {"idle", "enqueue", "cold", "readmit"}, node : Nodes, version : Nat] :
            rpc' = [rpc EXCEPT ![h] = R] /\ R.at # "enqueue"
      <3>1. [at |-> "readmit", node |-> rpc[h].node, version |-> bucket] \in
              [at : {"idle", "enqueue", "cold", "readmit"}, node : Nodes, version : Nat]
        BY <1>0, Zenon
      <3>2. \/ rpc' = [rpc EXCEPT ![h] = Idle]
            \/ rpc' = [rpc EXCEPT ![h] = [at |-> "readmit", node |-> rpc[h].node, version |-> bucket]]
        BY <1>4, Zenon DEF ColdGet
      <3> QED
        BY <3>1, <3>2, IdleFacts, Zenon
    <2>2. /\ rpc' \in [Handlers -> [at : {"idle", "enqueue", "cold", "readmit"}, node : Nodes,
                                    version : Nat]]
          /\ \A g \in Handlers : rpc'[g].at = "enqueue" => rpc'[g].version # 0
      BY <1>0, <2>1, IdleFacts, Zenon DEF BusyOK
    <2> QED
      BY <1>0, <1>4, <2>2, Zenon DEF ColdGet, TypeOK, BusyOK, nodeVars, memberVars
  <1>5. CASE Readmit(h)
    <2>1. rpc[h].node \in Nodes /\ rpc[h].version \in Nat /\ rpc' = [rpc EXCEPT ![h] = Idle]
      BY <1>0, <1>5, Zenon DEF Readmit
    <2>2. /\ rpc' \in [Handlers -> [at : {"idle", "enqueue", "cold", "readmit"}, node : Nodes,
                                    version : Nat]]
          /\ \A g \in Handlers : rpc'[g].at = "enqueue" => rpc'[g].version # 0
      BY <1>0, <2>1, IdleFacts, Zenon DEF BusyOK
    <2>3. PutWithVersion(hot[rpc[h].node], rpc[h].version) \in Nat
      BY <1>0, <2>1, VersionFacts, Zenon
    <2>4. hot' \in [Nodes -> Nat]
      BY <1>0, <1>5, <2>3, Zenon DEF Readmit
    <2> QED
      BY <1>0, <1>5, <2>2, <2>4, Zenon DEF Readmit, TypeOK, BusyOK, nodeVars, memberVars
  <1> QED
    BY <1>1, <1>2, <1>3, <1>4, <1>5, Zenon

GoodJob(J) == /\ J \in [version : Nat, peers : SUBSET Nodes]
              /\ J # Waiting => J.version # 0 /\ J.peers # {}

LEMMA JobFacts ==
  ASSUME NEW v \in Nat \ {0}, NEW S \in SUBSET Nodes
  PROVE  /\ GoodJob(Job(v, S))
         /\ S = {} => Job(v, S) = Waiting
         /\ S # {} => Job(v, S).version = v /\ Job(v, S).peers = S /\ Job(v, S) # Waiting
  BY IdleFacts DEF Job, GoodJob

\* The replicator's and the workers' steps, in types.
LEMMA BackgroundTypes ==
  ASSUME TypeOK, BusyOK, NEW n \in Nodes,
         \/ Forward(n) \/ SendOne(n)
         \/ \E w \in SpillWorkers : TakeJob(n, w) \/ PutObject(n, w)
  PROVE  hot' \in [Nodes -> Nat] /\ (safe' \in Nat => TypeOK') /\ BusyOK'
  <1>0. /\ hot \in [Nodes -> Nat] /\ bucket \in Nat
        /\ queue \in [Nodes -> Seq(Nat \ {0})] /\ \A p \in Nodes : Len(queue[p]) <= QueueDepth
        /\ jobs \in [Nodes -> Seq(Nat \ {0})] /\ \A p \in Nodes : Len(jobs[p]) <= SpillQueue
        /\ sending \in [Nodes -> [version : Nat, peers : SUBSET Nodes]]
        /\ putting \in [Nodes -> [SpillWorkers -> Nat]]
        /\ happened \subseteq Happenings /\ QueueDepth \in Nat /\ SpillQueue \in Nat
    BY ReplicationAssumption, Zenon DEF TypeOK
  <1>1. CASE Forward(n)
    <2> DEFINE peers == OwnersN(View(n)) \ {n}
    <2>1. /\ queue[n] # <<>> /\ queue' = [queue EXCEPT ![n] = Tail(queue[n])]
          /\ sending' = [sending EXCEPT ![n] = Job(Head(queue[n]), peers)]
      BY <1>1, Zenon DEF Forward
    <2>2. /\ queue' \in [Nodes -> Seq(Nat \ {0})] /\ \A p \in Nodes : Len(queue'[p]) <= QueueDepth
          /\ Head(queue[n]) \in Nat \ {0}
      BY <1>0, <2>1, Taken, Zenon
    <2>3. PICK J : GoodJob(J) /\ sending' = [sending EXCEPT ![n] = J]
      <3>1. peers \in SUBSET Nodes
        BY ViewFacts, Zenon
      <3> QED
        BY <2>1, <2>2, <3>1, JobFacts, Zenon
    <2>4. /\ sending' \in [Nodes -> [version : Nat, peers : SUBSET Nodes]]
          /\ \A p \in Nodes : sending'[p] # Waiting => sending'[p].version # 0 /\ sending'[p].peers # {}
      BY <1>0, <2>3, Zenon DEF BusyOK, GoodJob
    <2> QED
      BY <1>0, <1>1, <2>2, <2>4, Zenon DEF Forward, TypeOK, BusyOK, memberVars
  <1>2. CASE SendOne(n)
    <2>1. PICK v \in Nat, S \in SUBSET Nodes :
            sending[n].version = v /\ sending[n].peers = S /\ v # 0 /\ S # {}
      <3>1. sending[n].version \in Nat /\ sending[n].peers \in SUBSET Nodes
        BY <1>0, Zenon
      <3>2. sending[n].version # 0 /\ sending[n].peers # {}
        BY <1>2, Zenon DEF SendOne, BusyOK
      <3> QED
        BY <3>1, <3>2, Zenon
    <2>2. Nearest(S) \in Nodes
      BY <2>1, NearestFacts, Zenon
    <2>3. PICK J : GoodJob(J) /\ sending' = [sending EXCEPT ![n] = J]
      <3>1. sending' = [sending EXCEPT ![n] = Job(v, S \ {Nearest(S)})]
        BY <1>2, <2>1, Zenon DEF SendOne, PeersLeft
      <3>2. v \in Nat \ {0} /\ S \ {Nearest(S)} \in SUBSET Nodes
        BY <2>1, Zenon
      <3> QED
        BY <3>1, <3>2, JobFacts, Zenon
    <2>4. /\ sending' \in [Nodes -> [version : Nat, peers : SUBSET Nodes]]
          /\ \A p \in Nodes : sending'[p] # Waiting => sending'[p].version # 0 /\ sending'[p].peers # {}
      BY <1>0, <2>3, Zenon DEF BusyOK, GoodJob
    <2>5. hot' \in [Nodes -> Nat]
      <3>1. PutWithVersion(hot[Nearest(S)], v) \in Nat
        BY <1>0, <2>1, <2>2, VersionFacts, Zenon
      <3>2. hot' = hot \/ hot' = [hot EXCEPT ![Nearest(S)] = PutWithVersion(hot[Nearest(S)], v)]
        BY <1>2, <2>1, Zenon DEF SendOne, Replicate
      <3> QED
        BY <1>0, <3>1, <3>2, Zenon
    <2>6. happened' \subseteq Happenings
      BY <1>0, <1>2, Zenon DEF SendOne, Record, Happenings
    <2> QED
      BY <1>0, <1>2, <2>4, <2>5, <2>6, Zenon DEF SendOne, TypeOK, BusyOK, memberVars
  <1>3. ASSUME NEW w \in SpillWorkers, TakeJob(n, w)
        PROVE  hot' \in [Nodes -> Nat] /\ (safe' \in Nat => TypeOK') /\ BusyOK'
    <2>1. /\ jobs[n] # <<>> /\ jobs' = [jobs EXCEPT ![n] = Tail(jobs[n])]
          /\ putting' = [putting EXCEPT ![n][w] = Head(jobs[n])]
      BY <1>3, Zenon DEF TakeJob
    <2>2. /\ jobs' \in [Nodes -> Seq(Nat \ {0})] /\ \A p \in Nodes : Len(jobs'[p]) <= SpillQueue
          /\ Head(jobs[n]) \in Nat \ {0}
      BY <1>0, <2>1, Taken, Zenon
    <2>3. putting' \in [Nodes -> [SpillWorkers -> Nat]]
      BY <1>0, <2>1, <2>2, Zenon
    <2> QED
      BY <1>0, <1>3, <2>2, <2>3, Zenon DEF TakeJob, TypeOK, BusyOK, memberVars
  <1>4. ASSUME NEW w \in SpillWorkers, PutObject(n, w)
        PROVE  hot' \in [Nodes -> Nat] /\ (safe' \in Nat => TypeOK') /\ BusyOK'
    <2>1. bucket' \in Nat /\ happened' \subseteq Happenings
      <3>1. putting[n][w] \in Nat
        BY <1>0, Zenon
      <3>2. \/ bucket' = putting[n][w] /\ happened' = happened
            \/ bucket' = bucket /\ happened' = happened \cup {"putError"}
        BY <1>4, Zenon DEF PutObject, Record
      <3> QED
        BY <1>0, <3>1, <3>2, Zenon DEF Happenings
    <2>2. putting' \in [Nodes -> [SpillWorkers -> Nat]]
      BY <1>0, <1>4, Zenon DEF PutObject
    <2> QED
      BY <1>0, <1>4, <2>1, <2>2, Zenon DEF PutObject, TypeOK, BusyOK, memberVars
  <1> QED
    BY <1>1, <1>2, <1>3, <1>4, Zenon

\* Removals and the life of a process, in types.
LEMMA VanishTypes ==
  ASSUME TypeOK, BusyOK, NEW n \in Nodes, Vanish(n), snapshots' = snapshots, bucket' = bucket,
         count' \in [Events -> Nat], \A e \in Events : count'[e] <= Limit[e],
         happened' \subseteq Happenings
  PROVE  hot' \in [Nodes -> Nat] /\ (safe' \in Nat => TypeOK') /\ BusyOK'
  <1>1. hot' \in [Nodes -> Nat]
    BY Zenon DEF Vanish, TypeOK
  <1>2. phase' \in [Nodes -> {"up", "hung", "released", "stopping", "closing", "down"}]
    BY Zenon DEF Vanish, TypeOK
  <1>3. /\ rpc' \in [Handlers -> [at : {"idle", "enqueue", "cold", "readmit"}, node : Nodes,
                                  version : Nat]]
        /\ \A h \in Handlers : rpc'[h].at = "enqueue" => rpc'[h].version # 0
    BY IdleFacts, Zenon DEF Vanish, TypeOK, BusyOK
  <1>4. /\ queue' \in [Nodes -> Seq(Nat \ {0})] /\ jobs' \in [Nodes -> Seq(Nat \ {0})]
        /\ \A p \in Nodes : Len(queue'[p]) <= QueueDepth /\ Len(jobs'[p]) <= SpillQueue
    <2>1. <<>> \in Seq(Nat \ {0}) /\ Len(<<>>) <= QueueDepth /\ Len(<<>>) <= SpillQueue
      BY ReplicationAssumption
    <2> QED
      BY <2>1, Zenon DEF Vanish, TypeOK
  <1>5. /\ sending' \in [Nodes -> [version : Nat, peers : SUBSET Nodes]]
        /\ \A p \in Nodes : sending'[p] # Waiting => sending'[p].version # 0 /\ sending'[p].peers # {}
    BY IdleFacts, Zenon DEF Vanish, TypeOK, BusyOK
  <1>6. putting' \in [Nodes -> [SpillWorkers -> Nat]]
    BY Zenon DEF Vanish, TypeOK
  <1>7. seen' \in [Routers -> 0..Len(snapshots)]
    <2>1. 0 \in 0..Len(snapshots)
      BY ViewFacts
    <2> QED
      BY <2>1, Zenon DEF Vanish, TypeOK
  <1> QED
    BY <1>1, <1>2, <1>3, <1>4, <1>5, <1>6, <1>7, Zenon DEF TypeOK, BusyOK

\* etcd adds a member set at most.
LEMMA SnapshotTypes ==
  ASSUME TypeOK, BusyOK, NEW n \in Nodes,
         DeleteMember(n) \/ PutMember(n) \/ snapshots' = snapshots
  PROVE  /\ snapshots' \in Seq(SUBSET Nodes) /\ snapshots' # <<>>
         /\ seen \in [Routers -> 0..Len(snapshots')]
         /\ \/ snapshots' = snapshots
            \/ \E M \in SUBSET Nodes : M \in {Members \ {n}, Members \cup {n}}
                                       /\ snapshots' = Append(snapshots, M)
  <1>1. /\ snapshots \in Seq(SUBSET Nodes) /\ snapshots # <<>>
        /\ seen \in [Routers -> 0..Len(snapshots)] /\ Len(snapshots) \in Nat
    BY ViewFacts, Zenon DEF TypeOK, BusyOK
  <1>2. Members \in SUBSET Nodes
    BY ViewFacts, Zenon
  <1>3. CASE snapshots' = snapshots
    BY <1>1, <1>3, Zenon
  <1>4. CASE snapshots' # snapshots
    <2>1. PICK M \in SUBSET Nodes : M \in {Members \ {n}, Members \cup {n}}
                                    /\ snapshots' = Append(snapshots, M)
      BY <1>2, <1>4, Zenon DEF DeleteMember, PutMember
    <2>2. /\ snapshots' \in Seq(SUBSET Nodes) /\ Len(snapshots') = Len(snapshots) + 1
      BY <1>1, <2>1
    <2>3. snapshots' # <<>> /\ 0..Len(snapshots) \subseteq 0..Len(snapshots')
      BY <1>1, <2>2
    <2> QED
      BY <1>1, <2>1, <2>2, <2>3, Zenon
  <1> QED
    BY <1>3, <1>4, Zenon

LEMMA RemovalTypes ==
  ASSUME TypeOK, BusyOK, NEW n \in Nodes, Evict(n) \/ Spill(n) \/ SpillAfterClose(n)
  PROVE  hot' \in [Nodes -> Nat] /\ (safe' \in Nat => TypeOK') /\ BusyOK'
  <1>0. /\ hot \in [Nodes -> Nat] /\ jobs \in [Nodes -> Seq(Nat \ {0})]
        /\ \A p \in Nodes : Len(jobs[p]) <= SpillQueue
        /\ happened \subseteq Happenings /\ SpillQueue \in Nat
    BY ReplicationAssumption, Zenon DEF TypeOK
  <1>1. count' \in [Events -> Nat] /\ \A e \in Events : count'[e] <= Limit[e]
    <2>1. Count("remove") /\ "remove" \in Events
      BY Zenon DEF Evict, Spill, SpillAfterClose, Events
    <2> QED
      BY <2>1, CountType, Zenon
  <1>2. happened' \subseteq Happenings
    BY <1>0, Zenon DEF Evict, Spill, SpillAfterClose, Record, Happenings
  <1>3. CASE Evict(n)
    <2>1. hot' \in [Nodes -> Nat]
      BY <1>0, <1>3, Zenon DEF Evict
    <2> QED
      BY <1>1, <1>2, <1>3, <2>1, Zenon DEF Evict, TypeOK, BusyOK, nodeVars, memberVars
  <1>4. CASE Spill(n)
    <2>1. hot' \in [Nodes -> Nat] /\ hot[n] \in Nat \ {0}
      BY <1>0, <1>4, Zenon DEF Spill
    <2>2. \/ jobs' = jobs
          \/ Len(jobs[n]) < SpillQueue /\ jobs' = [jobs EXCEPT ![n] = Append(jobs[n], hot[n])]
      BY <1>4, Zenon DEF Spill
    <2>3. jobs' \in [Nodes -> Seq(Nat \ {0})] /\ \A p \in Nodes : Len(jobs'[p]) <= SpillQueue
      BY <1>0, <2>1, <2>2, Appended, Zenon
    <2> QED
      BY <1>1, <1>2, <1>4, <2>1, <2>3, Zenon DEF Spill, TypeOK, BusyOK, memberVars
  <1>5. CASE SpillAfterClose(n)
    BY <1>1, <1>2, <1>5, VanishTypes, Zenon DEF SpillAfterClose
  <1> QED
    BY <1>3, <1>4, <1>5, Zenon

LEMMA LifeTypes ==
  ASSUME TypeOK, BusyOK, NEW n \in Nodes,
         \/ GracefulStop(n) \/ Close(n) \/ Exit(n) \/ Release(n) \/ Crash(n) \/ Hang(n)
         \/ Resume(n) \/ LeaseExpires(n) \/ Start(n)
  PROVE  hot' \in [Nodes -> Nat] /\ (safe' \in Nat => TypeOK') /\ BusyOK'
  <1>1. count' \in [Events -> Nat] /\ \A e \in Events : count'[e] <= Limit[e]
    <2>1. \/ count' = count
          \/ \E e \in Events : Count(e)
      BY Zenon DEF GracefulStop, Close, Exit, Release, Crash, Hang, Resume, LeaseExpires, Start, Events
    <2> QED
      BY <2>1, CountType, Zenon DEF TypeOK
  <1>2. happened' \subseteq Happenings
    <2>1. happened' = happened \/ happened' = happened \cup {"departed"}
      BY Zenon DEF GracefulStop, Close, Exit, Release, Crash, Hang, Resume, LeaseExpires, Start, Record
    <2> QED
      BY <2>1, Zenon DEF TypeOK, Happenings
  <1>3. CASE Exit(n) \/ Crash(n)
    BY <1>1, <1>2, <1>3, VanishTypes, Zenon DEF Exit, Crash
  <1>4. CASE ~(Exit(n) \/ Crash(n))
    <2>1. /\ UNCHANGED <<hot, rpc, nodeVars, bucket, seen>>
          /\ phase' \in [Nodes -> {"up", "hung", "released", "stopping", "closing", "down"}]
      BY <1>4, Zenon DEF GracefulStop, Close, Release, Hang, Resume, LeaseExpires, Start, TypeOK
    <2>2. DeleteMember(n) \/ PutMember(n) \/ snapshots' = snapshots
      BY <1>4, Zenon DEF GracefulStop, Close, Release, Hang, Resume, LeaseExpires, Start
    <2>3. /\ snapshots' \in Seq(SUBSET Nodes) /\ snapshots' # <<>>
          /\ seen \in [Routers -> 0..Len(snapshots')]
      BY <2>2, SnapshotTypes, Zenon
    <2> QED
      BY <1>1, <1>2, <2>1, <2>3, Zenon DEF TypeOK, BusyOK, nodeVars
  <1> QED
    BY <1>3, <1>4, Zenon

LEMMA DriveTypes ==
  ASSUME TypeOK, BusyOK, NEW r \in Routers, DriveRouter(r)
  PROVE  hot' \in [Nodes -> Nat] /\ (safe' \in Nat => TypeOK') /\ BusyOK'
  <1>1. Len(snapshots) \in Nat \ {0} /\ seen \in [Routers -> 0..Len(snapshots)]
    BY ViewFacts, Zenon DEF TypeOK
  <1>2. seen' \in [Routers -> 0..Len(snapshots)]
    BY <1>1 DEF DriveRouter
  <1> QED
    BY <1>2, Zenon DEF DriveRouter, TypeOK, BusyOK, nodeVars

LEMMA StepTypes ==
  ASSUME TypeOK, BusyOK, [Next]_vars
  PROVE  hot' \in [Nodes -> Nat] /\ TypeOK' /\ BusyOK' /\ (Remember \/ safe' = safe)
  <1>1. CASE Next
    <2>1. hot' \in [Nodes -> Nat] /\ (safe' \in Nat => TypeOK') /\ BusyOK'
      BY <1>1, HandlerTypes, BackgroundTypes, RemovalTypes, LifeTypes, DriveTypes, Zenon
      DEF Next, Step, HandlerStep, ReplicatorStep, WorkerStep, ShutdownStep
    <2> QED
      BY <1>1, <2>1, RememberFacts, Zenon DEF Next
  <1>2. CASE UNCHANGED vars
    BY <1>2, Zenon DEF vars, TypeOK, BusyOK
  <1> QED
    BY <1>1, <1>2, Zenon

-----------------------------------------------------------------------------
(* Who has left, and what that costs.                                      *)

\* No process begins, ends or is told to stop, no router hears of one, and a store that
\* loses its copy leaves a record of that.
QuietStep ==
  /\ UNCHANGED memberVars /\ count'["depart"] = count["depart"]
  /\ "departed" \in happened' <=> "departed" \in happened
  /\ "removed" \notin happened' =>
       "removed" \notin happened /\ \A n \in Nodes : hot'[n] >= hot[n]

\* A router applies a snapshot.
DriveStep ==
  /\ UNCHANGED <<hot, phase, snapshots, count, happened>>
  /\ \E r \in Routers : seen[r] < Len(snapshots) /\ seen'[r] # 0
                        /\ \A q \in Routers \ {r} : seen'[q] = seen[q]

\* Something happens to node n: it leaves, or has left and takes a step of its leaving.
LifeStep(n) ==
  /\ \A p \in Nodes \ {n} : phase'[p] = phase[p] /\ hot'[p] = hot[p]
  /\ \A r \in Routers \ {n} : seen'[r] = seen[r]
  /\ happened \subseteq happened'
  /\ \/ snapshots' = snapshots
     \/ \E M \in SUBSET Nodes : Members \ {n} \subseteq M /\ snapshots' = Append(snapshots, M)
  /\ \/ count'["depart"] = count["depart"] + 1 /\ "departed" \in happened'
     \/ count'["depart"] = count["depart"] /\ phase[n] # "up"

LEMMA CountOther ==
  ASSUME TypeOK, NEW e \in {"write", "remove", "fetch", "join"}, Count(e)
  PROVE  count'["depart"] = count["depart"]
  BY CountType, Zenon DEF Events

LEMMA StoreGrows ==
  ASSUME TypeOK, NEW n \in Nodes, NEW v, v >= hot[n], hot' = hot \/ hot' = [hot EXCEPT ![n] = v]
  PROVE  \A p \in Nodes : hot'[p] >= hot[p]
  <1>1. hot \in [Nodes -> Nat]
    BY Zenon DEF TypeOK
  <1>2. \A p \in Nodes : hot[p] >= hot[p]
    BY <1>1
  <1>3. CASE hot' = hot
    BY <1>2, <1>3, Zenon
  <1>4. CASE hot' = [hot EXCEPT ![n] = v]
    BY <1>1, <1>2, <1>4, Zenon
  <1> QED
    BY <1>3, <1>4, Zenon

LEMMA SendGrows ==
  ASSUME TypeOK, BusyOK, NEW n \in Nodes, SendOne(n)
  PROVE  \A p \in Nodes : hot'[p] >= hot[p]
  <1>1. PICK v \in Nat, S \in SUBSET Nodes : sending[n].version = v /\ sending[n].peers = S
    BY Zenon DEF TypeOK
  <1>2. Nearest(S) \in Nodes
    BY <1>1, NearestFacts, Zenon DEF SendOne, BusyOK
  <1>3. \/ hot' = hot
        \/ hot' = [hot EXCEPT ![Nearest(S)] = PutWithVersion(hot[Nearest(S)], v)]
    BY <1>1, Zenon DEF SendOne, Replicate
  <1>4. PutWithVersion(hot[Nearest(S)], v) >= hot[Nearest(S)]
    BY <1>2, VersionFacts, Zenon DEF TypeOK
  <1> QED
    BY <1>2, <1>3, <1>4, StoreGrows, Zenon

LEMMA ReadmitGrows ==
  ASSUME TypeOK, NEW h \in Handlers, Readmit(h)
  PROVE  \A p \in Nodes : hot'[p] >= hot[p]
  <1>1. PICK n \in Nodes, v \in Nat : rpc[h].node = n /\ rpc[h].version = v
    BY Zenon DEF TypeOK
  <1>2. hot' = hot \/ hot' = [hot EXCEPT ![n] = PutWithVersion(hot[n], v)]
    BY <1>1, Zenon DEF Readmit
  <1>3. PutWithVersion(hot[n], v) >= hot[n]
    BY VersionFacts, Zenon DEF TypeOK
  <1> QED
    BY <1>2, <1>3, StoreGrows, Zenon

LEMMA HandlerQuiet ==
  ASSUME TypeOK, BusyOK, NEW h \in Handlers,
         Write(h) \/ FetchMiss(h) \/ Enqueue(h) \/ ColdGet(h) \/ Readmit(h)
  PROVE  QuietStep
  <1>0. \A n \in Nodes : hot[n] \in Nat /\ hot[n] >= hot[n]
    BY DEF TypeOK
  <1>1. CASE Write(h)
    <2>1. Nearest(OwnerConns) \in Nodes
      BY <1>1, ViewFacts, NearestFacts, Zenon DEF Write
    <2>2. hot' = [hot EXCEPT ![Nearest(OwnerConns)] = Put(hot[Nearest(OwnerConns)])]
      BY <1>1, Zenon DEF Write
    <2>3. Put(hot[Nearest(OwnerConns)]) >= hot[Nearest(OwnerConns)]
      BY <1>0, <2>1 DEF Put
    <2>4. \A p \in Nodes : hot'[p] >= hot[p]
      BY <2>1, <2>2, <2>3, StoreGrows, Zenon
    <2>5. count'["depart"] = count["depart"]
      BY <1>1, CountOther, Zenon DEF Write
    <2> QED
      BY <1>1, <2>4, <2>5, Zenon DEF Write, QuietStep
  <1>2. CASE FetchMiss(h)
    <2>1. count'["depart"] = count["depart"]
      BY <1>2, CountOther, Zenon DEF FetchMiss
    <2> QED
      BY <1>0, <1>2, <2>1, Zenon DEF FetchMiss, QuietStep
  <1>3. CASE Enqueue(h)
    BY <1>0, <1>3, Zenon DEF Enqueue, QuietStep, Record
  <1>4. CASE ColdGet(h)
    BY <1>0, <1>4, Zenon DEF ColdGet, QuietStep
  <1>5. CASE Readmit(h)
    <2>1. \A p \in Nodes : hot'[p] >= hot[p]
      BY <1>5, ReadmitGrows, Zenon
    <2> QED
      BY <1>5, <2>1, Zenon DEF Readmit, QuietStep
  <1> QED
    BY <1>1, <1>2, <1>3, <1>4, <1>5, Zenon

LEMMA BackgroundQuiet ==
  ASSUME TypeOK, BusyOK, NEW n \in Nodes,
         \/ Evict(n) \/ Spill(n) \/ Forward(n) \/ SendOne(n)
         \/ \E w \in SpillWorkers : TakeJob(n, w) \/ PutObject(n, w)
  PROVE  QuietStep
  <1>0. \A p \in Nodes : hot[p] \in Nat /\ hot[p] >= hot[p]
    BY DEF TypeOK
  <1>1. CASE Evict(n) \/ Spill(n)
    <2>1. Count("remove")
      BY <1>1, Zenon DEF Evict, Spill
    <2>2. count'["depart"] = count["depart"]
      BY <2>1, CountOther, Zenon
    <2> QED
      BY <1>1, <2>2, Zenon DEF Evict, Spill, QuietStep, Record
  <1>2. CASE Forward(n)
    BY <1>0, <1>2, Zenon DEF Forward, QuietStep
  <1>3. CASE SendOne(n)
    <2>1. \A p \in Nodes : hot'[p] >= hot[p]
      BY <1>3, SendGrows, Zenon
    <2> QED
      BY <1>3, <2>1, Zenon DEF SendOne, QuietStep, Record
  <1>4. ASSUME NEW w \in SpillWorkers, TakeJob(n, w) \/ PutObject(n, w)
        PROVE  QuietStep
    BY <1>0, <1>4, Zenon DEF TakeJob, PutObject, QuietStep, Record
  <1> QED
    BY <1>1, <1>2, <1>3, <1>4, Zenon

LEMMA LifeSteps ==
  ASSUME TypeOK, BusyOK, NEW n \in Nodes,
         \/ SpillAfterClose(n) \/ GracefulStop(n) \/ Close(n) \/ Exit(n) \/ Release(n)
         \/ Crash(n) \/ Hang(n) \/ Resume(n) \/ LeaseExpires(n) \/ Start(n)
  PROVE  LifeStep(n)
  <1>1. \/ snapshots' = snapshots
        \/ \E M \in SUBSET Nodes : Members \ {n} \subseteq M /\ snapshots' = Append(snapshots, M)
    <2>1. DeleteMember(n) \/ PutMember(n) \/ snapshots' = snapshots
      BY Zenon DEF SpillAfterClose, GracefulStop, Close, Exit, Release, Crash, Hang, Resume, LeaseExpires, Start
    <2> QED
      BY <2>1, SnapshotTypes, Zenon
  <1>2. happened \subseteq happened'
    BY Zenon DEF SpillAfterClose, GracefulStop, Close, Exit, Release, Crash, Hang, Resume, LeaseExpires,
           Start, Record
  <1>3. \/ count'["depart"] = count["depart"] + 1 /\ "departed" \in happened'
        \/ count'["depart"] = count["depart"] /\ phase[n] # "up"
    <2>1. \/ Count("depart") /\ Record({"departed"})
          \/ phase[n] # "up" /\ (count' = count \/ Count("remove") \/ Count("join"))
      BY Zenon DEF SpillAfterClose, GracefulStop, Close, Exit, Release, Crash, Hang, Resume, LeaseExpires, Start
    <2>2. ASSUME Count("depart") PROVE count'["depart"] = count["depart"] + 1
      BY <2>2, CountType, Zenon DEF Events
    <2> QED
      BY <2>1, <2>2, CountOther, Zenon DEF Record
  <1>4. /\ \A p \in Nodes \ {n} : phase'[p] = phase[p] /\ hot'[p] = hot[p]
        /\ \A r \in Routers \ {n} : seen'[r] = seen[r]
    <2>1. CASE Vanish(n)
      BY <2>1, Zenon DEF Vanish, TypeOK
    <2>2. CASE ~Vanish(n)
      <3>1. hot' = hot /\ seen' = seen
        BY <2>2, Zenon DEF SpillAfterClose, GracefulStop, Close, Exit, Release, Crash, Hang, Resume,
                    LeaseExpires, Start
      <3>2. phase' = phase \/ \E v : phase' = [phase EXCEPT ![n] = v]
        BY <2>2, Zenon DEF SpillAfterClose, GracefulStop, Close, Exit, Release, Crash, Hang, Resume,
                    LeaseExpires, Start
      <3> QED
        BY <3>1, <3>2, Zenon DEF TypeOK
    <2> QED
      BY <2>1, <2>2, Zenon
  <1> QED
    BY <1>1, <1>2, <1>3, <1>4, Zenon DEF LifeStep

LEMMA StepKinds ==
  ASSUME TypeOK, BusyOK, [Next]_vars
  PROVE  QuietStep \/ DriveStep \/ \E n \in Nodes : LifeStep(n)
  <1>1. ASSUME NEW r \in Routers, DriveRouter(r) PROVE DriveStep
    <2>1. seen \in [Routers -> 0..Len(snapshots)] /\ Len(snapshots) \in Nat \ {0}
      BY ViewFacts, Zenon DEF TypeOK
    <2>2. seen[r] \in Nat
      BY <2>1
    <2>3. seen'[r] # 0 /\ \A q \in Routers \ {r} : seen'[q] = seen[q]
      BY <1>1, <2>1, <2>2 DEF DriveRouter
    <2> QED
      BY <1>1, <2>3, Zenon DEF DriveRouter, DriveStep
  <1>2. CASE UNCHANGED vars
    <2>1. \A n \in Nodes : hot[n] >= hot[n]
      BY DEF TypeOK
    <2> QED
      BY <1>2, <2>1, Zenon DEF vars, QuietStep, memberVars
  <1> QED
    BY <1>1, <1>2, HandlerQuiet, BackgroundQuiet, LifeSteps, Zenon
    DEF Next, Step, HandlerStep, ReplicatorStep, WorkerStep, ShutdownStep

LEMMA StepLeaving ==
  ASSUME TypeOK, BusyOK, LeavingOK, [Next]_vars
  PROVE  LeavingOK'
  <1>0. count["depart"] \in Nat
    BY Zenon DEF TypeOK, Events
  <1>1. CASE QuietStep
    BY <1>1, Zenon DEF QuietStep, LeavingOK, FullRing, memberVars
  <1>2. CASE DriveStep
    <2>1. count["depart"] # 0
      <3>1. SUFFICES ASSUME FullRing PROVE FALSE
        BY Zenon DEF LeavingOK
      <3>2. Len(snapshots) = 1 /\ \A r \in Routers : seen[r] = 1
        BY <3>1, Zenon DEF FullRing
      <3> QED
        BY <1>2, <3>2 DEF DriveStep
    <2> QED
      BY <1>2, <2>1, Zenon DEF DriveStep, LeavingOK
  <1>3. ASSUME NEW n \in Nodes, LifeStep(n) PROVE LeavingOK'
    <2>1. CASE count'["depart"] = count["depart"] + 1 /\ "departed" \in happened'
      BY <1>0, <2>1 DEF LeavingOK
    <2>2. CASE count'["depart"] = count["depart"] /\ phase[n] # "up"
      <3>1. count["depart"] # 0
        BY <2>2, Zenon DEF LeavingOK, FullRing
      <3> QED
        BY <1>3, <2>2, <3>1, Zenon DEF LifeStep, LeavingOK
    <2> QED
      BY <1>3, <2>1, <2>2, Zenon DEF LifeStep
  <1> QED
    BY <1>1, <1>2, <1>3, StepKinds, Zenon

\* What all owners have held, the owners among some nodes still hold.
LEMMA StillHeld ==
  ASSUME TypeOK, hot' \in [Nodes -> Nat], Remember \/ safe' = safe,
         NEW S \in SUBSET Owners, HeldBy(S),
         "removed" \notin happened' =>
           "removed" \notin happened /\ \A n \in S : hot'[n] >= hot[n]
  PROVE  HeldBy(S)'
  <1> SUFFICES ASSUME "removed" \notin happened', NEW n \in S PROVE hot'[n] >= safe'
    BY Zenon DEF HeldBy
  <1>1. n \in Nodes /\ n \in Owners /\ hot[n] \in Nat /\ hot'[n] \in Nat /\ safe \in Nat
    BY PrimaryFacts, Zenon DEF TypeOK
  <1>2. hot'[n] >= hot[n] /\ hot[n] >= safe
    BY Zenon DEF HeldBy
  <1>3. CASE safe' = safe
    BY <1>1, <1>2, <1>3
  <1>4. CASE Remember
    BY <1>1, <1>2, <1>4, RememberFacts
  <1> QED
    BY <1>3, <1>4, Zenon

LEMMA FullRingOneGone ==
  ASSUME FullRing, NEW x
  PROVE  OneGone(x)
  <1>1. Len(snapshots) = 1 /\ snapshots[1] = Nodes
    BY Zenon DEF FullRing
  <1> QED
    BY <1>1 DEF FullRing, OneGone

\* A step of the one node that has left, or is leaving, changes nothing for the others.
LEMMA StepOneGone ==
  ASSUME TypeOK, BusyOK, NEW x \in Nodes, OneGone(x), LifeStep(x)
  PROVE  OneGone(x)'
  <1>1. snapshots \in Seq(SUBSET Nodes) /\ Len(snapshots) \in Nat \ {0}
    BY ViewFacts, Zenon DEF TypeOK
  <1>2. Nodes \ {x} \subseteq Members
    BY <1>1 DEF OneGone, Members
  <1>3. ASSUME NEW M \in SUBSET Nodes, Members \ {x} \subseteq M, snapshots' = Append(snapshots, M),
               NEW i \in 1..Len(snapshots')
        PROVE  Nodes \ {x} \subseteq snapshots'[i]
    <2>1. i \in 1..(Len(snapshots) + 1)
      BY <1>1, <1>3
    <2>2. snapshots'[i] = IF i = Len(snapshots) + 1 THEN M ELSE snapshots[i]
      BY <1>1, <1>3, <2>1
    <2>3. i # Len(snapshots) + 1 => i \in 1..Len(snapshots)
      BY <1>1, <2>1
    <2> QED
      BY <1>2, <1>3, <2>2, <2>3, Zenon DEF OneGone
  <1>4. \A i \in 1..Len(snapshots') : Nodes \ {x} \subseteq snapshots'[i]
    <2>1. CASE snapshots' = snapshots
      BY <2>1, Zenon DEF OneGone
    <2> QED
      BY <1>3, <2>1, Zenon DEF LifeStep
  <1> QED
    BY <1>4, Zenon DEF OneGone, LifeStep

LEMMA StepSafe ==
  ASSUME TypeOK, BusyOK, LeavingOK, SafeOK, TypeOK', [Next]_vars
  PROVE  SafeOK'
  <1>0. /\ hot \in [Nodes -> Nat] /\ hot' \in [Nodes -> Nat] /\ (Remember \/ safe' = safe)
        /\ count["depart"] \in Nat /\ Owners \in SUBSET Owners /\ Owners \subseteq Nodes
        /\ \A x : Owners \ {x} \in SUBSET Owners
    BY StepTypes, PrimaryFacts, Zenon DEF TypeOK, Events
  <1>1. CASE QuietStep
    <2>1. ASSUME NEW S \in SUBSET Owners, HeldBy(S) PROVE HeldBy(S)'
      BY <1>0, <1>1, <2>1, StillHeld, Zenon DEF QuietStep
    <2>2. ASSUME NEW x \in Nodes, OneGone(x) PROVE OneGone(x)'
      BY <1>1, <2>2, Zenon DEF QuietStep, OneGone, memberVars
    <2>3. count'["depart"] = count["depart"]
      BY <1>1, Zenon DEF QuietStep
    <2>4. ASSUME count'["depart"] = 0 PROVE HeldBy(Owners)'
      BY <1>0, <2>1, <2>3, <2>4, Zenon DEF SafeOK
    <2>5. ASSUME count'["depart"] = 1 PROVE \E x \in Nodes : OneGone(x)' /\ HeldBy(Owners \ {x})'
      <3>1. PICK x \in Nodes : OneGone(x) /\ HeldBy(Owners \ {x})
        BY <2>3, <2>5, Zenon DEF SafeOK
      <3> QED
        BY <1>0, <2>1, <2>2, <3>1, Zenon
    <2> QED
      BY <2>4, <2>5, Zenon DEF SafeOK
  <1>2. CASE DriveStep
    <2>1. \A n \in Nodes : hot'[n] >= hot[n]
      BY <1>0, <1>2 DEF DriveStep
    <2>2. ASSUME NEW S \in SUBSET Owners, HeldBy(S) PROVE HeldBy(S)'
      BY <1>0, <1>2, <2>1, <2>2, StillHeld, Zenon DEF DriveStep
    <2>3. ASSUME NEW x \in Nodes, OneGone(x) PROVE OneGone(x)'
      BY <1>2, <2>3, Zenon DEF DriveStep, OneGone
    <2>4. count'["depart"] = count["depart"]
      BY <1>2, Zenon DEF DriveStep
    <2>5. ASSUME count'["depart"] = 0 PROVE HeldBy(Owners)'
      BY <1>0, <2>2, <2>4, <2>5, Zenon DEF SafeOK
    <2>6. ASSUME count'["depart"] = 1 PROVE \E x \in Nodes : OneGone(x)' /\ HeldBy(Owners \ {x})'
      <3>1. PICK x \in Nodes : OneGone(x) /\ HeldBy(Owners \ {x})
        BY <2>4, <2>6, Zenon DEF SafeOK
      <3> QED
        BY <1>0, <2>2, <2>3, <3>1, Zenon
    <2> QED
      BY <2>5, <2>6, Zenon DEF SafeOK
  <1>3. ASSUME NEW n \in Nodes, LifeStep(n) PROVE SafeOK'
    <2>1. ASSUME HeldBy(Owners \ {n}) PROVE HeldBy(Owners \ {n})'
      <3>1. \A p \in Owners \ {n} : hot'[p] >= hot[p]
        BY <1>0, <1>3 DEF LifeStep
      <3> QED
        BY <1>0, <1>3, <2>1, <3>1, StillHeld, Zenon DEF LifeStep
    <2>2. CASE count["depart"] = 0
      <3>1. FullRing /\ HeldBy(Owners)
        BY <2>2, Zenon DEF LeavingOK, SafeOK
      <3>2. count'["depart"] = 1
        BY <1>0, <1>3, <2>2, <3>1 DEF LifeStep, FullRing
      <3>3. OneGone(n)'
        BY <1>3, <3>1, FullRingOneGone, StepOneGone, Zenon
      <3>4. HeldBy(Owners \ {n})'
        BY <2>1, <3>1, Zenon DEF HeldBy
      <3> QED
        BY <3>2, <3>3, <3>4 DEF SafeOK
    <2>3. CASE count["depart"] = 1 /\ count'["depart"] = 1
      <3>1. PICK x \in Nodes : OneGone(x) /\ HeldBy(Owners \ {x})
        BY <2>3, Zenon DEF SafeOK
      <3>2. phase[n] # "up"
        BY <1>3, <2>3 DEF LifeStep
      <3>3. n = x
        BY <3>1, <3>2, Zenon DEF OneGone
      <3>4. OneGone(n)' /\ HeldBy(Owners \ {n})'
        BY <1>3, <2>1, <3>1, <3>3, StepOneGone, Zenon
      <3> QED
        BY <2>3, <3>4 DEF SafeOK
    <2>4. CASE count["depart"] # 0 /\ ~(count["depart"] = 1 /\ count'["depart"] = 1)
      <3>1. count'["depart"] \notin {0, 1}
        BY <1>0, <1>3, <2>4 DEF LifeStep
      <3> QED
        BY <3>1, Zenon DEF SafeOK
    <2> QED
      BY <2>2, <2>3, <2>4, Zenon
  <1> QED
    BY <1>1, <1>2, <1>3, StepKinds, Zenon

\* The owner that did not leave is an owner in every ring a client may have.
LEMMA SafeMeaning ==
  ASSUME RF >= 2, \E n, p \in Nodes : n # p, TypeOK, BusyOK, LeavingOK, SafeOK
  PROVE  SurvivesOneLoss
  <1> SUFFICES ASSUME "removed" \notin happened, count["depart"] <= 1
               PROVE  \E n \in OwnerConns : Serving(n) /\ hot[n] >= safe
    BY Zenon DEF SurvivesOneLoss
  <1>1. PICK x \in Nodes : OneGone(x) /\ HeldBy(Owners \ {x})
    <2>1. count["depart"] = 0 \/ count["depart"] = 1
      BY DEF TypeOK, Events
    <2>2. CASE count["depart"] = 0
      BY <2>2, FullRingOneGone, ReplicationAssumption, Zenon DEF LeavingOK, SafeOK, HeldBy
    <2> QED
      BY <2>1, <2>2, Zenon DEF SafeOK
  <1>2. PICK n \in Owners \ {x} : TRUE
    BY TwoOwners, Zenon
  <1>3. n \in Nodes /\ phase[n] = "up" /\ hot[n] >= safe
    BY <1>1, <1>2, PrimaryFacts, Zenon DEF OneGone, HeldBy
  <1>4. View(ClientRouter) \in SUBSET Nodes /\ n \in View(ClientRouter)
    <2>1. ClientRouter \in Routers \ {x} /\ seen[ClientRouter] # 0
      BY <1>1, ReplicationAssumption, Zenon DEF OneGone, Routers
    <2>2. seen[ClientRouter] \in 1..Len(snapshots)
      <3>1. seen[ClientRouter] \in 0..Len(snapshots) /\ Len(snapshots) \in Nat
        BY <2>1, ViewFacts, Zenon DEF TypeOK
      <3> QED
        BY <2>1, <3>1
    <2> QED
      BY <1>1, <1>2, <1>3, <2>1, <2>2, ViewFacts, Zenon DEF View, OneGone
  <1>5. n \in OwnerConns
    BY <1>2, <1>4, OwnersRemain, Zenon DEF OwnerConns
  <1> QED
    BY <1>3, <1>5, Zenon DEF Serving

-----------------------------------------------------------------------------
(* Demotion loses nothing.                                                 *)

Somewhere ==
  \/ bucket # 0
  \/ \E n \in Nodes : hot[n] # 0 \/ jobs[n] # <<>>
                      \/ \E w \in SpillWorkers : putting[n][w] # 0
Undisturbed == happened \cap {"departed", "spillDropped", "putError", "deleted"} = {}

LEMMA SomewhereStays ==
  ASSUME TypeOK, Somewhere, UNCHANGED <<bucket, jobs, putting>>,
         \A n \in Nodes : hot'[n] >= hot[n]
  PROVE  Somewhere'
  <1>1. \A n \in Nodes : hot[n] # 0 => hot'[n] # 0
    <2> SUFFICES ASSUME NEW n \in Nodes, hot[n] # 0 PROVE hot'[n] # 0
      BY Zenon
    <2>1. hot[n] \in Nat /\ hot'[n] >= hot[n]
      BY Zenon DEF TypeOK
    <2> QED
      BY <2>1
  <1> QED
    BY <1>1, Zenon DEF Somewhere

LEMMA HandlerLoses ==
  ASSUME TypeOK, BusyOK, NothingLost, count'["write"] > 0, Undisturbed', NEW h \in Handlers,
         Write(h) \/ FetchMiss(h) \/ Enqueue(h) \/ ColdGet(h) \/ Readmit(h)
  PROVE  Somewhere'
  <1>1. CASE Write(h)
    <2>1. Nearest(OwnerConns) \in Nodes
      BY <1>1, ViewFacts, NearestFacts, Zenon DEF Write
    <2>2. hot \in [Nodes -> Nat] /\ Put(hot[Nearest(OwnerConns)]) # 0
      BY <2>1, VersionFacts, Zenon DEF TypeOK
    <2>3. hot'[Nearest(OwnerConns)] # 0
      BY <1>1, <2>1, <2>2, Zenon DEF Write
    <2> QED
      BY <2>1, <2>3, Zenon DEF Somewhere
  <1>2. CASE FetchMiss(h) \/ Enqueue(h) \/ ColdGet(h) \/ Readmit(h)
    <2>1. count'["write"] = count["write"]
      <3>1. count' = count \/ Count("fetch")
        BY <1>2, Zenon DEF FetchMiss, Enqueue, ColdGet, Readmit
      <3> QED
        BY <3>1, CountType, Zenon DEF Events
    <2>2. happened \subseteq happened'
      BY <1>2, Zenon DEF FetchMiss, Enqueue, ColdGet, Readmit, Record
    <2>3. Somewhere
      BY <2>1, <2>2, Zenon DEF NothingLost, Undisturbed, Somewhere
    <2>4. \A n \in Nodes : hot'[n] >= hot[n]
      <3>1. CASE ~Readmit(h)
        BY <1>2, <3>1 DEF FetchMiss, Enqueue, ColdGet, TypeOK
      <3>2. CASE Readmit(h)
        BY <3>2, ReadmitGrows, Zenon
      <3> QED
        BY <3>1, <3>2, Zenon
    <2>5. UNCHANGED <<bucket, jobs, putting>>
      BY <1>2, Zenon DEF FetchMiss, Enqueue, ColdGet, Readmit, nodeVars
    <2> QED
      BY <2>3, <2>4, <2>5, SomewhereStays, Zenon
  <1> QED
    BY <1>1, <1>2, Zenon

LEMMA BackgroundLoses ==
  ASSUME TypeOK, BusyOK, NothingLost, count'["write"] > 0, Undisturbed', NEW n \in Nodes,
         \/ Evict(n) \/ Spill(n) \/ Forward(n) \/ SendOne(n)
         \/ \E w \in SpillWorkers : TakeJob(n, w) \/ PutObject(n, w)
  PROVE  Somewhere'
  <1>0. /\ hot \in [Nodes -> Nat] /\ jobs \in [Nodes -> Seq(Nat \ {0})]
        /\ putting \in [Nodes -> [SpillWorkers -> Nat]]
    BY Zenon DEF TypeOK
  <1>1. CASE Evict(n)
    BY <1>1, Zenon DEF Evict, Record, Undisturbed
  <1>2. CASE Spill(n)
    <2>1. jobs' = [jobs EXCEPT ![n] = Append(jobs[n], hot[n])]
      BY <1>2, Zenon DEF Spill, Record, Undisturbed
    <2>2. jobs[n] \in Seq(Nat \ {0})
      BY <1>0, Zenon
    <2>3. Append(jobs[n], hot[n]) # <<>>
      <3>1. Len(Append(jobs[n], hot[n])) = Len(jobs[n]) + 1 /\ Len(jobs[n]) \in Nat
        BY <2>2
      <3>2. Len(Append(jobs[n], hot[n])) # 0
        BY <3>1
      <3>3. Len(<<>>) = 0
        BY Zenon
      <3> QED
        BY <3>2, <3>3, Zenon
    <2> QED
      BY <1>0, <2>1, <2>3, Zenon DEF Somewhere
  <1>3. CASE Forward(n) \/ SendOne(n)
    <2>1. count' = count /\ happened \subseteq happened' /\ UNCHANGED <<bucket, jobs, putting>>
      BY <1>3, Zenon DEF Forward, SendOne, Record
    <2>2. Somewhere
      BY <2>1, Zenon DEF NothingLost, Undisturbed, Somewhere
    <2>4. \A p \in Nodes : hot'[p] >= hot[p]
      <3>1. CASE Forward(n)
        BY <1>0, <3>1 DEF Forward
      <3>2. CASE SendOne(n)
        BY <3>2, SendGrows, Zenon
      <3> QED
        BY <1>3, <3>1, <3>2, Zenon
    <2> QED
      BY <2>1, <2>2, <2>4, SomewhereStays, Zenon
  <1>4. ASSUME NEW w \in SpillWorkers, TakeJob(n, w) PROVE Somewhere'
    <2>1. jobs[n] # <<>> /\ putting' = [putting EXCEPT ![n][w] = Head(jobs[n])]
      BY <1>4, Zenon DEF TakeJob
    <2>2. jobs[n] \in Seq(Nat \ {0})
      BY <1>0, Zenon
    <2>3. Head(jobs[n]) # 0
      BY <2>1, <2>2
    <2>4. putting'[n][w] # 0
      BY <1>0, <2>1, <2>3, Zenon
    <2> QED
      BY <2>4, Zenon DEF Somewhere
  <1>5. ASSUME NEW w \in SpillWorkers, PutObject(n, w) PROVE Somewhere'
    BY <1>5, Zenon DEF PutObject, Record, Undisturbed, Somewhere
  <1> QED
    BY <1>1, <1>2, <1>3, <1>4, <1>5, Zenon

LEMMA StepNothingLost ==
  ASSUME TypeOK, BusyOK, LeavingOK, NothingLost, [Next]_vars
  PROVE  NothingLost'
  <1> SUFFICES ASSUME count'["write"] > 0, Undisturbed' PROVE Somewhere'
    BY Zenon DEF NothingLost, Undisturbed, Somewhere
  <1>1. ASSUME NEW n \in Nodes PROVE ~LifeStep(n)
    <2> SUFFICES ASSUME LifeStep(n) PROVE FALSE
      BY Zenon
    <2>1. "departed" \notin happened /\ phase[n] # "up"
      BY Zenon DEF LifeStep, Undisturbed
    <2> QED
      BY <2>1, Zenon DEF LeavingOK, FullRing
  <1>2. CASE (\E r \in Routers : DriveRouter(r)) \/ UNCHANGED vars
    <2>1. UNCHANGED <<hot, bucket, jobs, putting, count, happened>>
      BY <1>2, Zenon DEF DriveRouter, vars, nodeVars
    <2> QED
      BY <2>1, Zenon DEF NothingLost, Undisturbed, Somewhere
  <1> QED
    BY <1>1, <1>2, HandlerLoses, BackgroundLoses, LifeSteps, Zenon
    DEF Next, Step, HandlerStep, ReplicatorStep, WorkerStep, ShutdownStep

-----------------------------------------------------------------------------
(* The replicas catch up.                                                  *)

\* In the full ring every router names the same owners.
LEMMA FullRingOwners ==
  ASSUME FullRing
  PROVE  \A r \in Routers : OwnersN(View(r)) = Owners
  <1>1. snapshots[1] = Nodes
    BY Zenon DEF FullRing
  <1> QED
    BY <1>1 DEF FullRing, View, Owners

\* A handler that has nothing to enqueue comes or goes.
LEMMA CaughtUpStays ==
  ASSUME CaughtUp, UNCHANGED <<hot, queue, sending, jobs, putting, bucket>>,
         \A h \in Handlers : \/ rpc'[h] = rpc[h]
                             \/ rpc[h].at # "enqueue" /\ rpc'[h].at \notin {"enqueue", "readmit"}
  PROVE  CaughtUp'
  <1>1. NothingSpilled'
    BY Zenon DEF CaughtUp, NothingSpilled
  <1>2. OneMints'
    BY Zenon DEF CaughtUp, OneMints
  <1>3. LatestIs(hot[Primary])'
    BY Zenon DEF CaughtUp, LatestIs
  <1>4. OnItsWay(hot[Primary])'
    BY Zenon DEF CaughtUp, OnItsWay, ToBeSent, BeingSent
  <1> QED
    BY <1>1, <1>2, <1>3, <1>4, Zenon DEF CaughtUp

LEMMA AtMostNext ==
  ASSUME NEW a \in Nat, NEW b \in Nat, a <= b
  PROVE  a <= b + 1
  OBVIOUS

\* A write mints the version after the newest, and queues it for the peers.
LEMMA WriteCatchesUp ==
  ASSUME TypeOK, BusyOK, FullRing, CaughtUp, NEW h \in Handlers, Write(h)
  PROVE  CaughtUp'
  <1>1. PICK V \in Nat : V = hot[Primary]
    BY PrimaryFacts, Zenon DEF TypeOK
  <1>2. Nearest(OwnerConns) = Primary
    BY FullRingOwners, Zenon DEF OwnerConns, Routers, Primary
  <1>3. /\ hot' = [hot EXCEPT ![Primary] = V + 1]
        /\ rpc' = [rpc EXCEPT ![h] = [at |-> "enqueue", node |-> Primary, version |-> V + 1]]
        /\ UNCHANGED <<queue, sending, jobs, putting, bucket>>
    BY <1>1, <1>2, Zenon DEF Write, Put, nodeVars
  <1>4. /\ \A n \in Nodes : hot[n] \in Nat
        /\ hot'[Primary] = V + 1 /\ \A n \in Nodes : n # Primary => hot'[n] = hot[n]
    BY <1>3, PrimaryFacts, Zenon DEF TypeOK
  <1>5. /\ rpc'[h].at = "enqueue" /\ rpc'[h].node = Primary /\ rpc'[h].version = V + 1
        /\ \A g \in Handlers : g # h => rpc'[g] = rpc[g]
    BY <1>3, Zenon DEF TypeOK
  <1>6. NothingSpilled' /\ OneMints'
    BY <1>3, <1>5, Zenon DEF CaughtUp, NothingSpilled, OneMints
  <1>7. LatestIs(V + 1)'
    <2>1. /\ \A g \in Handlers : rpc[g].version \in Nat
          /\ \A i \in 1..Len(queue[Primary]) : queue[Primary][i] \in Nat
          /\ sending[Primary].version \in Nat
      BY PrimaryFacts DEF TypeOK
    <2>2. LatestIs(V)
      BY <1>1, Zenon DEF CaughtUp
    <2>2a. V <= V + 1 /\ V + 1 <= V + 1 /\ V + 1 \in Nat
      OBVIOUS
    <2>3. \A n \in Nodes : hot'[n] <= V + 1
      BY <1>1, <1>4, <2>2, <2>2a, AtMostNext, Zenon DEF LatestIs
    <2>4. \A g \in Handlers : rpc'[g].at = "enqueue" => rpc'[g].version <= V + 1
      BY <1>1, <1>5, <2>1, <2>2, <2>2a, AtMostNext, Zenon DEF LatestIs
    <2>5. /\ \A i \in 1..Len(queue'[Primary]) : queue'[Primary][i] <= V + 1
          /\ sending'[Primary].version <= V + 1
      BY <1>1, <1>3, <2>1, <2>2, AtMostNext, Zenon DEF LatestIs
    <2> QED
      BY <2>3, <2>4, <2>5, Zenon DEF LatestIs
  <1>8. OnItsWay(V + 1)'
    BY <1>5, Zenon DEF OnItsWay, ToBeSent
  <1> QED
    BY <1>4, <1>6, <1>7, <1>8, Zenon DEF CaughtUp

LEMMA EnqueueCatchesUp ==
  ASSUME TypeOK, BusyOK, CaughtUp, "dropped" \notin happened', NEW h \in Handlers, Enqueue(h)
  PROVE  CaughtUp'
  <1>1. PICK V \in Nat : V = hot[Primary] /\ V = hot'[Primary]
    BY PrimaryFacts, Zenon DEF TypeOK, Enqueue
  <1>2. PICK v \in Nat, Q \in Seq(Nat \ {0}) : v = rpc[h].version /\ Q = queue[Primary]
    BY PrimaryFacts, Zenon DEF TypeOK
  <1>3. /\ rpc[h].at = "enqueue" /\ rpc[h].node = Primary /\ v <= V
    BY <1>1, <1>2, Zenon DEF Enqueue, CaughtUp, OneMints, LatestIs
  <1>4. /\ queue' = [queue EXCEPT ![Primary] = Append(Q, v)]
        /\ rpc' = [rpc EXCEPT ![h] = Idle]
        /\ UNCHANGED <<hot, sending, jobs, putting, bucket>>
    BY <1>2, <1>3, Zenon DEF Enqueue, Record
  <1>5. /\ queue'[Primary] = Append(Q, v) /\ \A n \in Nodes : n # Primary => queue'[n] = queue[n]
        /\ rpc'[h].at = "idle" /\ \A g \in Handlers : g # h => rpc'[g] = rpc[g]
    BY <1>4, PrimaryFacts, IdleFacts, Zenon DEF TypeOK
  <1>6. /\ Len(Append(Q, v)) = Len(Q) + 1 /\ Len(Q) \in Nat
        /\ \A i \in 1..Len(Q) : Append(Q, v)[i] = Q[i]
        /\ Append(Q, v)[Len(Q) + 1] = v
    OBVIOUS
  <1>7. NothingSpilled' /\ OneMints'
    BY <1>4, <1>5, Zenon DEF CaughtUp, NothingSpilled, OneMints
  <1>8. LatestIs(V)'
    <2>1. LatestIs(V)
      BY <1>1, Zenon DEF CaughtUp
    <2>2. \A i \in 1..Len(queue'[Primary]) : queue'[Primary][i] <= V
      <3> SUFFICES ASSUME NEW i \in 1..Len(Append(Q, v)) PROVE Append(Q, v)[i] <= V
        BY <1>5, Zenon
      <3>1. i \in 1..Len(Q) \/ i = Len(Q) + 1
        BY <1>6
      <3> QED
        BY <1>2, <1>3, <1>6, <2>1, <3>1, Zenon DEF LatestIs
    <2> QED
      BY <1>4, <1>5, <2>1, <2>2, Zenon DEF LatestIs
  <1>9. OnItsWay(V)'
    <2>1. ToBeSent(V) => ToBeSent(V)'
      <3>1. 1..Len(Q) \subseteq 1..(Len(Q) + 1) /\ Len(Q) + 1 \in 1..(Len(Q) + 1)
        BY <1>6
      <3>2. ASSUME NEW g \in Handlers, rpc[g].at = "enqueue", rpc[g].version = V
            PROVE  ToBeSent(V)'
        <4>1. CASE g = h
          BY <1>2, <1>5, <1>6, <3>1, <3>2, <4>1, Zenon DEF ToBeSent
        <4>2. CASE g # h
          BY <1>5, <3>2, <4>2, Zenon DEF ToBeSent
        <4> QED
          BY <4>1, <4>2, Zenon
      <3>3. ASSUME NEW i \in 1..Len(Q), Q[i] = V PROVE ToBeSent(V)'
        BY <1>5, <1>6, <3>1, <3>3, Zenon DEF ToBeSent
      <3> QED
        BY <1>2, <3>2, <3>3, Zenon DEF ToBeSent
    <2> QED
      BY <1>1, <1>4, <2>1, Zenon DEF CaughtUp, OnItsWay, BeingSent
  <1> QED
    BY <1>1, <1>7, <1>8, <1>9, Zenon DEF CaughtUp

LEMMA ForwardCatchesUp ==
  ASSUME TypeOK, BusyOK, FullRing, CaughtUp, NEW n \in Nodes, Forward(n)
  PROVE  CaughtUp'
  <1>1. PICK V \in Nat : V = hot[Primary] /\ V = hot'[Primary]
    BY PrimaryFacts, Zenon DEF TypeOK, Forward
  <1>2. n = Primary /\ sending[Primary] = Waiting
    BY Zenon DEF Forward, CaughtUp, OneMints
  <1>3. PICK Q \in Seq(Nat \ {0}) : Q = queue[Primary] /\ Q # <<>>
    BY <1>2, PrimaryFacts, Zenon DEF TypeOK, Forward
  <1>4. /\ Len(Q) \in Nat \ {0} /\ Head(Q) \in Nat \ {0} /\ Head(Q) = Q[1]
        /\ Len(Tail(Q)) = Len(Q) - 1
        /\ \A i \in 1..(Len(Q) - 1) : Tail(Q)[i] = Q[i + 1]
    BY <1>3
  <1>5. PICK J : J = Job(Head(Q), Owners \ {Primary})
    BY Zenon
  <1>6. /\ queue' = [queue EXCEPT ![Primary] = Tail(Q)]
        /\ sending' = [sending EXCEPT ![Primary] = J]
        /\ UNCHANGED <<hot, rpc, jobs, putting, bucket>>
    <2>1. OwnersN(View(Primary)) = Owners
      BY FullRingOwners, PrimaryFacts, Zenon DEF Routers
    <2> QED
      BY <1>2, <1>3, <1>5, <2>1, Zenon DEF Forward
  <1>7. /\ queue'[Primary] = Tail(Q) /\ \A p \in Nodes : p # Primary => queue'[p] = queue[p]
        /\ sending'[Primary] = J /\ \A p \in Nodes : p # Primary => sending'[p] = sending[p]
    BY <1>6, PrimaryFacts, Zenon DEF TypeOK
  <1>8. J.version \in {0, Head(Q)} /\ \A p \in Owners \ {Primary} : J.version = Head(Q) /\ p \in J.peers
    <2>1. Owners \ {Primary} \in SUBSET Nodes
      BY PrimaryFacts, Zenon
    <2>2. PICK v \in Nat \ {0}, S \in SUBSET Nodes : v = Head(Q) /\ S = Owners \ {Primary}
      BY <1>4, <2>1, Zenon
    <2>3. J = Job(v, S)
      BY <1>5, <2>2, Zenon
    <2> QED
      BY <2>2, <2>3, JobFacts, IdleFacts, Zenon
  <1>9. NothingSpilled' /\ OneMints'
    BY <1>6, <1>7, Zenon DEF CaughtUp, NothingSpilled, OneMints
  <1>10. LatestIs(V)'
    <2>1. LatestIs(V)
      BY <1>1, Zenon DEF CaughtUp
    <2>2. \A i \in 1..Len(Q) : Q[i] <= V
      BY <1>3, <2>1, Zenon DEF LatestIs
    <2>3. ASSUME NEW i \in 1..Len(Tail(Q)) PROVE Tail(Q)[i] <= V
      <3>1. i \in 1..(Len(Q) - 1) /\ i + 1 \in 1..Len(Q)
        BY <1>4
      <3> QED
        BY <1>4, <2>2, <3>1, Zenon
    <2>4. J.version <= V
      <3>1. 1 \in 1..Len(Q)
        BY <1>4
      <3>2. Head(Q) <= V
        BY <1>4, <2>2, <3>1, Zenon
      <3> QED
        BY <1>8, <3>2
    <2> QED
      BY <1>6, <1>7, <2>1, <2>3, <2>4, Zenon DEF LatestIs
  <1>11. OnItsWay(V)'
    <2> SUFFICES ASSUME NEW p \in Owners \ {Primary}
                 PROVE  hot'[p] = V \/ ToBeSent(V)' \/ BeingSent(V, p)'
      BY Zenon DEF OnItsWay
    <2>1. ~BeingSent(V, p)
      BY <1>2, IdleFacts, Zenon DEF BeingSent
    <2>2. CASE hot[p] = V
      BY <1>6, <2>2, Zenon
    <2>3. ASSUME NEW g \in Handlers, rpc[g].at = "enqueue", rpc[g].version = V
          PROVE  ToBeSent(V)'
      BY <1>6, <2>3, Zenon DEF ToBeSent
    <2>4. ASSUME NEW i \in 1..Len(Q), Q[i] = V
          PROVE  ToBeSent(V)' \/ BeingSent(V, p)'
      <3>1. CASE i = 1
        BY <1>4, <1>7, <1>8, <2>4, <3>1, Zenon DEF BeingSent
      <3>2. CASE i # 1
        <4>1. i - 1 \in 1..(Len(Q) - 1) /\ (i - 1) + 1 = i /\ i - 1 \in 1..Len(Tail(Q))
          BY <1>4, <3>2
        <4>2. Tail(Q)[i - 1] = V
          BY <1>4, <2>4, <4>1, Zenon
        <4> QED
          BY <1>7, <4>1, <4>2, Zenon DEF ToBeSent
      <3> QED
        BY <3>1, <3>2, Zenon
    <2>5. hot[p] = V \/ ToBeSent(V) \/ BeingSent(V, p)
      BY <1>1, Zenon DEF CaughtUp, OnItsWay
    <2> QED
      BY <1>3, <2>1, <2>2, <2>3, <2>4, <2>5, Zenon DEF ToBeSent
  <1> QED
    BY <1>1, <1>9, <1>10, <1>11, Zenon DEF CaughtUp

LEMMA SendCatchesUp ==
  ASSUME TypeOK, BusyOK, CaughtUp, "sendError" \notin happened', NEW n \in Nodes, SendOne(n)
  PROVE  CaughtUp'
  <1>1. PICK V \in Nat : V = hot[Primary]
    BY PrimaryFacts, Zenon DEF TypeOK
  <1>2. n = Primary
    BY Zenon DEF SendOne, CaughtUp, OneMints
  <1>3. PICK v \in Nat, S \in SUBSET Nodes :
          v = sending[Primary].version /\ S = sending[Primary].peers /\ v # 0 /\ S # {}
    <2>1. sending[Primary].version \in Nat /\ sending[Primary].peers \in SUBSET Nodes
      BY PrimaryFacts, Zenon DEF TypeOK
    <2>2. sending[Primary].version # 0 /\ sending[Primary].peers # {}
      BY <1>2, PrimaryFacts, Zenon DEF SendOne, BusyOK
    <2> QED
      BY <2>1, <2>2, Zenon
  <1>4. PICK q \in Nodes : q = Nearest(S)
    BY <1>3, NearestFacts, Zenon
  <1>5. PICK u \in Nat, w \in Nat : w = hot[q] /\ u = PutWithVersion(w, v)
    <2>1. hot[q] \in Nat
      BY Zenon DEF TypeOK
    <2>2. PutWithVersion(hot[q], v) \in Nat
      BY <2>1, VersionFacts, Zenon
    <2> QED
      BY <2>1, <2>2, Zenon
  <1>6. PICK J : J = Job(v, S \ {q})
    BY Zenon
  <1>7. /\ hot' = [hot EXCEPT ![q] = u] /\ sending' = [sending EXCEPT ![Primary] = J]
        /\ UNCHANGED <<rpc, queue, jobs, putting, bucket>>
    BY <1>2, <1>3, <1>4, <1>5, <1>6, Zenon DEF SendOne, Record, Replicate, PeersLeft
  <1>8. /\ hot'[q] = u /\ \A p \in Nodes : p # q => hot'[p] = hot[p]
        /\ sending'[Primary] = J /\ \A p \in Nodes : p # Primary => sending'[p] = sending[p]
    BY <1>7, PrimaryFacts, Zenon DEF TypeOK
  <1>9. LatestIs(V) /\ v <= V /\ w <= V
    BY <1>1, <1>3, <1>5, Zenon DEF CaughtUp, LatestIs
  <1>10. u <= V /\ (w = V => u = V) /\ (v = V => u = V)
    BY <1>5, <1>9 DEF PutWithVersion
  <1>11. J.version \in {0, v} /\ \A p \in S \ {q} : J.version = v /\ p \in J.peers
    <2>1. S \ {q} \in SUBSET Nodes /\ v \in Nat \ {0}
      BY <1>3, Zenon
    <2> QED
      BY <1>6, <2>1, JobFacts, IdleFacts
  <1>12. hot'[Primary] = V
    BY <1>1, <1>5, <1>8, <1>10, PrimaryFacts, Zenon
  <1>13. NothingSpilled' /\ OneMints'
    BY <1>7, <1>8, Zenon DEF CaughtUp, NothingSpilled, OneMints
  <1>14. LatestIs(V)'
    <2>1. \A p \in Nodes : hot'[p] <= V
      BY <1>8, <1>9, <1>10, Zenon DEF LatestIs
    <2>2. J.version <= V
      BY <1>9, <1>11
    <2> QED
      BY <1>7, <1>8, <1>9, <2>1, <2>2, Zenon DEF LatestIs
  <1>15. OnItsWay(V)'
    <2> SUFFICES ASSUME NEW p \in Owners \ {Primary}
                 PROVE  hot'[p] = V \/ ToBeSent(V)' \/ BeingSent(V, p)'
      BY Zenon DEF OnItsWay
    <2>0. p \in Nodes
      BY PrimaryFacts, Zenon
    <2>1. CASE hot[p] = V
      BY <1>5, <1>8, <1>10, <2>0, <2>1, Zenon
    <2>2. CASE ToBeSent(V)
      BY <1>7, <2>2, Zenon DEF ToBeSent
    <2>3. CASE BeingSent(V, p)
      <3>1. v = V /\ p \in S
        BY <1>3, <2>3, Zenon DEF BeingSent
      <3>2. CASE p = q
        BY <1>8, <1>10, <3>1, <3>2, Zenon
      <3>3. CASE p # q
        BY <1>8, <1>11, <3>1, <3>3, Zenon DEF BeingSent
      <3> QED
        BY <3>2, <3>3, Zenon
    <2>4. hot[p] = V \/ ToBeSent(V) \/ BeingSent(V, p)
      BY <1>1, Zenon DEF CaughtUp, OnItsWay
    <2> QED
      BY <2>1, <2>2, <2>3, <2>4, Zenon
  <1> QED
    BY <1>12, <1>13, <1>14, <1>15, Zenon DEF CaughtUp

\* What is recorded stays recorded, but for a deletion that a Write undoes.
LEMMA HappenedFacts ==
  ASSUME [Next]_vars
  PROVE  /\ happened \ {"deleted"} \subseteq happened'
         /\ "deleted" \in happened' => "deleted" \in happened \/ "removed" \in happened'
  <1>1. ASSUME NEW h \in Handlers,
               Write(h) \/ FetchMiss(h) \/ Enqueue(h) \/ ColdGet(h) \/ Readmit(h)
        PROVE  /\ happened \ {"deleted"} \subseteq happened'
               /\ "deleted" \in happened' => "deleted" \in happened \/ "removed" \in happened'
    BY <1>1, Zenon DEF Write, FetchMiss, Enqueue, ColdGet, Readmit, Record
  <1>2. ASSUME NEW n \in Nodes,
               \/ Evict(n) \/ Spill(n) \/ Forward(n) \/ SendOne(n)
               \/ \E w \in SpillWorkers : TakeJob(n, w) \/ PutObject(n, w)
        PROVE  /\ happened \ {"deleted"} \subseteq happened'
               /\ "deleted" \in happened' => "deleted" \in happened \/ "removed" \in happened'
    BY <1>2, Zenon DEF Evict, Spill, Forward, SendOne, TakeJob, PutObject, Record
  <1>3. ASSUME NEW n \in Nodes,
               \/ SpillAfterClose(n) \/ GracefulStop(n) \/ Close(n) \/ Exit(n) \/ Release(n)
               \/ Crash(n) \/ Hang(n) \/ Resume(n) \/ LeaseExpires(n) \/ Start(n)
        PROVE  /\ happened \ {"deleted"} \subseteq happened'
               /\ "deleted" \in happened' => "deleted" \in happened \/ "removed" \in happened'
    BY <1>3, Zenon DEF SpillAfterClose, GracefulStop, Close, Exit, Release, Crash, Hang, Resume,
                LeaseExpires, Start, Record
  <1>4. ASSUME (\E r \in Routers : DriveRouter(r)) \/ UNCHANGED vars
        PROVE  happened' = happened
    BY <1>4, Zenon DEF DriveRouter, vars
  <1> QED
    BY <1>1, <1>2, <1>3, <1>4, Zenon
    DEF Next, Step, HandlerStep, ReplicatorStep, WorkerStep, ShutdownStep

LEMMA StepCatchUp ==
  ASSUME TypeOK, BusyOK, LeavingOK, CatchUpOK, [Next]_vars
  PROVE  CatchUpOK'
  <1>1. "deleted" \in happened' => "removed" \in happened'
    BY HappenedFacts, Zenon DEF CatchUpOK
  <1> SUFFICES ASSUME Lossless' PROVE CaughtUp'
    BY <1>1, Zenon DEF CatchUpOK
  <1>2. Lossless
    <2>1. "removed" \notin happened' /\ happened \ {"deleted"} \subseteq happened'
      BY HappenedFacts, Zenon DEF Lossless
    <2>2. "deleted" \notin happened
      BY <2>1, Zenon DEF CatchUpOK
    <2>3. happened \subseteq happened'
      BY <2>1, <2>2, Zenon
    <2> QED
      BY <2>3, Zenon DEF Lossless
  <1>3. CaughtUp /\ FullRing
    BY <1>2, Zenon DEF CatchUpOK, LeavingOK, Lossless
  <1>4. ASSUME NEW n \in Nodes PROVE ~LifeStep(n)
    BY <1>3, Zenon DEF LifeStep, FullRing, Lossless
  <1>5. ASSUME NEW h \in Handlers,
               Write(h) \/ FetchMiss(h) \/ Enqueue(h) \/ ColdGet(h) \/ Readmit(h)
        PROVE  CaughtUp'
    <2>1. CASE Write(h)
      BY <1>3, <2>1, WriteCatchesUp, Zenon
    <2>2. CASE Enqueue(h)
      BY <1>3, <2>2, EnqueueCatchesUp, Zenon DEF Lossless
    <2>3. CASE FetchMiss(h) \/ ColdGet(h)
      <3>1. UNCHANGED <<hot, queue, sending, jobs, putting, bucket>>
        BY <2>3, Zenon DEF FetchMiss, ColdGet, nodeVars
      <3>2. /\ rpc[h].at # "enqueue" /\ rpc'[h].at \notin {"enqueue", "readmit"}
            /\ \A g \in Handlers : g # h => rpc'[g] = rpc[g]
        BY <1>3, <2>3, IdleFacts DEF FetchMiss, ColdGet, CaughtUp, NothingSpilled, TypeOK
      <3> QED
        BY <1>3, <3>1, <3>2, CaughtUpStays, Zenon
    <2>4. ~Readmit(h)
      BY <1>3, Zenon DEF Readmit, CaughtUp, NothingSpilled
    <2> QED
      BY <1>5, <2>1, <2>2, <2>3, <2>4, Zenon
  <1>6. ASSUME NEW n \in Nodes,
               \/ Evict(n) \/ Spill(n) \/ Forward(n) \/ SendOne(n)
               \/ \E w \in SpillWorkers : TakeJob(n, w) \/ PutObject(n, w)
        PROVE  CaughtUp'
    <2>1. CASE Forward(n)
      BY <1>3, <2>1, ForwardCatchesUp, Zenon
    <2>2. CASE SendOne(n)
      BY <1>3, <2>2, SendCatchesUp, Zenon DEF Lossless
    <2>3. ~Evict(n) /\ ~Spill(n)
      BY DEF Evict, Spill, Record, Lossless
    <2>4. \A w \in SpillWorkers : ~TakeJob(n, w) /\ ~PutObject(n, w)
      BY <1>3, Zenon DEF TakeJob, PutObject, CaughtUp, NothingSpilled
    <2> QED
      BY <1>6, <2>1, <2>2, <2>3, <2>4, Zenon
  <1>7. CASE (\E r \in Routers : DriveRouter(r)) \/ UNCHANGED vars
    <2>1. UNCHANGED <<hot, rpc, queue, sending, jobs, putting, bucket>>
      BY <1>7, Zenon DEF DriveRouter, vars, nodeVars
    <2> QED
      BY <1>3, <2>1, CaughtUpStays, Zenon
  <1> QED
    BY <1>4, <1>5, <1>6, <1>7, LifeSteps, Zenon
    DEF Next, Step, HandlerStep, ReplicatorStep, WorkerStep, ShutdownStep

-----------------------------------------------------------------------------
(* The theorems.                                                           *)

LEMMA InitIInv == Init => IInv
  <1> SUFFICES ASSUME Init PROVE IInv
    BY Zenon
  <1>1. TypeOK
    <2>1. <<>> \in Seq(Nat \ {0}) /\ Len(<<>>) <= QueueDepth /\ Len(<<>>) <= SpillQueue
      BY ReplicationAssumption
    <2>2. /\ queue \in [Nodes -> Seq(Nat \ {0})] /\ jobs \in [Nodes -> Seq(Nat \ {0})]
          /\ \A n \in Nodes : Len(queue[n]) <= QueueDepth /\ Len(jobs[n]) <= SpillQueue
      BY <2>1, Zenon DEF Init
    <2>3. snapshots \in Seq(SUBSET Nodes) /\ Len(snapshots) = 1
      BY DEF Init
    <2>4. seen \in [Routers -> 0..Len(snapshots)]
      BY <2>3 DEF Init
    <2>5. count \in [Events -> Nat] /\ \A e \in Events : count[e] <= Limit[e]
      BY LimitFacts DEF Init
    <2>6. /\ rpc \in [Handlers -> [at : {"idle", "enqueue", "cold", "readmit"}, node : Nodes,
                                   version : Nat]]
          /\ sending \in [Nodes -> [version : Nat, peers : SUBSET Nodes]]
      BY IdleFacts, Zenon DEF Init
    <2> QED
      BY <2>2, <2>3, <2>4, <2>5, <2>6, Zenon DEF Init, TypeOK
  <1>2. BusyOK
    BY IdleFacts, Zenon DEF Init, BusyOK
  <1>3. LeavingOK
    BY Zenon DEF Init, LeavingOK, FullRing, Events
  <1>4. CatchUpOK
    <2>1. \A n \in Nodes : hot[n] = 0 /\ queue[n] = <<>> /\ sending[n] = Waiting
      BY Zenon DEF Init
    <2>2. NothingSpilled /\ OneMints
      BY <2>1, IdleFacts, Zenon DEF Init, NothingSpilled, OneMints
    <2>3. LatestIs(0) /\ OnItsWay(0)
      <3>1. Len(queue[Primary]) = 0
        BY <2>1, PrimaryFacts
      <3> QED
        BY <2>1, <3>1, PrimaryFacts, IdleFacts DEF Init, LatestIs, OnItsWay
    <2> QED
      BY <2>1, <2>2, <2>3, PrimaryFacts, Zenon DEF Init, CatchUpOK, CaughtUp
  <1>5. SafeOK
    BY PrimaryFacts DEF Init, SafeOK, HeldBy, Events
  <1>6. NothingLost
    BY DEF Init, NothingLost, Events
  <1> QED
    BY <1>1, <1>2, <1>3, <1>4, <1>5, <1>6, Zenon DEF IInv

LEMMA StepIInv == IInv /\ [Next]_vars => IInv'
  <1> SUFFICES ASSUME IInv, [Next]_vars PROVE IInv'
    BY Zenon
  <1>1. TypeOK /\ BusyOK /\ LeavingOK /\ CatchUpOK /\ SafeOK /\ NothingLost
    BY Zenon DEF IInv
  <1>2. TypeOK' /\ BusyOK'
    BY <1>1, StepTypes, Zenon
  <1> QED
    BY <1>1, <1>2, StepLeaving, StepCatchUp, StepSafe, StepNothingLost, Zenon DEF IInv

LEMMA Inductive == Spec => []IInv
  BY InitIInv, StepIInv, PTL DEF Spec

\* Type correctness: no queue passes its depth, and no router is ahead of etcd.
THEOREM ReplicationTypeCorrect == Spec => []TypeOK
  <1>1. IInv => TypeOK
    BY Zenon DEF IInv
  <1> QED
    BY <1>1, Inductive, PTL

\* The replicas catch up with the primary: as long as Enqueue dropped no job, sendOne
\* succeeded, no process left and no store lost its copy, every owner holds the primary's
\* version once no handler is before its Enqueue and the replicators are idle.
THEOREM ReplicasAgree == Spec => []ReplicasCatchUp
  <1>1. IInv => ReplicasCatchUp
    <2> SUFFICES ASSUME IInv, Lossless, Quiet, NEW n \in Owners PROVE hot[n] = hot[Primary]
      BY Zenon DEF ReplicasCatchUp, Lossless
    <2>1. OnItsWay(hot[Primary])
      BY Zenon DEF IInv, CatchUpOK, CaughtUp
    <2>2. ~ToBeSent(hot[Primary]) /\ ~BeingSent(hot[Primary], n)
      <3>1. Len(queue[Primary]) = 0 /\ sending[Primary] = Waiting
        BY PrimaryFacts DEF Quiet
      <3> QED
        BY <3>1, IdleFacts DEF Quiet, ToBeSent, BeingSent
    <2> QED
      BY <2>1, <2>2, Zenon DEF OnItsWay
  <1> QED
    BY <1>1, Inductive, PTL

\* Read failover: with a replication factor of two or more and a second node, what all
\* owners have held is served by an owner the clients' router names, whatever one node does:
\* a crash, a hang, a shutdown or a lost lease, and a restart, with routers that lag behind.
THEOREM OneLossSurvived ==
  ASSUME RF >= 2, \E n, p \in Nodes : n # p
  PROVE  Spec => []SurvivesOneLoss
  <1>1. IInv => SurvivesOneLoss
    BY SafeMeaning, Zenon DEF IInv
  <1> QED
    BY <1>1, Inductive, PTL

\* Demotion to the cold tier loses nothing by itself: evict hands the entry to Spill, the
\* queue to a worker and the worker to the bucket.
THEOREM DemotionLosesNothing == Spec => []NothingLost
  <1>1. IInv => NothingLost
    BY Zenon DEF IInv
  <1> QED
    BY <1>1, Inductive, PTL
=============================================================================
