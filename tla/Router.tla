------------------------------- MODULE Router -------------------------------
(***************************************************************************)
(* internal/ring/ring.go and internal/cluster/router.go: the consistent-   *)
(* hash ring of one process and the connections it routes by.              *)
(*                                                                         *)
(* The SHA-256 positions of the virtual nodes are an arbitrary placement   *)
(* without collisions, the same in every process; Init picks it.  Ring     *)
(* methods run under Router.mu, so a SetMembers is one step.               *)
(***************************************************************************)
EXTENDS Subsequences, Functions

CONSTANTS
  Nodes,   \* node IDs
  VNodes,  \* virtual points per node
  Space,   \* number of positions on the circle
  Addrs,   \* dial targets
  BadAddr  \* the one among them that grpc.NewClient refuses

Points == [hash : 0..(Space - 1), node : Nodes]

ASSUME RouterAssumption ==
  /\ IsFiniteSet(Nodes) /\ VNodes \in Nat \ {0}
  /\ Space \in Nat /\ Space >= VNodes * Cardinality(Nodes)
  /\ BadAddr \in Addrs

VARIABLES
  place,   \* vnodeHash: the position of each node's i-th point
  points,  \* Ring.points
  members, \* Ring.members
  pool,    \* Router.pool: the target each connection was dialled with
  closed   \* Router.Close has been called

vars == <<place, points, members, pool, closed>>

TypeOK ==
  /\ place \in [Nodes -> [1..VNodes -> 0..(Space - 1)]]
  /\ points \in Seq(Points) /\ members \subseteq Nodes
  /\ DOMAIN pool \subseteq Nodes /\ \A n \in DOMAIN pool : pool[n] \in Addrs \ {BadAddr}
  /\ closed \in BOOLEAN

\* No two points collide.  The index of a point plays no part after vnodeHash, so the
\* points of a node are numbered in the order of their positions.
Placements ==
  {f \in [Nodes -> [1..VNodes -> 0..(Space - 1)]] :
     /\ \A n, m \in Nodes, i, j \in 1..VNodes : f[n][i] = f[m][j] => n = m /\ i = j
     /\ \A n \in Nodes, i, j \in 1..VNodes : i < j => f[n][i] < f[n][j]}

Init ==
  /\ place \in Placements
  /\ points = <<>> /\ members = {} /\ pool = << >> /\ closed = FALSE

-----------------------------------------------------------------------------
(* The ring.                                                               *)

\* sort.Slice by hash.  No two points of a ring share one.
Sorted(ps) ==
  LET hashes == {p.hash : p \in Range(ps)}
  IN [i \in DOMAIN ps |-> CHOOSE p \in Range(ps) : p.hash = Nth(hashes, i)]

vnodePoints(node) == [i \in 1..VNodes |-> [hash |-> place[node][i], node |-> node]]

\* Mutant: the points of a new node are not sorted in.
RingAddUnsorted(ps, node) == ps \o vnodePoints(node)

RingAdd(ps, node) == Sorted(ps \o vnodePoints(node))

RingRemove(ps, node) == Subsequence(ps, {i \in DOMAIN ps : ps[i].node # node})

\* Mutant: a key that falls on a point goes to the next one.
SearchAfter(h) ==
  IF \A i \in DOMAIN points : points[i].hash <= h THEN 1
  ELSE CHOOSE i \in DOMAIN points :
         points[i].hash > h /\ \A j \in 1..(i - 1) : points[j].hash <= h

\* sort.Search: the first point at or after h, wrapping past the end.
Search(h) ==
  IF \A i \in DOMAIN points : points[i].hash < h THEN 1
  ELSE CHOOSE i \in DOMAIN points :
         points[i].hash >= h /\ \A j \in 1..(i - 1) : points[j].hash < h

Lookup(h) == points[Search(h)].node

\* The clockwise walk keeps the first point of every node and stops after n nodes.
LookupN(h, n) ==
  LET start == Search(h)
      walk == [i \in DOMAIN points |-> points[((start + i - 2) % Len(points)) + 1].node]
      firsts == {i \in DOMAIN walk : \A j \in 1..(i - 1) : walk[j] # walk[i]}
      taken == IF n > Cardinality(firsts) THEN Cardinality(firsts) ELSE n
  IN [i \in 1..taken |-> walk[Nth(firsts, i)]]

-----------------------------------------------------------------------------
(* The router.                                                             *)

\* Mutant: a target that cannot be dialled is pooled.
JoiningUnchecked(desired) == DOMAIN desired \ DOMAIN pool

\* A member already pooled keeps its connection, whatever its address is now; one
\* whose target grpc.NewClient refuses is skipped.
Joining(desired) == {n \in DOMAIN desired \ DOMAIN pool : desired[n] # BadAddr}
Leaving(desired) == DOMAIN pool \ DOMAIN desired

Reconnect(desired) ==
  pool' = [n \in (DOMAIN pool \cup Joining(desired)) \ Leaving(desired) |->
             IF n \in DOMAIN pool THEN pool[n] ELSE desired[n]]

\* The two loops over the IDs, in the order of arrival: the ring ps after each ID.
\* Ring.Add and Ring.Remove are idempotent.
AddPass(ps, joining, arrival) ==
  LET ring[i \in 0..Len(arrival)] ==
        IF i = 0 THEN ps
        ELSE IF arrival[i] \in joining \ members THEN RingAdd(ring[i - 1], arrival[i])
        ELSE ring[i - 1]
  IN ring[Len(arrival)]

RemovePass(ps, leaving, arrival) ==
  LET ring[i \in 0..Len(arrival)] ==
        IF i = 0 THEN ps
        ELSE IF arrival[i] \in leaving THEN RingRemove(ring[i - 1], arrival[i])
        ELSE ring[i - 1]
  IN ring[Len(arrival)]

\* Mutant: a member that has left stays on the ring.
SetMembersKeeping(desired, arrival) ==
  /\ Reconnect(desired)
  /\ members' = members \cup Joining(desired)
  /\ points' = AddPass(points, Joining(desired), arrival)
  /\ UNCHANGED <<place, closed>>

\* desired maps the IDs of the snapshot to their addresses; arrival is the order in
\* which the two loops go over the IDs.
SetMembers(desired, arrival) ==
  /\ Reconnect(desired)
  /\ members' = (members \cup Joining(desired)) \ Leaving(desired)
  /\ points' = RemovePass(AddPass(points, Joining(desired), arrival), Leaving(desired), arrival)
  /\ UNCHANGED <<place, closed>>

\* Close empties the pool and leaves the ring as it is; a server's watch may still
\* apply snapshots after it (the deferred calls of main.go cancel the watch last).
Close ==
  /\ pool' = << >> /\ closed' = TRUE
  /\ UNCHANGED <<place, points, members>>

\* What the callers route by: the connections of the owners, primary first, where a
\* node of the ring without a connection is left out, and the connection of one node.
OwnersN(h, n) == IF points = <<>> THEN <<>> ELSE LookupN(h, n)
ConnFor(id) == IF id \in DOMAIN pool THEN {pool[id]} ELSE {}
OwnerConns(h, n) == Among(OwnersN(h, n), {id \in Nodes : ConnFor(id) # {}})
Owner(h) == IF points = <<>> THEN {} ELSE {Lookup(h)}
OwnerConn(h) == {id \in Owner(h) : ConnFor(id) # {}}

\* Snapshots are built from a Go map: any order.
Snapshots == UNION {[S -> Addrs] : S \in SUBSET Nodes}
Arrivals == Bijection(1..Cardinality(Nodes), Nodes)

Next ==
  \/ \E desired \in Snapshots, arrival \in Arrivals : SetMembers(desired, arrival)
  \/ Close

Spec == Init /\ [][Next]_vars

-----------------------------------------------------------------------------
\* "Every process computes the same result from the same member set" (ring.go:124):
\* whatever joins and leaves came before, and in whatever order a snapshot was gone
\* through, the circle is the sorted points of the members, nothing more.
HistoryIndependent ==
  /\ Range(points) = {[hash |-> place[n][i], node |-> n] : n \in members, i \in 1..VNodes}
  /\ \A i, j \in DOMAIN points : i < j => points[i].hash < points[j].hash

\* LookupN against its meaning: the nodes in the order of the clockwise distance from
\* the key to their nearest point, and Lookup is the first of them.
Distance(h, n) ==
  LET gaps == {(place[n][i] - h) % Space : i \in 1..VNodes}
  IN CHOOSE d \in gaps : \A e \in gaps : d <= e
OwnersAreNearest ==
  \A h \in 0..(Space - 1) :
    LET owners == LookupN(h, Cardinality(Nodes)) IN
    /\ Range(owners) = members /\ Len(owners) = Cardinality(members)
    /\ \A i, j \in DOMAIN owners : i < j => Distance(h, owners[i]) < Distance(h, owners[j])
    /\ members # {} => Lookup(h) = owners[1]
    /\ \A n \in 0..Len(owners) : LookupN(h, n) = SubSeq(owners, 1, n)

\* "a reader never sees a node in the ring that's missing from the pool (or vice versa)"
\* (router.go:40), until Close; no connection ever outlives its member, not even one
\* dialled after Close.
PoolMatchesRing == DOMAIN pool \subseteq members /\ (~closed => members \subseteq DOMAIN pool)

\* What follows for the callers: until Close, a key has a connection to every one of its
\* first n owners in the ring's order, and OwnerConn gives the first of them.
RoutesAreConnected ==
  /\ PoolMatchesRing
  /\ \A h \in 0..(Space - 1) : ~closed =>
       /\ \A n \in 1..Cardinality(Nodes) : OwnerConns(h, n) = OwnersN(h, n)
       /\ OwnerConn(h) = Range(OwnersN(h, 1))
       /\ Range(OwnersN(h, Cardinality(Nodes))) = DOMAIN pool

\* A change of membership moves no key between the nodes that stay, and their order
\* stays: the replica of a primary that leaves is the new primary (ADR 0022).
OrderSurvives ==
  [][\A h \in 0..(Space - 1) :
       \A before \in {LookupN(h, Cardinality(Nodes))}, after \in {LookupN(h, Cardinality(Nodes))'} :
         Among(before, members \cap members') = Among(after, members \cap members')]_vars
=============================================================================
