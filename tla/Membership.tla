----------------------------- MODULE Membership -----------------------------
(***************************************************************************)
(* internal/coord/membership.go: the registration of the cache servers     *)
(* under etcd leases, and one process that follows it: a load generator    *)
(* (startEtcdMembership) or a server with replication, whose WatchMembers  *)
(* feeds the Router through DriveRouter.                                   *)
(*                                                                         *)
(* Several processes may run under one node ID: a replacement starts while *)
(* its predecessor drains, hangs or is already dead with a lease that has  *)
(* not lapsed.  A process registers once, so a lease is named by it.       *)
(***************************************************************************)
EXTENDS Integers, Sequences

CONSTANTS
  Nodes, VNodes, Space, Addrs, BadAddr, \* as in Router
  Procs,   \* server processes that ever start
  Fleets,  \* the -node-id and -advertise flags they may be started with
  Gone,    \* the value of a member key that does not exist
  NoLease  \* the holder of such a key

ASSUME MembershipAssumption ==
  /\ Fleets \subseteq [Procs -> [id : Nodes, addr : Addrs]] /\ BadAddr \in Addrs
  /\ Gone \notin Addrs /\ NoLease \notin Procs

VARIABLES
  revs,    \* etcd: the event of every revision and the member keys after it
  holder,  \* etcd: the lease each member key is attached to
  leases,  \* etcd: the leases that have been granted and neither revoked nor expired
  proc,    \* how far each server process is
  fleet,   \* the flags each was started with
  watch,   \* WatchMembers: its member map, the revision it has applied, and its batch
  client,  \* the process that follows: waiting for a first member, driving, dead or done
  place, points, members, pool, closed \* its Router

etcdVars == <<revs, holder, leases>>
serverVars == <<etcdVars, proc, fleet>>
routerVars == <<place, points, members, pool, closed>>
vars == <<serverVars, watch, client, routerVars>>

R == INSTANCE Router

Keys == [Nodes -> Addrs \cup {Gone}]
StateAt(r) == IF r = 0 THEN [n \in Nodes |-> Gone] ELSE revs[r].state
Revision == Len(revs)

IdOf(p) == fleet[p].id
AddrOf(p) == fleet[p].addr

Phases == {"new", "granted", "put", "serving", "draining", "dead"}
Up(p) == proc[p] \in {"granted", "put", "serving", "draining"}

TypeOK ==
  /\ revs \in Seq([id : Nodes, addr : Addrs \cup {Gone}, lease : Procs, state : Keys])
  /\ holder \in [Nodes -> Procs \cup {NoLease}] /\ leases \subseteq Procs
  /\ proc \in [Procs -> Phases] /\ fleet \in Fleets
  /\ watch \in [phase : {"off", "sending", "watching", "applying", "closed"},
                members : Keys, rev : 0..Revision, upto : 0..Revision]
  /\ client \in {"waiting", "driving", "dead", "done"}
  /\ R!TypeOK

\* A load generator waits for a first member, a server drives its router at once.
Init ==
  /\ revs = <<>> /\ holder = [n \in Nodes |-> NoLease] /\ leases = {}
  /\ proc = [p \in Procs |-> "new"] /\ fleet \in Fleets
  /\ watch = [phase |-> "off", members |-> StateAt(0), rev |-> 0, upto |-> 0]
  /\ client \in {"waiting", "driving"}
  /\ R!Init

-----------------------------------------------------------------------------
(* etcd.                                                                   *)

Commit(n, value, p) ==
  revs' = Append(revs, [id |-> n, addr |-> value, lease |-> p,
                        state |-> [StateAt(Revision) EXCEPT ![n] = value]])

\* A Put attaches the key to the lease it names and detaches it from any other.
Put(p) ==
  /\ holder' = [holder EXCEPT ![IdOf(p)] = p]
  /\ Commit(IdOf(p), AddrOf(p), p)

\* The end of a lease, by Revoke or by its TTL, deletes the keys attached to it.
Drop(p) ==
  /\ p \in leases /\ leases' = leases \ {p}
  /\ IF holder[IdOf(p)] = p
     THEN /\ holder' = [holder EXCEPT ![IdOf(p)] = NoLease]
          /\ Commit(IdOf(p), Gone, p)
     ELSE UNCHANGED <<holder, revs>>

\* A Revoke may fail, or find the lease expired; its error is logged or ignored.
Revoke(p) == Drop(p) \/ UNCHANGED etcdVars

\* Keepalives stop when the process dies, and may stop under a live one (a pause, a
\* partition), which logs the loss and never registers again.
Expire(p) == Drop(p) /\ UNCHANGED <<proc, fleet, watch, client, routerVars>>

-----------------------------------------------------------------------------
(* Register, and the life of a server process.                             *)

Step(p, from, to) ==
  /\ proc[p] \in from /\ proc' = [proc EXCEPT ![p] = to]
  /\ UNCHANGED <<fleet, watch, client, routerVars>>

Grant(p) ==
  /\ Step(p, {"new"}, "granted")
  /\ leases' = leases \cup {p} /\ UNCHANGED <<revs, holder>>

PutMember(p) == Step(p, {"granted"}, "put") /\ p \in leases /\ Put(p) /\ UNCHANGED leases

KeepAlive(p) == Step(p, {"put"}, "serving") /\ UNCHANGED etcdVars

\* The Put or KeepAlive returned an error, with or without the key written; main exits.
RegisterFails(p) == Step(p, {"granted", "put"}, "dead") /\ Revoke(p)

\* Mutant: release deletes the member key by its name, whoever registered it last.
ReleaseByName(p) ==
  /\ Step(p, {"serving"}, "draining")
  /\ leases' = leases \ {p}
  /\ holder' = [holder EXCEPT ![IdOf(p)] = NoLease]
  /\ Commit(IdOf(p), Gone, p)

\* SIGTERM or a Spot notice: release deregisters before the drain.
Release(p) == Step(p, {"serving"}, "draining") /\ Revoke(p)

\* GracefulStop returned, or the process crashed at any point.
Exit(p) == Step(p, {"granted", "put", "serving", "draining"}, "dead") /\ UNCHANGED etcdVars

-----------------------------------------------------------------------------
(* WatchMembers, sendSnapshot, and the two receivers of the snapshots.     *)

Following == client \in {"waiting", "driving"}

\* The Get; the watch is to start at the revision after it.
Subscribe ==
  /\ Following /\ watch.phase = "off"
  /\ watch' = [phase |-> "sending", members |-> StateAt(Revision),
               rev |-> Revision, upto |-> Revision]
  /\ UNCHANGED <<serverVars, client, routerVars>>

\* The Get fails, the channel closes, or ten seconds pass: log.Fatal.  A server has no
\* deadline and outlives a watch that ends.
GiveUp ==
  /\ \/ client = "waiting"
     \/ client = "driving" /\ watch.phase = "off"
  /\ client' = "dead"
  /\ UNCHANGED <<serverVars, watch, routerVars>>

Snapshot == [n \in {m \in Nodes : watch.members[m] # Gone} |-> watch.members[n]]

\* Mutant: the watch starts at the current revision, not after that of the Get.
ReceiveFromNow(arrival) ==
  /\ Following /\ watch.phase = "sending"
  /\ R!SetMembers(Snapshot, arrival)
  /\ client' = IF DOMAIN Snapshot # {} THEN "driving" ELSE client
  /\ watch' = [watch EXCEPT !.phase = "watching", !.rev = Revision]
  /\ UNCHANGED serverVars

\* The channel is unbuffered: the send ends when the receiver takes the snapshot, and
\* the receiver takes no other before SetMembers has returned.
Receive(arrival) ==
  /\ Following /\ watch.phase = "sending"
  /\ R!SetMembers(Snapshot, arrival)
  /\ client' = IF DOMAIN Snapshot # {} THEN "driving" ELSE client
  /\ watch' = [watch EXCEPT !.phase = "watching"]
  /\ UNCHANGED serverVars

\* Mutant: the batch is taken to end one event later than it does.
DeliverPast(r) ==
  /\ Following /\ watch.phase = "watching" /\ watch.rev < r
  /\ watch' = [watch EXCEPT !.phase = "applying", !.upto = r + 1]
  /\ UNCHANGED <<serverVars, client, routerVars>>

\* A WatchResponse: the events up to some revision.
Deliver(r) ==
  /\ Following /\ watch.phase = "watching" /\ watch.rev < r
  /\ watch' = [watch EXCEPT !.phase = "applying", !.upto = r]
  /\ UNCHANGED <<serverVars, client, routerVars>>

\* Mutant: a DELETE is taken for a PUT of nothing and keeps the member.
ApplyKeepsDeleted ==
  LET r == watch.rev + 1 IN
  /\ Following /\ watch.phase = "applying"
  /\ watch' = [watch EXCEPT
       !.members = IF revs[r].addr = Gone THEN @ ELSE [@ EXCEPT ![revs[r].id] = revs[r].addr],
       !.rev = r, !.phase = IF r = watch.upto THEN "sending" ELSE "applying"]
  /\ UNCHANGED <<serverVars, client, routerVars>>

\* One event of the batch; the snapshot is sent after the last.
Apply ==
  LET r == watch.rev + 1 IN
  /\ Following /\ watch.phase = "applying"
  /\ watch' = [watch EXCEPT
       !.members[revs[r].id] = revs[r].addr,
       !.rev = r, !.phase = IF r = watch.upto THEN "sending" ELSE "applying"]
  /\ UNCHANGED <<serverVars, client, routerVars>>

\* wresp.Err() or the end of wch: the goroutine returns and the channel closes.
WatchEnds ==
  /\ Following /\ watch.phase = "watching"
  /\ watch' = [watch EXCEPT !.phase = "closed"]
  /\ UNCHANGED <<serverVars, client, routerVars>>

\* Shutdown: the deferred Router.Close comes before the deferred cancel of the watch.
CloseRouter ==
  /\ client = "driving" /\ ~closed /\ R!Close
  /\ UNCHANGED <<serverVars, watch, client>>

Cancel ==
  /\ client = "driving" /\ closed /\ client' = "done"
  /\ watch' = [watch EXCEPT !.phase = "closed"]
  /\ UNCHANGED <<serverVars, routerVars>>

-----------------------------------------------------------------------------
Server(p) ==
  \/ Grant(p) \/ PutMember(p) \/ KeepAlive(p) \/ RegisterFails(p)
  \/ Release(p) \/ Exit(p) \/ Expire(p)

Follow ==
  \/ Subscribe \/ Apply
  \/ \E arrival \in R!Arrivals : Receive(arrival)
  \/ \E r \in 1..Revision : Deliver(r)

Next ==
  \/ \E p \in Procs : Server(p)
  \/ Follow \/ GiveUp \/ WatchEnds \/ CloseRouter \/ Cancel

Spec == Init /\ [][Next]_vars

\* etcd ends the lease of a dead process and delivers the events of a watch that has
\* not failed; the goroutines of the follower run.
FairSpec ==
  /\ Spec /\ WF_vars(Follow)
  /\ \A p \in Procs : WF_vars(proc[p] = "dead" /\ Expire(p))

-----------------------------------------------------------------------------
\* "no event between the Get and the Watch is missed or double-applied"
\* (membership.go:140): whatever servers do meanwhile, and wherever a batch is cut, the
\* watcher's map is the member keys of the revision it has reached.
SnapshotIsExact == watch.members = StateAt(watch.rev)

\* The ring a process routes by is the membership at the revision it has followed etcd to,
\* also after its watch has failed: no member key of that revision is missing but those at
\* an address that cannot be dialled, and no node is there that had left by then.
RingIsSnapshot ==
  watch.phase \in {"watching", "closed"} /\ ~closed =>
    /\ \A n \in members : StateAt(watch.rev)[n] # Gone
    /\ \A n \in Nodes : StateAt(watch.rev)[n] \notin {Gone, BadAddr} => n \in members

\* The registration made last under a node ID stays until its own lease ends: no
\* expiry, failed registration or release of another process of the ID removes it, and
\* the key goes when that lease does, whoever is still up.
LastPut(r) ==
  /\ revs[r].addr # Gone
  /\ \A s \in (r + 1)..Revision : revs[s].id = revs[r].id => revs[s].addr = Gone
NewestRegistrationStays ==
  \A r \in 1..Revision : LastPut(r) =>
    holder[revs[r].id] = (IF revs[r].lease \in leases THEN revs[r].lease ELSE NoLease)

\* "automatic failure detection that the membership watch turns into a ring removal"
\* (membership.go:69): unless the watch ends, the ring comes to hold a node only if a
\* process that is up registered it last, and every one so registered at an address
\* that can be dialled.
Registered(n) == {p \in Procs : IdOf(p) = n /\ holder[n] = p /\ Up(p)}
RingFollowsProcesses ==
  <>[](\/ watch.phase = "closed" \/ ~Following \/ closed
       \/ /\ \A n \in members : Registered(n) # {}
          /\ \A n \in Nodes : (\E p \in Registered(n) : AddrOf(p) # BadAddr) => n \in members)
=============================================================================
