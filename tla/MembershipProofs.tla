-------------------------- MODULE MembershipProofs --------------------------
(***************************************************************************)
(* The safety properties of Membership, for every number of nodes and      *)
(* processes, every fleet and every length of the history of etcd, and     *)
(* that the follower's router is one that Router specifies.                *)
(*                                                                         *)
(* The watcher is exact because every revision is the one before it with   *)
(* its event applied (Chained), which an append does not disturb.  The     *)
(* newest registration stays because a lease is only ever attached to the  *)
(* key of its process's own ID, and because a process whose lease is yet   *)
(* to be granted has no event in the history.  The ring follows because it *)
(* changes with the pool of connections, which is the watcher's map as of  *)
(* the last snapshot the follower took (Routed).                           *)
(***************************************************************************)
EXTENDS Membership, TLAPS

Revs == [id : Nodes, addr : Addrs \cup {Gone}, lease : Procs, state : Keys]

EtcdOK ==
  /\ revs \in Seq(Revs) /\ leases \in SUBSET Procs /\ proc \in [Procs -> Phases]
  /\ holder \in [Nodes -> Procs \cup {NoLease}] /\ fleet \in [Procs -> [id : Nodes, addr : Addrs]]
  /\ \A q \in leases : proc[q] # "new"

WatchOK ==
  /\ watch \in [phase : {"off", "sending", "watching", "applying", "closed"},
                members : Keys, rev : Nat, upto : Nat]
  /\ watch.rev <= watch.upto /\ watch.upto <= Revision
  /\ watch.phase = "applying" => watch.rev < watch.upto

\* Every revision is its predecessor with its event applied.
Chained ==
  \A r \in 1..Revision : revs[r].state = [StateAt(r - 1) EXCEPT ![revs[r].id] = revs[r].addr]

\* An event carries the ID and the lease of a process that has started.
EventsAreOwn ==
  \A r \in 1..Revision : revs[r].id = IdOf(revs[r].lease) /\ proc[revs[r].lease] # "new"

IInv == EtcdOK /\ WatchOK /\ Chained /\ EventsAreOwn /\ SnapshotIsExact /\ NewestRegistrationStays

-----------------------------------------------------------------------------
(* What an append to the history leaves alone.                             *)

LEMMA StateAtType ==
  ASSUME EtcdOK, NEW r \in 0..Revision
  PROVE  StateAt(r) \in Keys
<1>1. CASE r = 0
  BY <1>1 DEF StateAt, Keys
<1>2. CASE r \in 1..Len(revs)
  <2>1. revs[r] \in Revs
    BY <1>2 DEF EtcdOK
  <2> QED
    BY <2>1, <1>2 DEF Revs, StateAt
<1> QED
  BY <1>1, <1>2 DEF EtcdOK, Revision

\* What Commit does to the history.
Appended(n, v, p) ==
  /\ revs' \in Seq(Revs) /\ Len(revs') = Len(revs) + 1 /\ Len(revs) \in Nat
  /\ \A r \in 1..Len(revs) : revs'[r] = revs[r]
  /\ revs'[Len(revs) + 1].id = n /\ revs'[Len(revs) + 1].addr = v
  /\ revs'[Len(revs) + 1].lease = p
  /\ revs'[Len(revs) + 1].state = [StateAt(Len(revs)) EXCEPT ![n] = v]

LEMMA CommitFacts ==
  ASSUME EtcdOK, NEW n \in Nodes, NEW v \in Addrs \cup {Gone}, NEW p \in Procs, Commit(n, v, p)
  PROVE  Appended(n, v, p)
<1> DEFINE e == [id |-> n, addr |-> v, lease |-> p, state |-> [StateAt(Revision) EXCEPT ![n] = v]]
<1>1. revs \in Seq(Revs) /\ Len(revs) \in Nat
  BY DEF EtcdOK
<1>2. StateAt(Revision) \in Keys
  BY <1>1, StateAtType DEF Revision
<1>3. [StateAt(Revision) EXCEPT ![n] = v] \in Keys
  BY <1>2 DEF Keys
<1>4. e \in Revs
  BY <1>3 DEF Revs
<1>5. revs' = Append(revs, e)
  BY DEF Commit
<1> HIDE DEF e
<1>6. /\ revs' \in Seq(Revs) /\ Len(revs') = Len(revs) + 1
      /\ \A r \in 1..Len(revs) : revs'[r] = revs[r]
      /\ revs'[Len(revs) + 1] = e
  BY <1>1, <1>4, <1>5
<1> QED
  BY <1>1, <1>6 DEF e, Revision, Appended

LEMMA KeepsStates ==
  ASSUME NEW n, NEW v, NEW p, Appended(n, v, p)
  PROVE  \A r \in 0..Len(revs) : StateAt(r)' = StateAt(r)
  BY DEF Appended, StateAt

LEMMA KeepsChained ==
  ASSUME NEW n, NEW v, NEW p, Appended(n, v, p), Chained
  PROVE  Chained'
<1>1. Len(revs) \in Nat /\ Len(revs') = Len(revs) + 1
  BY DEF Appended
<1>2. \A r \in 0..Len(revs) : StateAt(r)' = StateAt(r)
  BY KeepsStates
<1> SUFFICES ASSUME NEW r \in 1..Len(revs')
             PROVE  revs'[r].state = [StateAt(r - 1)' EXCEPT ![revs'[r].id] = revs'[r].addr]
  BY DEF Chained, Revision, StateAt
<1>3. CASE r = Len(revs) + 1
  <2>1. r - 1 = Len(revs) /\ StateAt(r - 1)' = StateAt(Len(revs))
    BY <1>1, <1>2, <1>3
  <2> QED
    BY <2>1, <1>3 DEF Appended
<1>4. CASE r \in 1..Len(revs)
  <2>1. revs'[r] = revs[r] /\ StateAt(r - 1)' = StateAt(r - 1)
    BY <1>1, <1>2, <1>4 DEF Appended
  <2>2. revs[r].state = [StateAt(r - 1) EXCEPT ![revs[r].id] = revs[r].addr]
    BY <1>4 DEF Chained, Revision
  <2> QED
    BY <2>1, <2>2
<1> QED
  BY <1>1, <1>3, <1>4

LEMMA KeepsWatch ==
  ASSUME NEW n, NEW v, NEW p, Appended(n, v, p), WatchOK, SnapshotIsExact, watch' = watch
  PROVE  WatchOK' /\ SnapshotIsExact'
<1>1. Len(revs) \in Nat /\ Len(revs') = Len(revs) + 1
  BY DEF Appended
<1>2. watch.rev \in Nat /\ watch.upto \in Nat /\ watch.rev <= Len(revs) /\ watch.upto <= Len(revs)
  BY <1>1 DEF WatchOK, Revision
<1>3. WatchOK'
  BY <1>1, <1>2 DEF WatchOK, Revision
<1>4. StateAt(watch.rev)' = StateAt(watch.rev)
  <2>1. watch.rev \in 0..Len(revs)
    BY <1>1, <1>2
  <2>2. revs'[watch.rev].state = revs[watch.rev].state \/ watch.rev = 0
    BY <2>1 DEF Appended
  <2> QED
    BY <2>2 DEF StateAt
<1> QED
  BY <1>3, <1>4 DEF SnapshotIsExact

LEMMA KeepsEvents ==
  ASSUME NEW n, NEW v, NEW p, Appended(n, v, p), EtcdOK, EventsAreOwn, fleet' = fleet,
         n = IdOf(p), proc'[p] # "new", \A q \in Procs : proc[q] # "new" => proc'[q] # "new"
  PROVE  EventsAreOwn'
<1>1. Len(revs) \in Nat /\ Len(revs') = Len(revs) + 1
  BY DEF Appended
<1> SUFFICES ASSUME NEW r \in 1..Len(revs')
             PROVE  revs'[r].id = fleet[revs'[r].lease].id /\ proc'[revs'[r].lease] # "new"
  BY DEF EventsAreOwn, Revision, IdOf
<1>2. CASE r = Len(revs) + 1
  BY <1>2 DEF Appended, IdOf
<1>3. CASE r \in 1..Len(revs)
  <2>1. revs'[r] = revs[r] /\ revs[r] \in Revs
    BY <1>3 DEF Appended, EtcdOK
  <2> QED
    BY <2>1, <1>3 DEF EventsAreOwn, Revision, IdOf, Revs
<1> QED
  BY <1>1, <1>2, <1>3

\* A registration that is the last of its ID after an append was so before it.
LEMMA LastPutBefore ==
  ASSUME NEW n, NEW v, NEW p, Appended(n, v, p), NEW r \in 1..Len(revs), LastPut(r)'
  PROVE  LastPut(r) /\ revs'[r] = revs[r] /\ (revs[r].id = n => v = Gone)
<1>1. Len(revs) \in Nat /\ Len(revs') = Len(revs) + 1 /\ revs'[r] = revs[r]
  BY DEF Appended
<1>2. \A s \in (r + 1)..(Len(revs) + 1) : revs'[s].id = revs[r].id => revs'[s].addr = Gone
  BY <1>1 DEF LastPut, Revision
<1>3. \A s \in (r + 1)..Len(revs) : revs'[s] = revs[s] /\ s \in (r + 1)..(Len(revs) + 1)
  BY <1>1 DEF Appended
<1>4. LastPut(r)
  BY <1>1, <1>2, <1>3 DEF LastPut, Revision
<1>5. Len(revs) + 1 \in (r + 1)..(Len(revs) + 1)
  BY <1>1
<1> QED
  BY <1>1, <1>2, <1>4, <1>5 DEF Appended

-----------------------------------------------------------------------------
(* The steps of the servers and of etcd.                                   *)

\* No process becomes new again, and the follower is elsewhere.
ServerStep ==
  /\ proc' \in [Procs -> Phases] /\ \A q \in Procs : proc[q] # "new" => proc'[q] # "new"
  /\ fleet' = fleet /\ watch' = watch

LEMMA StepIsServerStep ==
  ASSUME IInv, NEW p \in Procs, NEW from, NEW to \in Phases \ {"new"}, Step(p, from, to)
  PROVE  ServerStep /\ proc'[p] = to /\ proc[p] \in from
  BY DEF IInv, EtcdOK, Step, ServerStep

\* Steps that leave etcd alone.
LEMMA QuietServer ==
  ASSUME IInv, ServerStep, UNCHANGED etcdVars
  PROVE  IInv'
<1>1. EtcdOK' /\ WatchOK' /\ Chained' /\ SnapshotIsExact' /\ NewestRegistrationStays'
  BY DEF IInv, ServerStep, etcdVars, EtcdOK, WatchOK, Chained, SnapshotIsExact, StateAt, Revision,
         NewestRegistrationStays, LastPut
<1>2. EventsAreOwn'
  <2> SUFFICES ASSUME NEW r \in 1..Len(revs)
               PROVE  revs[r].id = fleet[revs[r].lease].id /\ proc'[revs[r].lease] # "new"
    BY DEF EventsAreOwn, Revision, IdOf, ServerStep, etcdVars
  <2>1. revs[r] \in Revs
    BY DEF IInv, EtcdOK
  <2> QED
    BY <2>1 DEF IInv, EventsAreOwn, Revision, IdOf, Revs, ServerStep
<1> QED
  BY <1>1, <1>2 DEF IInv

LEMMA GrantStep ==
  ASSUME IInv, NEW p \in Procs, Grant(p)
  PROVE  IInv'
<1>1. ServerStep /\ proc'[p] = "granted" /\ proc[p] = "new"
  BY StepIsServerStep DEF Grant, Phases
<1>2. leases' = leases \cup {p} /\ revs' = revs /\ holder' = holder
  BY DEF Grant
<1>3. \A r \in 1..Revision : revs[r] \in Revs /\ revs[r].lease # p
  BY <1>1 DEF IInv, EtcdOK, EventsAreOwn, Revision
<1>4. EtcdOK' /\ WatchOK' /\ Chained' /\ SnapshotIsExact'
  BY <1>1, <1>2 DEF IInv, ServerStep, EtcdOK, WatchOK, Chained, SnapshotIsExact, StateAt, Revision
<1>5. EventsAreOwn'
  BY <1>1, <1>2, <1>3 DEF IInv, EventsAreOwn, Revision, IdOf, Revs, ServerStep
<1>6. NewestRegistrationStays'
  BY <1>2, <1>3 DEF IInv, NewestRegistrationStays, LastPut, Revision
<1> QED
  BY <1>4, <1>5, <1>6 DEF IInv

LEMMA PutStep ==
  ASSUME IInv, NEW p \in Procs, PutMember(p)
  PROVE  IInv'
<1>1. ServerStep /\ proc'[p] = "put"
  BY StepIsServerStep DEF PutMember, Phases
<1>2. p \in leases /\ leases' = leases /\ IdOf(p) \in Nodes /\ AddrOf(p) \in Addrs
  BY DEF PutMember, IInv, EtcdOK, IdOf, AddrOf
<1>3. holder' = [holder EXCEPT ![IdOf(p)] = p] /\ Commit(IdOf(p), AddrOf(p), p)
  BY DEF PutMember, Put
<1>4. Appended(IdOf(p), AddrOf(p), p)
  BY <1>2, <1>3, CommitFacts DEF IInv
<1>5. EtcdOK'
  BY <1>1, <1>2, <1>3, <1>4 DEF IInv, EtcdOK, ServerStep, Appended
<1>6. WatchOK' /\ SnapshotIsExact' /\ Chained'
  BY <1>1, <1>4, KeepsWatch, KeepsChained DEF IInv, ServerStep
<1>7. EventsAreOwn'
  BY <1>1, <1>4, KeepsEvents DEF IInv, ServerStep
<1>8. NewestRegistrationStays'
  <2> SUFFICES ASSUME NEW r \in 1..Len(revs'), LastPut(r)'
               PROVE  holder'[revs'[r].id]
                        = (IF revs'[r].lease \in leases THEN revs'[r].lease ELSE NoLease)
    BY <1>2 DEF NewestRegistrationStays, Revision
  <2>1. CASE r = Len(revs) + 1
    <3>1. revs'[r].id = IdOf(p) /\ revs'[r].lease = p
      BY <2>1, <1>4 DEF Appended
    <3> QED
      BY <3>1, <1>2, <1>3 DEF IInv, EtcdOK
  <2>2. CASE r \in 1..Len(revs)
    <3>1. LastPut(r) /\ revs'[r] = revs[r] /\ (revs[r].id = IdOf(p) => AddrOf(p) = Gone)
      BY <2>2, <1>4, LastPutBefore
    <3>2. revs[r].id # IdOf(p) /\ revs[r].id \in Nodes
      <4>1. revs[r] \in Revs
        BY <2>2 DEF IInv, EtcdOK
      <4> QED
        BY <4>1, <3>1, <1>2, MembershipAssumption DEF Revs
    <3>3. holder'[revs[r].id] = holder[revs[r].id]
      BY <3>2, <1>3 DEF IInv, EtcdOK
    <3> QED
      BY <3>1, <3>3, <2>2 DEF IInv, NewestRegistrationStays, Revision
  <2> QED
    BY <2>1, <2>2, <1>4 DEF Appended
<1> QED
  BY <1>5, <1>6, <1>7, <1>8 DEF IInv

LEMMA DropStep ==
  ASSUME IInv, NEW p \in Procs, Drop(p), ServerStep, proc'[p] # "new"
  PROVE  IInv'
<1>1. p \in leases /\ leases' = leases \ {p} /\ IdOf(p) \in Nodes
  BY DEF Drop, IInv, EtcdOK, IdOf
<1>2. \A r \in 1..Revision : revs[r] \in Revs /\ revs[r].id = IdOf(revs[r].lease)
  BY DEF IInv, EtcdOK, EventsAreOwn, Revision
<1>3. CASE holder[IdOf(p)] = p
  <2>1. holder' = [holder EXCEPT ![IdOf(p)] = NoLease] /\ Commit(IdOf(p), Gone, p)
    BY <1>3 DEF Drop
  <2>2. Appended(IdOf(p), Gone, p)
    BY <1>1, <2>1, CommitFacts DEF IInv
  <2>3. EtcdOK'
    BY <1>1, <2>1, <2>2 DEF IInv, EtcdOK, ServerStep, Appended
  <2>4. WatchOK' /\ SnapshotIsExact' /\ Chained'
    BY <2>2, KeepsWatch, KeepsChained DEF IInv, ServerStep
  <2>5. EventsAreOwn'
    BY <2>2, KeepsEvents DEF IInv, ServerStep
  <2>6. NewestRegistrationStays'
    <3> SUFFICES ASSUME NEW r \in 1..Len(revs'), LastPut(r)'
                 PROVE  holder'[revs'[r].id]
                          = (IF revs'[r].lease \in leases' THEN revs'[r].lease ELSE NoLease)
      BY DEF NewestRegistrationStays, Revision
    <3>1. r \in 1..Len(revs)
      <4>1. r # Len(revs) + 1
        BY <2>2 DEF Appended, LastPut
      <4> QED
        BY <4>1, <2>2 DEF Appended
    <3>2. LastPut(r) /\ revs'[r] = revs[r]
      BY <3>1, <2>2, LastPutBefore
    <3>3. holder[revs[r].id] = (IF revs[r].lease \in leases THEN revs[r].lease ELSE NoLease)
      BY <3>1, <3>2 DEF IInv, NewestRegistrationStays, Revision
    <3>4. revs[r].id \in Nodes /\ revs[r].id = IdOf(revs[r].lease)
      BY <3>1, <1>2 DEF Revs, Revision
    <3>5. CASE revs[r].id = IdOf(p)
      <4>1. revs[r].lease = p
        BY <3>3, <3>5, <1>3, MembershipAssumption
      <4> QED
        BY <4>1, <3>2, <3>5, <2>1, <1>1 DEF IInv, EtcdOK
    <3>6. CASE revs[r].id # IdOf(p)
      <4>1. revs[r].lease # p
        BY <3>4, <3>6
      <4>2. holder'[revs[r].id] = holder[revs[r].id]
        BY <3>4, <3>6, <2>1 DEF IInv, EtcdOK
      <4> QED
        BY <4>1, <4>2, <3>2, <3>3, <1>1
    <3> QED
      BY <3>5, <3>6
  <2> QED
    BY <2>3, <2>4, <2>5, <2>6 DEF IInv
<1>4. CASE holder[IdOf(p)] # p
  <2>1. holder' = holder /\ revs' = revs
    BY <1>4 DEF Drop
  <2>2. EtcdOK' /\ WatchOK' /\ Chained' /\ SnapshotIsExact'
    BY <1>1, <2>1 DEF IInv, ServerStep, EtcdOK, WatchOK, Chained, SnapshotIsExact, StateAt, Revision
  <2>3. EventsAreOwn'
    BY <1>2, <2>1 DEF IInv, EventsAreOwn, Revision, IdOf, Revs, ServerStep
  <2>4. NewestRegistrationStays'
    BY <1>1, <1>2, <1>4, <2>1 DEF IInv, NewestRegistrationStays, LastPut, Revision
  <2> QED
    BY <2>2, <2>3, <2>4 DEF IInv
<1> QED
  BY <1>3, <1>4

LEMMA ServerSteps ==
  ASSUME IInv, NEW p \in Procs, Server(p)
  PROVE  IInv'
<1>1. CASE Grant(p)
  BY <1>1, GrantStep
<1>2. CASE PutMember(p)
  BY <1>2, PutStep
<1>3. CASE KeepAlive(p) \/ Exit(p)
  <2>1. ServerStep /\ UNCHANGED etcdVars
    BY <1>3, StepIsServerStep DEF KeepAlive, Exit, Phases
  <2> QED
    BY <2>1, QuietServer
<1>4. CASE RegisterFails(p) \/ Release(p)
  <2>1. ServerStep /\ proc'[p] # "new" /\ Revoke(p)
    BY <1>4, StepIsServerStep DEF RegisterFails, Release, Phases
  <2>2. CASE Drop(p)
    BY <2>1, <2>2, DropStep
  <2>3. CASE UNCHANGED etcdVars
    BY <2>1, <2>3, QuietServer
  <2> QED
    BY <2>1, <2>2, <2>3 DEF Revoke
<1>5. CASE Expire(p)
  <2>1. Drop(p) /\ proc' = proc /\ fleet' = fleet /\ watch' = watch /\ p \in leases
    BY <1>5 DEF Expire, Drop
  <2>2. ServerStep /\ proc'[p] # "new"
    BY <2>1 DEF ServerStep, IInv, EtcdOK
  <2> QED
    BY <2>1, <2>2, DropStep
<1> QED
  BY <1>1, <1>2, <1>3, <1>4, <1>5 DEF Server

-----------------------------------------------------------------------------
(* The steps of the follower.                                              *)

LEMMA ServersUntouched ==
  ASSUME IInv, UNCHANGED serverVars, WatchOK', SnapshotIsExact'
  PROVE  IInv'
  BY DEF IInv, serverVars, etcdVars, EtcdOK, Chained, EventsAreOwn, StateAt, Revision, IdOf,
         NewestRegistrationStays, LastPut

\* The steps that neither read nor change the map and the revision.
LEMMA SameMap ==
  ASSUME IInv, UNCHANGED serverVars,
         NEW ph \in {"watching", "closed"},
         watch' = watch \/ watch' = [watch EXCEPT !.phase = ph]
  PROVE  IInv'
<1>1. revs' = revs
  BY DEF serverVars, etcdVars
<1>2. /\ watch'.members = watch.members /\ watch'.rev = watch.rev /\ watch'.upto = watch.upto
      /\ watch'.phase = watch.phase \/ watch'.phase = ph
      /\ watch' \in [phase : {"off", "sending", "watching", "applying", "closed"},
                     members : Keys, rev : Nat, upto : Nat]
  BY DEF IInv, WatchOK
<1>3. WatchOK'
  BY <1>1, <1>2 DEF IInv, WatchOK, Revision
<1>4. SnapshotIsExact'
  BY <1>1, <1>2 DEF IInv, SnapshotIsExact, StateAt
<1> QED
  BY <1>3, <1>4, ServersUntouched

LEMMA SubscribeStep ==
  ASSUME IInv, Subscribe
  PROVE  IInv'
<1>1. revs' = revs /\ UNCHANGED serverVars /\ Len(revs) \in Nat
  BY DEF Subscribe, serverVars, etcdVars, IInv, EtcdOK
<1>2. StateAt(Len(revs)) \in Keys
  BY <1>1, StateAtType DEF IInv, Revision
<1>3. watch' = [phase |-> "sending", members |-> StateAt(Len(revs)),
                rev |-> Len(revs), upto |-> Len(revs)]
  BY DEF Subscribe, Revision
<1>4. WatchOK'
  BY <1>1, <1>2, <1>3 DEF WatchOK, Revision
<1>5. SnapshotIsExact'
  BY <1>1, <1>3 DEF SnapshotIsExact, StateAt
<1> QED
  BY <1>1, <1>4, <1>5, ServersUntouched

LEMMA DeliverStep ==
  ASSUME IInv, NEW r \in 1..Revision, Deliver(r)
  PROVE  IInv'
<1>1. /\ revs' = revs /\ UNCHANGED serverVars /\ Len(revs) \in Nat
      /\ watch' = [watch EXCEPT !.phase = "applying", !.upto = r] /\ watch.rev < r
      /\ watch.phase = "watching"
  BY DEF Deliver, serverVars, etcdVars, IInv, EtcdOK
<1>2. r \in Nat /\ r <= Len(revs) /\ watch.rev \in Nat
  BY <1>1 DEF IInv, WatchOK, Revision
<1>3. /\ watch'.members = watch.members /\ watch'.rev = watch.rev /\ watch'.upto = r
      /\ watch' \in [phase : {"off", "sending", "watching", "applying", "closed"},
                     members : Keys, rev : Nat, upto : Nat]
  BY <1>1, <1>2 DEF IInv, WatchOK
<1>4. WatchOK'
  BY <1>1, <1>2, <1>3 DEF WatchOK, Revision
<1>5. SnapshotIsExact'
  BY <1>1, <1>3 DEF IInv, SnapshotIsExact, StateAt
<1> QED
  BY <1>1, <1>4, <1>5, ServersUntouched

\* The heart of the watcher: its map after the event of the next revision is that
\* revision's state, because of Chained.
LEMMA ApplyStep ==
  ASSUME IInv, Apply
  PROVE  IInv'
<1> DEFINE r == watch.rev + 1
<1>1. revs' = revs /\ UNCHANGED serverVars /\ Len(revs) \in Nat /\ watch.phase = "applying"
  BY DEF Apply, serverVars, etcdVars, IInv, EtcdOK
<1>2. r \in 1..Len(revs) /\ r - 1 = watch.rev /\ r # 0 /\ r <= watch.upto
  BY <1>1 DEF IInv, WatchOK, Revision
<1>3. revs[r] \in Revs
  BY <1>2 DEF IInv, EtcdOK
<1>4. revs[r].id \in Nodes /\ revs[r].addr \in Addrs \cup {Gone} /\ watch.members \in Keys
  BY <1>3 DEF Revs, IInv, WatchOK
<1>5. revs[r].state = [watch.members EXCEPT ![revs[r].id] = revs[r].addr]
  <2>1. revs[r].state = [StateAt(r - 1) EXCEPT ![revs[r].id] = revs[r].addr]
    BY <1>2 DEF IInv, Chained, Revision
  <2>2. watch.members = StateAt(watch.rev)
    BY <1>1 DEF IInv, SnapshotIsExact
  <2> QED
    BY <2>1, <2>2, <1>2
<1>6. /\ watch'.members = [watch.members EXCEPT ![revs[r].id] = revs[r].addr]
      /\ watch'.rev = r /\ watch'.upto = watch.upto
      /\ watch'.phase = (IF r = watch.upto THEN "sending" ELSE "applying")
      /\ watch' \in [phase : {"off", "sending", "watching", "applying", "closed"},
                     members : Keys, rev : Nat, upto : Nat]
  <2>1. [watch.members EXCEPT ![revs[r].id] = revs[r].addr] \in Keys
    BY <1>4 DEF Keys
  <2> DEFINE m == [watch.members EXCEPT ![revs[r].id] = revs[r].addr]
             ph == IF r = watch.upto THEN "sending" ELSE "applying"
  <2>2. watch' = [watch EXCEPT !.members = m, !.rev = r, !.phase = ph]
    BY DEF Apply, IInv, WatchOK
  <2>3. m \in Keys /\ r \in Nat /\ ph \in {"sending", "applying"}
    BY <1>2, <2>1
  <2> HIDE DEF m, ph, r
  <2>4. /\ watch'.members = m /\ watch'.rev = r /\ watch'.upto = watch.upto /\ watch'.phase = ph
        /\ watch' \in [phase : {"off", "sending", "watching", "applying", "closed"},
                       members : Keys, rev : Nat, upto : Nat]
    BY <2>2, <2>3 DEF IInv, WatchOK
  <2> QED
    BY <2>4 DEF m, ph
<1>7. WatchOK'
  BY <1>1, <1>2, <1>6 DEF IInv, WatchOK, Revision
<1>8. SnapshotIsExact'
  BY <1>1, <1>2, <1>5, <1>6 DEF SnapshotIsExact, StateAt
<1> QED
  BY <1>1, <1>7, <1>8, ServersUntouched

-----------------------------------------------------------------------------
LEMMA InitOK == Init => IInv
<1> SUFFICES ASSUME Init PROVE IInv
  OBVIOUS
<1>1. revs = <<>> /\ Len(revs) = 0 /\ Revision = 0
  BY DEF Init, Revision
<1>2. EtcdOK
  BY <1>1, MembershipAssumption DEF Init, EtcdOK, Phases
<1>3. WatchOK /\ SnapshotIsExact
  BY <1>1, MembershipAssumption DEF Init, WatchOK, SnapshotIsExact, StateAt, Keys
<1>4. Chained /\ EventsAreOwn /\ NewestRegistrationStays
  BY <1>1 DEF Chained, EventsAreOwn, NewestRegistrationStays
<1> QED
  BY <1>2, <1>3, <1>4 DEF IInv

LEMMA NextOK == IInv /\ [Next]_vars => IInv'
<1> SUFFICES ASSUME IInv, [Next]_vars PROVE IInv'
  OBVIOUS
<1>1. CASE \E p \in Procs : Server(p)
  BY <1>1, ServerSteps
<1>2. CASE Subscribe
  BY <1>2, SubscribeStep
<1>3. CASE Apply
  BY <1>3, ApplyStep
<1>4. CASE \E arrival \in R!Arrivals : Receive(arrival)
  <2>1. UNCHANGED serverVars /\ watch.phase = "sending" /\ watch' = [watch EXCEPT !.phase = "watching"]
    BY <1>4 DEF Receive
  <2> QED
    BY <2>1, SameMap
<1>5. CASE \E r \in 1..Revision : Deliver(r)
  BY <1>5, DeliverStep
<1>6. CASE GiveUp \/ CloseRouter \/ UNCHANGED vars
  <2>1. UNCHANGED serverVars /\ watch' = watch
    BY <1>6 DEF GiveUp, CloseRouter, vars
  <2> QED
    BY <2>1, SameMap
<1>7. CASE WatchEnds
  BY <1>7, SameMap DEF WatchEnds
<1>8. CASE Cancel
  BY <1>8, SameMap DEF Cancel
<1> QED
  BY <1>1, <1>2, <1>3, <1>4, <1>5, <1>6, <1>7, <1>8 DEF Next, Follow

\* Every step of Register, release and the leases, and every step of WatchMembers, keeps
\* the history of etcd chained and the watcher at a revision it has applied in full.
THEOREM Invariance == Spec => []IInv
  BY InitOK, NextOK, PTL DEF Spec

\* "no event between the Get and the Watch is missed or double-applied"
\* (membership.go:140), for every history of etcd and every cut of it into batches.
THEOREM WatcherIsExact == Spec => []SnapshotIsExact
<1>1. IInv => SnapshotIsExact
  BY DEF IInv
<1> QED
  BY <1>1, Invariance, PTL

\* The release, expiry or failed registration of one process never removes the key a
\* later process of the same node ID has put, for any number of them.
THEOREM RegistrationStays == Spec => []NewestRegistrationStays
<1>1. IInv => NewestRegistrationStays
  BY DEF IInv
<1> QED
  BY <1>1, Invariance, PTL

-----------------------------------------------------------------------------
(* The follower's router.                                                  *)

\* SetMembers adds and removes the same nodes in the pool and on the ring.
LEMMA SetMembersFacts ==
  ASSUME NEW desired, NEW arrival, R!SetMembers(desired, arrival)
  PROVE  /\ DOMAIN pool' = (DOMAIN pool \cup R!Joining(desired)) \ R!Leaving(desired)
         /\ members' = (members \cup R!Joining(desired)) \ R!Leaving(desired)
         /\ closed' = closed
  BY Zenon DEF R!SetMembers, R!Reconnect

LEMMA SetMembersKeeps ==
  ASSUME R!PoolMatchesRing, NEW desired, NEW arrival, R!SetMembers(desired, arrival)
  PROVE  R!PoolMatchesRing'
  BY SetMembersFacts, Zenon DEF R!PoolMatchesRing

LEMMA CloseKeeps ==
  ASSUME R!PoolMatchesRing, R!Close
  PROVE  R!PoolMatchesRing'
<1>1. DOMAIN pool' = {} /\ closed'
  BY DEF R!Close
<1> QED
  BY <1>1 DEF R!PoolMatchesRing

\* After a snapshot the pool holds nodes of the snapshot only, and all of them that can
\* be dialled.
LEMMA SetMembersFollows ==
  ASSUME NEW desired, NEW arrival, R!SetMembers(desired, arrival)
  PROVE  /\ \A n \in DOMAIN pool' : n \in DOMAIN desired
         /\ \A n \in DOMAIN desired : desired[n] # BadAddr => n \in DOMAIN pool'
<1>1. \A n : n \in DOMAIN pool' <=>
         (n \in DOMAIN pool \/ n \in R!Joining(desired)) /\ n \notin R!Leaving(desired)
  BY SetMembersFacts, Zenon
<1>2. \A n : n \in R!Leaving(desired) <=> n \in DOMAIN pool /\ n \notin DOMAIN desired
  BY Zenon DEF R!Leaving
<1>3. \A n : n \in R!Joining(desired) <=>
         n \in DOMAIN desired /\ n \notin DOMAIN pool /\ desired[n] # BadAddr
  BY Zenon DEF R!Joining
<1> QED
  BY <1>1, <1>2, <1>3, Zenon

\* While the watcher has sent everything it has applied, the ring is its map.
Routed ==
  watch.phase \in {"watching", "closed"} /\ ~closed =>
    /\ \A n \in members : n \in Nodes /\ watch.members[n] # Gone
    /\ \A n \in Nodes : watch.members[n] \notin {Gone, BadAddr} => n \in members

LEMMA ReceiveRoutes ==
  ASSUME R!PoolMatchesRing, WatchOK, NEW arrival, Receive(arrival)
  PROVE  R!PoolMatchesRing' /\ Routed'
<1>1. R!SetMembers(Snapshot, arrival) /\ watch'.members = watch.members
  BY DEF Receive, WatchOK
<1>2. R!PoolMatchesRing'
  BY <1>1, SetMembersKeeps, Zenon
<1>3. /\ \A n \in DOMAIN Snapshot : n \in Nodes /\ watch.members[n] # Gone
      /\ \A n \in Nodes : watch.members[n] # Gone =>
            n \in DOMAIN Snapshot /\ Snapshot[n] = watch.members[n]
  BY DEF Snapshot
<1>4. ~closed' => \A n : n \in members' <=> n \in DOMAIN pool'
  BY <1>2, Zenon DEF R!PoolMatchesRing
<1>5. /\ \A n \in DOMAIN pool' : n \in DOMAIN Snapshot
      /\ \A n \in DOMAIN Snapshot : Snapshot[n] # BadAddr => n \in DOMAIN pool'
  BY <1>1, SetMembersFollows, Zenon
<1> QED
  BY <1>1, <1>2, <1>3, <1>4, <1>5, Zenon DEF Routed

\* What a step does with the router.
LEMMA RouterUse ==
  ASSUME [Next]_vars
  PROVE  \/ UNCHANGED routerVars \/ CloseRouter
         \/ \E arrival \in R!Arrivals : Receive(arrival)
  BY Zenon DEF Next, Server, Follow, Subscribe, Apply, Deliver, GiveUp, WatchEnds, Cancel, vars,
               Grant, PutMember, KeepAlive, RegisterFails, Release, Exit, Expire, Step

LEMMA RoutedStep ==
  ASSUME IInv, R!PoolMatchesRing, Routed, [Next]_vars
  PROVE  R!PoolMatchesRing' /\ Routed'
<1>1. CASE \E arrival \in R!Arrivals : Receive(arrival)
  BY <1>1, ReceiveRoutes, Zenon DEF IInv
<1>2. CASE CloseRouter
  <2>1. R!PoolMatchesRing'
    BY <1>2, CloseKeeps, Zenon DEF CloseRouter
  <2>2. closed'
    BY <1>2, Zenon DEF CloseRouter, R!Close
  <2> QED
    BY <2>1, <2>2, Zenon DEF Routed
<1>3. CASE UNCHANGED routerVars
  <2>1. R!PoolMatchesRing' /\ members' = members /\ closed' = closed
    BY <1>3, Zenon DEF routerVars, R!PoolMatchesRing
  <2>2. CASE watch' = watch
    BY <2>1, <2>2, Zenon DEF Routed
  <2>3. CASE Subscribe \/ (\E r \in 1..Revision : Deliver(r))
    <3>1. CASE Subscribe
      <4>1. watch'.phase = "sending"
        BY <3>1 DEF Subscribe
      <4> QED
        BY <2>1, <4>1 DEF Routed
    <3>2. CASE \E r \in 1..Revision : Deliver(r)
      <4>1. PICK r \in 1..Revision : watch' = [watch EXCEPT !.phase = "applying", !.upto = r]
        BY <3>2, Zenon DEF Deliver
      <4>2. watch'.phase = "applying"
        BY <4>1 DEF IInv, WatchOK
      <4> QED
        BY <2>1, <4>2 DEF Routed
    <3> QED
      BY <2>3, <3>1, <3>2, Zenon
  <2>4. CASE Apply
    <3>1. watch'.phase \in {"sending", "applying"}
      BY <2>4 DEF Apply, IInv, WatchOK
    <3>2. watch'.phase \notin {"watching", "closed"}
      BY <3>1
    <3> QED
      BY <2>1, <3>2, Zenon DEF Routed
  <2>5. CASE WatchEnds
    <3>1. watch.phase = "watching" /\ watch'.members = watch.members
      BY <2>5 DEF WatchEnds, IInv, WatchOK
    <3> QED
      BY <2>1, <3>1, Zenon DEF Routed
  <2>6. CASE Cancel
    BY <2>1, <2>6, Zenon DEF Cancel, Routed
  <2>7. \/ watch' = watch \/ Subscribe \/ (\E r \in 1..Revision : Deliver(r))
        \/ Apply \/ WatchEnds \/ Cancel \/ (\E arrival \in R!Arrivals : Receive(arrival))
    BY Zenon DEF Next, Server, Follow, GiveUp, CloseRouter, vars, Grant, PutMember, KeepAlive,
                 RegisterFails, Release, Exit, Expire, Step
  <2> QED
    BY <1>1, <2>1, <2>2, <2>3, <2>4, <2>5, <2>6, <2>7, Zenon
<1> QED
  BY <1>1, <1>2, <1>3, RouterUse, Zenon

\* The invariant of the follower, over every step of the servers, etcd, the watch and the
\* router (SetMembers and Close).
THEOREM FollowerStaysRouted == Spec => [](IInv /\ R!PoolMatchesRing /\ Routed)
<1>1. Init => R!PoolMatchesRing /\ Routed
  <2> SUFFICES ASSUME Init PROVE R!PoolMatchesRing /\ Routed
    OBVIOUS
  <2>1. R!PoolMatchesRing
    BY DEF Init, R!Init, R!PoolMatchesRing
  <2>2. watch.phase \notin {"watching", "closed"}
    BY DEF Init
  <2> QED
    BY <2>1, <2>2, Zenon DEF Routed
<1>2. IInv /\ R!PoolMatchesRing /\ Routed /\ [Next]_vars => R!PoolMatchesRing' /\ Routed'
  BY RoutedStep
<1> QED
  BY <1>1, <1>2, InitOK, NextOK, PTL DEF Spec

\* The ring a process routes by is the membership at the revision its watch has applied,
\* for any processes, addresses and batches, and it stays so when the watch fails.
THEOREM RingFollowsWatch == Spec => []RingIsSnapshot
<1>1. IInv /\ R!PoolMatchesRing /\ Routed => RingIsSnapshot
  BY Zenon DEF IInv, SnapshotIsExact, Routed, RingIsSnapshot
<1> QED
  BY <1>1, FollowerStaysRouted, PTL

-----------------------------------------------------------------------------
(* The follower's router is a Router.                                      *)

\* What sendSnapshot sends is a set of members at addresses.
LEMMA SnapshotIsOne ==
  ASSUME WatchOK
  PROVE  Snapshot \in R!Snapshots
<1> DEFINE S == {m \in Nodes : watch.members[m] # Gone}
<1>1. watch.members \in Keys
  BY DEF WatchOK
<1>2. \A n \in S : watch.members[n] \in Addrs
  BY <1>1, Zenon DEF Keys
<1>3. Snapshot = [n \in S |-> watch.members[n]]
  BY Zenon DEF Snapshot
<1>4. S \in SUBSET Nodes
  BY Zenon
<1> HIDE DEF S
<1>5. Snapshot \in [S -> Addrs]
  BY <1>2, <1>3, Zenon
<1> QED
  BY <1>4, <1>5, Zenon DEF R!Snapshots

\* A step of the servers, of etcd, of the watch or of the follower leaves the router alone,
\* gives it a snapshot or closes it.
LEMMA RouterSteps ==
  ASSUME IInv, [Next]_vars
  PROVE  [R!Next]_(R!vars)
<1>1. CASE \E arrival \in R!Arrivals : Receive(arrival)
  <2>1. PICK arrival \in R!Arrivals : R!SetMembers(Snapshot, arrival)
    BY <1>1, Zenon DEF Receive
  <2>2. Snapshot \in R!Snapshots
    BY SnapshotIsOne, Zenon DEF IInv
  <2> QED
    BY <2>1, <2>2, Zenon DEF R!Next
<1>2. CASE CloseRouter
  BY <1>2, Zenon DEF CloseRouter, R!Next
<1>3. CASE UNCHANGED routerVars
  BY <1>3, Zenon DEF routerVars, R!vars
<1> QED
  BY <1>1, <1>2, <1>3, RouterUse, Zenon

\* WatchMembers, DriveRouter and the shutdown drive the router only as its specification
\* allows, so what holds of every Router holds of the one a process routes by: it is the
\* one of the processes that follow the same membership, its owners are the nearest nodes,
\* and its connections are those of its ring (RouterProofs).
THEOREM FollowerRunsARouter == Spec => R!Spec
<1>1. Init => R!Init
  BY Zenon DEF Init
<1>2. IInv /\ [Next]_vars => [R!Next]_(R!vars)
  BY RouterSteps
<1> QED
  BY <1>1, <1>2, Invariance, PTL DEF Spec, R!Spec

\* The types of etcd, the servers, the watch and the client hold; those of the router are
\* RouterTyped, for the Router that FollowerRunsARouter shows it to be.
THEOREM FollowerTyped == Spec /\ []R!TypeOK => []TypeOK
<1> DEFINE Rest == fleet \in Fleets /\ client \in {"waiting", "driving", "dead", "done"}
<1>1. Init => Rest
  BY DEF Init
<1>2. Rest /\ [Next]_vars => Rest'
  <2> SUFFICES ASSUME Rest, [Next]_vars
               PROVE  Rest'
    OBVIOUS
  <2>1. fleet' = fleet
    BY Zenon DEF Next, Server, Follow, Subscribe, Apply, Receive, Deliver, GiveUp, WatchEnds,
                 CloseRouter, Cancel, vars, serverVars, Grant, PutMember, KeepAlive,
                 RegisterFails, Release, Exit, Expire, Step
  <2>2. client' = client \/ client' \in {"driving", "dead", "done"}
    BY Zenon DEF Next, Server, Follow, Subscribe, Apply, Receive, Deliver, GiveUp, WatchEnds,
                 CloseRouter, Cancel, vars, serverVars, Grant, PutMember, KeepAlive,
                 RegisterFails, Release, Exit, Expire, Step
  <2> QED
    BY <2>1, <2>2, Zenon
<1>3. IInv /\ Rest /\ R!TypeOK => TypeOK
  <2> SUFFICES ASSUME IInv, Rest, R!TypeOK
               PROVE  TypeOK
    OBVIOUS
  <2>1. watch \in [phase : {"off", "sending", "watching", "applying", "closed"},
                   members : Keys, rev : 0..Revision, upto : 0..Revision]
    <3>1. Revision \in Nat
      BY DEF IInv, EtcdOK, Revision
    <3>2. watch.rev \in 0..Revision /\ watch.upto \in 0..Revision
      BY <3>1 DEF IInv, WatchOK
    <3> QED
      BY <3>2 DEF IInv, WatchOK
  <2> QED
    BY <2>1, Zenon DEF TypeOK, IInv, EtcdOK, Revs
<1> HIDE DEF Rest
<1> QED
  BY <1>1, <1>2, <1>3, Invariance, PTL DEF Spec
=============================================================================
