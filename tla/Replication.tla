----------------------------- MODULE Replication -----------------------------
(***************************************************************************)
(* The copies of one block in a cluster of cache servers: the hot copy of  *)
(* every node (internal/server/server.go over the store), the primary's    *)
(* asynchronous replicator (internal/server/replicator.go), the S3 cold    *)
(* tier (internal/coldtier/s3.go), etcd membership as the routers see it   *)
(* (internal/coord, internal/cluster) and the life of a process            *)
(* (cmd/cache-server/main.go).                                             *)
(*                                                                         *)
(* A copy is its version, 0 where there is none: blocks are named by the   *)
(* hash of their content, so two copies differ in nothing else.  The other *)
(* blocks are the environment: they fill queues and cause pressure.  A     *)
(* store is one number per node, changed as the module Versions allows,    *)
(* which the store of module Shard is shown to implement.                  *)
(***************************************************************************)
EXTENDS Integers, Sequences, FiniteSets, Versions

CONSTANTS
  Nodes,          \* cache servers
  Order,          \* the nodes clockwise on the ring from the block's root hash
  RF,             \* -rf
  ClientRouter,   \* the router of the clients
  Handlers,       \* concurrent RPCs of clients
  QueueDepth,     \* replicaQueueDepth
  SpillWorkers,   \* defaultSpillWorkers
  SpillQueue,     \* defaultSpillQueue
  MaxWrites, MaxRemovals, MaxFetches, MaxDepartures, MaxJoins
                  \* bounds on the number of such events in a behaviour

Routers == Nodes \cup {ClientRouter}

ASSUME ReplicationAssumption ==
  /\ Nodes # {} /\ ClientRouter \notin Nodes
  /\ Order \in Seq(Nodes) /\ Nodes = {Order[i] : i \in 1..Len(Order)}
  /\ \A i, j \in 1..Len(Order) : Order[i] = Order[j] => i = j
  /\ RF \in Nat \ {0} /\ QueueDepth \in Nat \ {0} /\ SpillQueue \in Nat \ {0}
  /\ {MaxWrites, MaxRemovals, MaxFetches, MaxDepartures, MaxJoins} \subseteq Nat

VARIABLES
  hot,       \* the version each node's store holds
  rpc,       \* what each handler is doing, on which node, with which version
  queue,     \* Replicator.queue of each node
  sending,   \* the job each replicator is forwarding and the peers left to send to
  jobs,      \* S3Tier.jobs of each node
  putting,   \* the version each spill worker is uploading, 0 when it waits for a job
  bucket,    \* the version of the block's object in the bucket all nodes share
  phase,     \* how far each process is in its life
  snapshots, \* the member sets etcd has held, in order
  seen,      \* which of them each router has applied, 0 when none
  count,     \* how many events of each bounded kind have happened
  happened,  \* history: the kinds of event that make a copy go or fail to arrive
  safe       \* history: the highest version all of the block's owners have held

nodeVars == <<queue, sending, jobs, putting>>
memberVars == <<phase, snapshots, seen>>
vars == <<hot, rpc, queue, sending, jobs, putting, bucket, phase, snapshots, seen,
          count, happened, safe>>

Events == {"write", "remove", "fetch", "depart", "join"}
Limit == [e \in Events |->
            CASE e = "write" -> MaxWrites [] e = "remove" -> MaxRemovals
              [] e = "fetch" -> MaxFetches [] e = "depart" -> MaxDepartures
              [] e = "join" -> MaxJoins]

\* "removed": a store has lost its copy to eviction or the Evict RPC; "deleted": the
\* Evict RPC has removed one and there was no Write since.
Happenings == {"dropped", "sendError", "spillDropped", "putError", "removed", "deleted",
               "departed"}

Idle == [at |-> "idle", node |-> Order[1], version |-> 0]
Waiting == [version |-> 0, peers |-> {}]

TypeOK ==
  /\ hot \in [Nodes -> Nat]
  /\ rpc \in [Handlers -> [at : {"idle", "enqueue", "cold", "readmit"}, node : Nodes,
                           version : Nat]]
  /\ queue \in [Nodes -> Seq(Nat \ {0})] /\ jobs \in [Nodes -> Seq(Nat \ {0})]
  /\ \A n \in Nodes : Len(queue[n]) <= QueueDepth /\ Len(jobs[n]) <= SpillQueue
  /\ sending \in [Nodes -> [version : Nat, peers : SUBSET Nodes]]
  /\ putting \in [Nodes -> [SpillWorkers -> Nat]] /\ bucket \in Nat
  /\ phase \in [Nodes -> {"up", "hung", "released", "stopping", "closing", "down"}]
  /\ snapshots \in Seq(SUBSET Nodes) /\ seen \in [Routers -> 0..Len(snapshots)]
  /\ count \in [Events -> Nat] /\ \A e \in Events : count[e] <= Limit[e]
  /\ happened \subseteq Happenings /\ safe \in Nat

Init ==
  /\ hot = [n \in Nodes |-> 0] /\ rpc = [h \in Handlers |-> Idle]
  /\ queue = [n \in Nodes |-> <<>>] /\ sending = [n \in Nodes |-> Waiting]
  /\ jobs = [n \in Nodes |-> <<>>]
  /\ putting = [n \in Nodes |-> [w \in SpillWorkers |-> 0]] /\ bucket = 0
  /\ phase = [n \in Nodes |-> "up"]
  /\ snapshots = <<Nodes>> /\ seen = [r \in Routers |-> 1]
  /\ count = [e \in Events |-> 0] /\ happened = {} /\ safe = 0

Count(e) == count[e] < Limit[e] /\ count' = [count EXCEPT ![e] = @ + 1]
Record(kinds) == happened' = happened \cup kinds

-----------------------------------------------------------------------------
(* Membership and placement.                                               *)

Members == snapshots[Len(snapshots)]
View(r) == IF seen[r] = 0 THEN {} ELSE snapshots[seen[r]]

\* The members between the key and a node on the ring, and the first of some nodes.
Pos(n) == CHOOSE i \in 1..Len(Order) : Order[i] = n
Ahead(view, n) == {p \in view : Pos(p) < Pos(n)}
Nearest(nodes) == CHOOSE n \in nodes : Ahead(nodes, n) = {}

\* Router.OwnersN: the first RF members clockwise from the key.
OwnersN(view) == {n \in view : Cardinality(Ahead(view, n)) < RF}

\* Mutant: the clients know the primary only.
PrimaryConn == {n \in View(ClientRouter) : Ahead(View(ClientRouter), n) = {}}

\* Router.OwnerConns: where the clients look, the primary first.
OwnerConns == OwnersN(View(ClientRouter))

\* A server accepts new RPCs until GracefulStop.
Serving(n) == phase[n] \in {"up", "released"}
Refuses(n) == phase[n] \in {"stopping", "closing", "down"}
Runs(n) == phase[n] \notin {"hung", "down"}
PutMember(n) == snapshots' = Append(snapshots, Members \cup {n})
DeleteMember(n) ==
  snapshots' = IF n \in Members THEN Append(snapshots, Members \ {n}) ELSE snapshots

\* Mutant: a router does not wait for a snapshot.
DriveRouterAhead(r) ==
  /\ r \in Nodes => Runs(r)
  /\ seen' = [seen EXCEPT ![r] = @ + 1]
  /\ UNCHANGED <<hot, rpc, nodeVars, bucket, phase, snapshots, count, happened>>

\* WatchMembers and DriveRouter: a router applies the next snapshot; its first one
\* is the state it reads when it subscribes.
DriveRouter(r) ==
  /\ r \in Nodes => Runs(r)
  /\ seen[r] < Len(snapshots)
  /\ seen' = [seen EXCEPT ![r] = IF @ = 0 THEN Len(snapshots) ELSE @ + 1]
  /\ UNCHANGED <<hot, rpc, nodeVars, bucket, phase, snapshots, count, happened>>

-----------------------------------------------------------------------------
(* The RPC handlers.                                                       *)

\* Write: the client sends it to the primary alone.  The store mints a version,
\* and the handler goes on to Enqueue.
Write(h) ==
  /\ rpc[h].at = "idle" /\ Count("write")
  /\ OwnerConns # {}
  /\ LET n == Nearest(OwnerConns) IN
       /\ Serving(n)
       /\ hot' = [hot EXCEPT ![n] = Put(@)]
       /\ rpc' = [rpc EXCEPT ![h] = [at |-> "enqueue", node |-> n, version |-> Put(hot[n])]]
  /\ happened' = happened \ {"deleted"}
  /\ UNCHANGED <<nodeVars, bucket, memberVars>>

\* Replicator.Enqueue never blocks: a full queue drops the job.  The jobs of other
\* blocks may fill it.
Enqueue(h) ==
  LET n == rpc[h].node IN
  /\ rpc[h].at = "enqueue"
  /\ \/ /\ Len(queue[n]) < QueueDepth
        /\ queue' = [queue EXCEPT ![n] = Append(@, rpc[h].version)]
        /\ UNCHANGED happened
     \/ Record({"dropped"}) /\ UNCHANGED queue
  /\ rpc' = [rpc EXCEPT ![h] = Idle]
  /\ UNCHANGED <<hot, sending, jobs, putting, bucket, memberVars, count>>

\* The client asks the owners in order and goes on to the next only when one refuses
\* the connection, never because it does not have the block.  It sets no deadline.
Answers(n) ==
  n \in OwnerConns /\ Serving(n) /\ \A p \in Ahead(OwnerConns, n) : Refuses(p)

\* Fetch (and one block of BatchFetch) that misses in the store.
FetchMiss(h) ==
  /\ rpc[h].at = "idle" /\ Count("fetch")
  /\ \E n \in Nodes :
       /\ Answers(n) /\ hot[n] = 0
       /\ rpc' = [rpc EXCEPT ![h] = [at |-> "cold", node |-> n, version |-> 0]]
  /\ UNCHANGED <<hot, nodeVars, bucket, memberVars, happened>>

\* coldHit up to the guards: a missing object, an error, or a version the request
\* did not ask for all end the RPC with NotFound.
ColdGet(h) ==
  /\ rpc[h].at = "cold"
  /\ \/ /\ bucket # 0
        /\ rpc' = [rpc EXCEPT ![h] = [at |-> "readmit", node |-> rpc[h].node, version |-> bucket]]
     \/ rpc' = [rpc EXCEPT ![h] = Idle]
  /\ UNCHANGED <<hot, nodeVars, bucket, memberVars, count, happened>>

\* coldHit, the rest: re-admit at the object's version unless over the hard limit.
Readmit(h) ==
  LET n == rpc[h].node IN
  /\ rpc[h].at = "readmit"
  /\ \/ hot' = [hot EXCEPT ![n] = PutWithVersion(@, rpc[h].version)]
     \/ UNCHANGED hot
  /\ rpc' = [rpc EXCEPT ![h] = Idle]
  /\ UNCHANGED <<nodeVars, bucket, memberVars, count, happened>>

\* The Evict RPC deletes the hot copy of the node it is sent to, and nothing else.
Evict(n) ==
  /\ Serving(n) /\ hot[n] # 0 /\ Count("remove")
  /\ hot' = [hot EXCEPT ![n] = 0] /\ Record({"removed", "deleted"})
  /\ UNCHANGED <<rpc, nodeVars, bucket, memberVars>>

\* Replicate: the replica stores under the primary's version and does not forward.
Replicate(n, v) == hot' = [hot EXCEPT ![n] = PutWithVersion(@, v)]

-----------------------------------------------------------------------------
(* The replicator's goroutine: Run takes a job and forward sends it to     *)
(* each owner but this node, one after the other.                          *)

\* forward is done with a job when there is nobody left to send it to.
Job(version, peers) ==
  IF peers = {} THEN Waiting ELSE [version |-> version, peers |-> peers]

Forward(n) ==
  /\ Runs(n) /\ sending[n] = Waiting /\ queue[n] # <<>>
  /\ queue' = [queue EXCEPT ![n] = Tail(@)]
  /\ sending' = [sending EXCEPT ![n] = Job(Head(queue[n]), OwnersN(View(n)) \ {n})]
  /\ UNCHANGED <<hot, rpc, jobs, putting, bucket, memberVars, count, happened>>

\* The job that is left once the nearest of its peers has been tried.
PeersLeft(n) == Job(sending[n].version, sending[n].peers \ {Nearest(sending[n].peers)})

\* Mutant: an error is retried with the same peer.
SendOneRetry(n) ==
  /\ Runs(n) /\ sending[n] # Waiting
  /\ \/ /\ phase[n] # "closing" /\ Serving(Nearest(sending[n].peers))
        /\ Replicate(Nearest(sending[n].peers), sending[n].version)
        /\ sending' = [sending EXCEPT ![n] = PeersLeft(n)]
        /\ UNCHANGED happened
     \/ Record({"sendError"}) /\ UNCHANGED <<hot, sending>>
  /\ UNCHANGED <<rpc, queue, jobs, putting, bucket, memberVars, count>>

\* sendOne, or no connection: router.Close empties the pool before Close of the
\* cold tier.  An error is logged and the next peer is tried.
SendOne(n) ==
  /\ Runs(n) /\ sending[n] # Waiting
  /\ \/ /\ phase[n] # "closing" /\ Serving(Nearest(sending[n].peers))
        /\ Replicate(Nearest(sending[n].peers), sending[n].version)
        /\ UNCHANGED happened
     \/ Record({"sendError"}) /\ UNCHANGED hot
  /\ sending' = [sending EXCEPT ![n] = PeersLeft(n)]
  /\ UNCHANGED <<rpc, queue, jobs, putting, bucket, memberVars, count>>

-----------------------------------------------------------------------------
(* Eviction and the spill workers.                                         *)

\* What is left of a process that has ended: nothing.  Its RPCs fail.
Vanish(n) ==
  /\ phase' = [phase EXCEPT ![n] = "down"]
  /\ hot' = [hot EXCEPT ![n] = 0]
  /\ rpc' = [h \in Handlers |-> IF rpc[h].node = n THEN Idle ELSE rpc[h]]
  /\ queue' = [queue EXCEPT ![n] = <<>>] /\ sending' = [sending EXCEPT ![n] = Waiting]
  /\ jobs' = [jobs EXCEPT ![n] = <<>>]
  /\ putting' = [putting EXCEPT ![n] = [w \in SpillWorkers |-> 0]]
  /\ seen' = [seen EXCEPT ![n] = 0]

\* Mutant: the entry goes and nothing is spilled.
SpillNothing(n) ==
  /\ Runs(n) /\ phase[n] # "closing" /\ hot[n] # 0 /\ Count("remove")
  /\ hot' = [hot EXCEPT ![n] = 0] /\ Record({"removed"})
  /\ UNCHANGED <<rpc, nodeVars, bucket, memberVars>>

\* Store.evict, for pressure or TTL: the entry goes and S3Tier.Spill never blocks.
\* The evictor runs until the process ends.
Spill(n) ==
  /\ Runs(n) /\ phase[n] # "closing" /\ hot[n] # 0 /\ Count("remove")
  /\ hot' = [hot EXCEPT ![n] = 0]
  /\ \/ /\ Len(jobs[n]) < SpillQueue
        /\ jobs' = [jobs EXCEPT ![n] = Append(@, hot[n])] /\ Record({"removed"})
     \/ Record({"removed", "spillDropped"}) /\ UNCHANGED jobs
  /\ UNCHANGED <<rpc, queue, sending, putting, bucket, memberVars>>

\* After Close has closed the channel, a send on it panics and ends the process.
SpillAfterClose(n) ==
  /\ phase[n] = "closing" /\ hot[n] # 0 /\ Count("remove")
  /\ Vanish(n) /\ Record({"removed", "departed"})
  /\ UNCHANGED <<bucket, snapshots>>

\* Mutant: workers stop at Close, whatever is queued.
TakeJobUntilClose(n, w) ==
  /\ Runs(n) /\ phase[n] # "closing" /\ putting[n][w] = 0 /\ jobs[n] # <<>>
  /\ putting' = [putting EXCEPT ![n][w] = Head(jobs[n])]
  /\ jobs' = [jobs EXCEPT ![n] = Tail(@)]
  /\ UNCHANGED <<hot, rpc, queue, sending, bucket, memberVars, count, happened>>

\* S3Tier.worker takes a job, also after Close, until the queue is empty ...
TakeJob(n, w) ==
  /\ Runs(n) /\ putting[n][w] = 0 /\ jobs[n] # <<>>
  /\ putting' = [putting EXCEPT ![n][w] = Head(jobs[n])]
  /\ jobs' = [jobs EXCEPT ![n] = Tail(@)]
  /\ UNCHANGED <<hot, rpc, queue, sending, bucket, memberVars, count, happened>>

\* ... and uploads it: the object's key names the block and not the node.
PutObject(n, w) ==
  /\ Runs(n) /\ putting[n][w] # 0
  /\ \/ bucket' = putting[n][w] /\ UNCHANGED happened
     \/ Record({"putError"}) /\ UNCHANGED bucket
  /\ putting' = [putting EXCEPT ![n][w] = 0]
  /\ UNCHANGED <<hot, rpc, queue, sending, jobs, memberVars, count>>

-----------------------------------------------------------------------------
(* The life of a process.                                                  *)

\* SIGTERM or a Spot notice: release revokes the lease, which may fail.
Release(n) ==
  /\ phase[n] = "up" /\ Count("depart") /\ Record({"departed"})
  /\ phase' = [phase EXCEPT ![n] = "released"]
  /\ DeleteMember(n) \/ UNCHANGED snapshots
  /\ UNCHANGED <<hot, rpc, nodeVars, bucket, seen>>

\* GracefulStop refuses new RPCs ...
GracefulStop(n) ==
  /\ phase[n] = "released" /\ phase' = [phase EXCEPT ![n] = "stopping"]
  /\ UNCHANGED <<hot, rpc, nodeVars, bucket, snapshots, seen, count, happened>>

\* ... and returns once the handlers have.  main returns, and its deferred calls
\* close the router's connections and then the cold tier.
Close(n) ==
  /\ phase[n] = "stopping" /\ \A h \in Handlers : rpc[h].at # "idle" => rpc[h].node # n
  /\ phase' = [phase EXCEPT ![n] = "closing"]
  /\ UNCHANGED <<hot, rpc, nodeVars, bucket, snapshots, seen, count, happened>>

\* Close of the cold tier waits for the workers; the process then ends.
Exit(n) ==
  /\ phase[n] = "closing"
  /\ jobs[n] = <<>> /\ \A w \in SpillWorkers : putting[n][w] = 0
  /\ Vanish(n)
  /\ UNCHANGED <<bucket, snapshots, count, happened>>

Crash(n) ==
  /\ phase[n] # "down" /\ Count("depart") /\ Vanish(n) /\ Record({"departed"})
  /\ UNCHANGED <<bucket, snapshots>>

\* A process stops answering, for a while or for good, with its connections open: it
\* is suspended, or cut off from everybody.
Hang(n) ==
  /\ phase[n] = "up" /\ Count("depart") /\ Record({"departed"})
  /\ phase' = [phase EXCEPT ![n] = "hung"]
  /\ UNCHANGED <<hot, rpc, nodeVars, bucket, snapshots, seen>>

Resume(n) ==
  /\ phase[n] = "hung" /\ phase' = [phase EXCEPT ![n] = "up"]
  /\ UNCHANGED <<hot, rpc, nodeVars, bucket, snapshots, seen, count, happened>>

\* A lease nobody keeps alive expires: that of a process that has ended, hangs,
\* has been told to stop, or cannot reach etcd.  The last one logs that and goes on serving;
\* it does not register again.
LeaseExpires(n) ==
  /\ n \in Members /\ DeleteMember(n)
  /\ \/ phase[n] # "up" /\ UNCHANGED <<count, happened>>
     \/ phase[n] = "up" /\ Count("depart") /\ Record({"departed"})
  /\ UNCHANGED <<hot, rpc, nodeVars, bucket, phase, seen>>

\* main: Register, then WatchMembers.  The lease of the last life may still be there.
Start(n) ==
  /\ phase[n] = "down" /\ Count("join")
  /\ phase' = [phase EXCEPT ![n] = "up"] /\ PutMember(n)
  /\ UNCHANGED <<hot, rpc, nodeVars, bucket, seen, happened>>

-----------------------------------------------------------------------------
HandlerStep(h) == Runs(rpc[h].node) /\ (Enqueue(h) \/ ColdGet(h) \/ Readmit(h))
ReplicatorStep(n) == Forward(n) \/ SendOne(n)
WorkerStep(n, w) == TakeJob(n, w) \/ PutObject(n, w)
ShutdownStep(n) == GracefulStop(n) \/ Close(n) \/ Exit(n)

Step ==
  \/ \E h \in Handlers : Write(h) \/ FetchMiss(h) \/ HandlerStep(h)
  \/ \E n \in Nodes : \/ Evict(n) \/ Spill(n) \/ SpillAfterClose(n)
                      \/ ReplicatorStep(n) \/ \E w \in SpillWorkers : WorkerStep(n, w)
                      \/ ShutdownStep(n)
                      \/ Release(n) \/ Crash(n) \/ Hang(n) \/ Resume(n)
                      \/ LeaseExpires(n) \/ Start(n)
  \/ \E r \in Routers : DriveRouter(r)

\* The version every owner of the full ring holds.
Owners == OwnersN(Nodes)
HeldByAll == CHOOSE v \in {hot[n] : n \in Owners} : \A n \in Owners : v <= hot[n]
Remember == safe' = IF HeldByAll' > safe THEN HeldByAll' ELSE safe

Next == Step /\ Remember

Spec == Init /\ [][Next]_vars

\* The replicator waits for a peer without a deadline: a peer that hangs answers
\* nothing until the watch drops it and SetMembers closes its connection, or until
\* this process closes its router.
Prompt(n) ==
  sending[n] # Waiting =>
    LET peer == Nearest(sending[n].peers) IN
    phase[peer] = "hung" => peer \notin View(n) \/ phase[n] = "closing"

\* Goroutines run, the bucket answers (a PutObject has a timeout), and a process that
\* was told to stop goes on.  etcd expires the lease of a process that hangs and
\* sends the routers what it holds.  Nothing is assumed of clients, evictions or
\* failures, and a process that hangs need not resume.
Fairness ==
  /\ \A h \in Handlers : WF_vars(HandlerStep(h) /\ Remember)
  /\ \A n \in Nodes : /\ WF_vars(Prompt(n) /\ ReplicatorStep(n) /\ Remember)
                     /\ WF_vars(ShutdownStep(n) /\ Remember)
                     /\ WF_vars(phase[n] = "hung" /\ LeaseExpires(n) /\ Remember)
                     /\ WF_vars(DriveRouter(n) /\ Remember)
                     /\ \A w \in SpillWorkers : WF_vars(WorkerStep(n, w) /\ Remember)
FairSpec == Spec /\ Fairness

-----------------------------------------------------------------------------
\* No replication is on its way: no handler before its Enqueue, no job queued or
\* being sent.
Quiet == /\ \A h \in Handlers : rpc[h].at # "enqueue"
         /\ \A n \in Nodes : queue[n] = <<>> /\ sending[n] = Waiting

\* The replicas catch up with the primary, whatever the order in which concurrent
\* Writes reach the queue: while no copy was lost on its way and none removed, the
\* owners hold the same version as soon as nothing is on its way.  This is what
\* Write's Enqueue after Put (server.go) and the guard of PutWithVersion (store.go)
\* are for.
ReplicasCatchUp ==
  happened \subseteq {"spillDropped", "putError"} /\ Quiet =>
    \A n, p \in Owners : hot[n] = hot[p]

\* The same without the proviso on removals: "the two copies' versions never
\* diverge" (docs/adr/0021-rf2-async-replication.md:37) for owners that have a copy.
VersionsNeverDiverge ==
  happened \cap {"dropped", "sendError", "departed"} = {} /\ Quiet =>
    \A n, p \in Owners : hot[n] # 0 /\ hot[p] # 0 => hot[n] = hot[p]

\* A version that all owners have held survives the loss of one node (a crash, a
\* lost lease or a shutdown, at any moment, with routers that lag behind): one of
\* the owners the clients' router names still serves that version or a later one.
\* Read failover (loadgen oneRequestWithFailover, Router.OwnerConns) rests on it.
SurvivesOneLoss ==
  "removed" \notin happened /\ count["depart"] <= 1 =>
    safe = 0 \/ \E n \in OwnerConns : Serving(n) /\ hot[n] >= safe

\* Demotion loses nothing by itself: as long as no process ended, no spill was
\* dropped, no upload failed and no client deleted the block, a block that was
\* written is in some store, in some spill queue or worker, or in the bucket.
\* loadgen's runColdtierVerify counts on it ("any shortfall = a block neither hot
\* nor in S3").
NothingLost ==
  count["write"] > 0 /\ happened \cap {"departed", "spillDropped", "putError", "deleted"} = {} =>
    \/ bucket # 0
    \/ \E n \in Nodes : hot[n] # 0 \/ jobs[n] # <<>>
                        \/ \E w \in SpillWorkers : putting[n][w] # 0

\* "A deleted block should stay deleted, not resurrect from cold on the next Fetch"
\* (docs/adr/0027-s3-cold-tier.md:65): after the Evict RPC only a Write brings a
\* block back into a store that does not hold it.
DeletedStaysDeleted ==
  [][{"deleted"} \subseteq happened \cap happened' =>
       \A n \in Nodes : hot[n] = 0 => hot'[n] = 0]_vars

\* "Close stops the workers, draining whatever is already queued" (s3.go:146): a
\* process in Close that is not killed ends only when its spill queue and its
\* workers are empty.
CloseDrains ==
  [][\A n \in Nodes :
       phase[n] = "closing" /\ phase'[n] = "down" /\ count'["depart"] = count["depart"] =>
         jobs[n] = <<>> /\ \A w \in SpillWorkers : putting[n][w] = 0]_vars

\* A backlog of copies to forward or to upload does not stay for ever in a process
\* that does not itself hang: a peer that fails or hangs, with a Replicate under way
\* to it, holds the one forwarding goroutine up (replicator.go: forward) only until
\* it has left the ring.
BacklogDrains ==
  \A n \in Nodes : queue[n] # <<>> \/ sending[n] # Waiting \/ jobs[n] # <<>> ~>
    \/ queue[n] = <<>> /\ sending[n] = Waiting /\ jobs[n] = <<>>
    \/ phase[n] = "hung"

\* A process that was told to stop ends: GracefulStop gets its handlers back and
\* Close gets its workers back.
ShutdownEnds == \A n \in Nodes : phase[n] = "released" ~> phase[n] = "down"
=============================================================================
