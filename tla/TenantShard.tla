---------------------------- MODULE TenantShard ----------------------------
(***************************************************************************)
(* A shard that runs with -eviction gdsf or gdsf-elastic and a cold tier:  *)
(* the store of internal/cache/store.go, the policy of GDSF, the evictor,  *)
(* and the handlers Write, Fetch (with its cold read-through) and Evict.   *)
(*                                                                         *)
(* The steps are those of Store: a method changes the map, tells the       *)
(* policy, adds to totalBytes and nudges the evictor, with other           *)
(* goroutines in between.  Every key has a stripe of its own here, which   *)
(* allows all interleavings that shared stripes do.  The TTL sweep and     *)
(* peers are off, and a spill reaches the bucket at once or is dropped:    *)
(* Shard and Replication have them.                                        *)
(***************************************************************************)
EXTENDS GDSF

CONSTANTS
  Workers,        \* gRPC handler goroutines
  Evictor,        \* the background evictor goroutine
  Sizes, Costs,   \* block sizes and recompute costs
  Deployments,    \* <<conf, bound>>: the policies and bounds a server may be started with
  MaxOps,         \* bound: Write and Evict calls
  MaxReads        \* bound: Fetch calls

Procs == Workers \cup {Evictor}
Config == [elastic : BOOLEAN, weight : 0..100, quota : [Tenants -> Nat]]
Bound == [max : Nat, hi : Nat, lo : Nat]

ASSUME TenantShardAssumption ==
  /\ Evictor \notin Workers
  /\ Sizes \subseteq Nat /\ Costs \subseteq Nat
  /\ Deployments \subseteq Config \X Bound
  /\ MaxOps \in Nat /\ MaxReads \in Nat

VARIABLES
  conf,       \* the policy's configuration
  bound,      \* -max-bytes (0 is unbounded) and the watermarks derived from it
  m,          \* the stored entries
  pol,        \* the policy's state
  totalBytes, \* Store.totalBytes
  evictSig,   \* is a nudge pending?
  call,       \* where each goroutine is, and its local variables
  cold,       \* the bucket: version and size of each object, version 0 for none
  ops, reads, \* calls so far
  writer      \* history: the tenant whose Write last stored each block

vars == <<conf, bound, m, pol, totalBytes, evictSig, call, cold, ops, reads, writer>>

Entry == [version : Nat, size : Nat, tenant : Tenants, cost : Nat]
NoEntry == [version |-> 0, size |-> 0, tenant |-> Default, cost |-> 0]
Object == [version : Nat, size : Nat]
Resident(k) == m[k].version # 0

\* A goroutine: its label, operation and key, the entry it works on (version 0: to
\* be minted) and the size of the entry it replaces.
Labels == {"idle", "select", "fetched", "admitted", "read", "policy", "add", "signal",
           "quota", "send", "check", "checkQuota", "victim", "evict"}
Writing == {"policy", "add", "signal", "quota", "send"}
Call == [at : Labels, op : {"none", "put", "readmit", "get", "delete", "drain"},
         key : Keys, entry : Entry, prev : Nat]
At(label) == [at |-> label, op |-> "none", key |-> CHOOSE k \in Keys : TRUE,
              entry |-> NoEntry, prev |-> 0]
Enter(p, label, op, k, entry, prev) ==
  call' = [call EXCEPT ![p] = [at |-> label, op |-> op, key |-> k, entry |-> entry,
                               prev |-> prev]]
Goto(p, label) == call' = [call EXCEPT ![p].at = label]
Leave(p, label) == call' = [call EXCEPT ![p] = At(label)]

CanRLock(k) == \A q \in Procs : call[q].at \in Writing => call[q].key # k
CanLock(k) == \A q \in Procs : call[q].at \in Writing \cup {"read"} => call[q].key # k

OverHardLimit(size) == bound.max > 0 /\ totalBytes + size > bound.max
Pressured == bound.max > 0 /\ totalBytes >= bound.hi
AboveLow == bound.max > 0 /\ totalBytes > bound.lo

Init ==
  /\ \E d \in Deployments : conf = d[1] /\ bound = d[2]
  /\ m = [k \in Keys |-> NoEntry]
  /\ pol = EmptyPolicy
  /\ totalBytes = 0 /\ evictSig = FALSE
  /\ call = [p \in Procs |-> At(IF p = Evictor THEN "select" ELSE "idle")]
  /\ cold = [k \in Keys |-> [version |-> 0, size |-> 0]]
  /\ ops = 0 /\ reads = 0
  /\ writer = [k \in Keys |-> Default]

fixed == <<conf, bound>>
-----------------------------------------------------------------------------
(***************************************************************************)
(* The handlers.                                                           *)
(***************************************************************************)
\* Write, up to its admission check.
Write(p, k, t, size, cost) ==
  /\ call[p].at = "idle"
  /\ ops < MaxOps /\ ops' = ops + 1
  /\ ~OverHardLimit(size)
  /\ Enter(p, "admitted", "put", k,
           [version |-> 0, size |-> size, tenant |-> t, cost |-> cost], 0)
  /\ UNCHANGED <<fixed, m, pol, totalBytes, evictSig, cold, reads, writer>>

\* Mutant: the policy is not told.
DeleteUntold(p, k) ==
  /\ call[p].at = "idle"
  /\ ops < MaxOps /\ ops' = ops + 1
  /\ CanLock(k)
  /\ Resident(k)
  /\ m' = [m EXCEPT ![k] = NoEntry]
  /\ Enter(p, "add", "delete", k, NoEntry, m[k].size)
  /\ UNCHANGED <<fixed, pol, totalBytes, evictSig, cold, reads, writer>>

\* The Evict RPC: Delete removes the entry from the map.
Delete(p, k) ==
  /\ call[p].at = "idle"
  /\ ops < MaxOps /\ ops' = ops + 1
  /\ CanLock(k)
  /\ Resident(k)
  /\ m' = [m EXCEPT ![k] = NoEntry]
  /\ Enter(p, "policy", "delete", k, NoEntry, m[k].size)
  /\ UNCHANGED <<fixed, pol, totalBytes, evictSig, cold, reads, writer>>

\* Fetch of a resident block: Get records the access in the policy, under the lock.
Get(p, k) ==
  /\ call[p].at = "idle"
  /\ reads < MaxReads /\ reads' = reads + 1
  /\ CanRLock(k)
  /\ Resident(k)
  /\ Enter(p, "read", "get", k, NoEntry, 0)
  /\ UNCHANGED <<fixed, m, pol, totalBytes, evictSig, cold, ops, writer>>

RecordRead(p) ==
  /\ call[p].at = "read"
  /\ pol' = RecordAccess(pol, call[p].key)
  /\ Leave(p, "idle")
  /\ UNCHANGED <<fixed, m, totalBytes, evictSig, cold, ops, reads, writer>>

\* Fetch of a block that is only in the bucket: coldHit reads the object.  SpillFunc
\* took no tenant and no cost along, so the entry to re-admit has none.
ColdGet(p, k) ==
  /\ call[p].at = "idle"
  /\ reads < MaxReads /\ reads' = reads + 1
  /\ CanRLock(k)
  /\ ~Resident(k)
  /\ cold[k].version # 0
  /\ Enter(p, "fetched", "readmit", k,
           [version |-> cold[k].version, size |-> cold[k].size, tenant |-> Default,
            cost |-> 0], 0)
  /\ UNCHANGED <<fixed, m, pol, totalBytes, evictSig, cold, ops, writer>>

\* It is served from there without being re-admitted if it does not fit.
Readmit(p) ==
  /\ call[p].at = "fetched"
  /\ IF OverHardLimit(call[p].entry.size) THEN Leave(p, "idle") ELSE Goto(p, "admitted")
  /\ UNCHANGED <<fixed, m, pol, totalBytes, evictSig, cold, ops, reads, writer>>

\* Put mints the next version; PutWithVersion drops a version that is not newer.
Publish(p) ==
  LET k == call[p].key
      e == call[p].entry
      minted == call[p].op = "put"
  IN  /\ call[p].at = "admitted"
      /\ CanLock(k)
      /\ IF minted \/ m[k].version < e.version
           THEN /\ m' = [m EXCEPT ![k] =
                           IF minted THEN [e EXCEPT !.version = m[k].version + 1] ELSE e]
                /\ Enter(p, "policy", call[p].op, k, e, m[k].size)
                /\ writer' = IF minted THEN [writer EXCEPT ![k] = e.tenant] ELSE writer
           ELSE Leave(p, "idle") /\ UNCHANGED <<m, writer>>
      /\ UNCHANGED <<fixed, pol, totalBytes, evictSig, cold, ops, reads>>

\* policy.RecordWrite or policy.RecordEvict
TellPolicy(p) ==
  LET k == call[p].key
      e == call[p].entry
  IN  /\ call[p].at = "policy"
      /\ IF call[p].op \in {"put", "readmit"}
           THEN pol' = RecordWrite(pol, k, e.tenant, e.size, e.cost)
           ELSE pol' = RecordEvict(pol, k)
      /\ IF call[p].op = "drain" THEN Leave(p, "check") ELSE Goto(p, "add")
      /\ UNCHANGED <<fixed, m, totalBytes, evictSig, cold, ops, reads, writer>>

\* totalBytes.Add; evict does it before it tells the policy, the others after.
AddBytes(p) ==
  /\ call[p].at = "add"
  /\ totalBytes' = totalBytes + call[p].entry.size - call[p].prev
  /\ CASE call[p].op = "drain" -> Goto(p, "policy")
       [] call[p].op = "delete" -> Leave(p, "idle")
       [] OTHER -> Goto(p, "signal")
  /\ UNCHANGED <<fixed, m, pol, evictSig, cold, ops, reads, writer>>

\* signalEvict: the total first, the quotas if the total is no reason to send.
signalEvict(p) ==
  /\ call[p].at = "signal"
  /\ Goto(p, IF Pressured THEN "send" ELSE "quota")
  /\ UNCHANGED <<fixed, m, pol, totalBytes, evictSig, cold, ops, reads, writer>>

\* Mutant: the policy is never asked, as for LRU.
signalNoQuota(p) ==
  /\ call[p].at = "quota"
  /\ Leave(p, "idle")
  /\ UNCHANGED <<fixed, m, pol, totalBytes, evictSig, cold, ops, reads, writer>>

signalQuota(p) ==
  /\ call[p].at = "quota"
  /\ IF OverQuota(conf, pol) THEN Goto(p, "send") ELSE Leave(p, "idle")
  /\ UNCHANGED <<fixed, m, pol, totalBytes, evictSig, cold, ops, reads, writer>>

SendSignal(p) ==
  /\ call[p].at = "send"
  /\ evictSig' = TRUE
  /\ Leave(p, "idle")
  /\ UNCHANGED <<fixed, m, pol, totalBytes, cold, ops, reads, writer>>

Continue(p) ==
  \/ RecordRead(p) \/ Readmit(p) \/ Publish(p) \/ TellPolicy(p) \/ AddBytes(p)
  \/ signalEvict(p) \/ signalQuota(p) \/ SendSignal(p)
-----------------------------------------------------------------------------
(***************************************************************************)
(* The evictor.                                                            *)
(***************************************************************************)
ReceiveSignal ==
  /\ call[Evictor].at = "select"
  /\ evictSig
  /\ evictSig' = FALSE
  /\ Leave(Evictor, "check")
  /\ UNCHANGED <<fixed, m, pol, totalBytes, cold, ops, reads, writer>>

\* needsEviction: the total, then the quotas.
CheckTotal ==
  /\ call[Evictor].at = "check"
  /\ Leave(Evictor, IF AboveLow THEN "victim" ELSE "checkQuota")
  /\ UNCHANGED <<fixed, m, pol, totalBytes, evictSig, cold, ops, reads, writer>>

CheckQuota ==
  /\ call[Evictor].at = "checkQuota"
  /\ Leave(Evictor, IF OverQuota(conf, pol) THEN "victim" ELSE "select")
  /\ UNCHANGED <<fixed, m, pol, totalBytes, evictSig, cold, ops, reads, writer>>

\* evictOne asks the policy, which ages; the loop ends when it has no victim.
PickVictim ==
  /\ call[Evictor].at = "victim"
  /\ \/ \E k \in Victims(conf, pol) :
          /\ pol' = Age(pol, k)
          /\ Enter(Evictor, "evict", "drain", k, NoEntry, 0)
     \/ /\ Victims(conf, pol) = {}
        /\ Leave(Evictor, "select")
        /\ UNCHANGED <<pol>>
  /\ UNCHANGED <<fixed, m, totalBytes, evictSig, cold, ops, reads, writer>>

\* evict: spill, then drop the entry; nothing if it is gone by now.
evict ==
  LET k == call[Evictor].key
  IN  /\ call[Evictor].at = "evict"
      /\ CanLock(k)
      /\ IF Resident(k)
           THEN /\ \/ cold' = [cold EXCEPT ![k] = [version |-> m[k].version, size |-> m[k].size]]
                   \/ UNCHANGED cold
                /\ m' = [m EXCEPT ![k] = NoEntry]
                /\ Enter(Evictor, "add", "drain", k, NoEntry, m[k].size)
           ELSE Leave(Evictor, "check") /\ UNCHANGED <<cold, m>>
      /\ UNCHANGED <<fixed, pol, totalBytes, evictSig, ops, reads, writer>>

EvictStep == evict \/ AddBytes(Evictor) \/ TellPolicy(Evictor)

Next ==
  \/ \E p \in Workers, k \in Keys :
       \/ \E t \in Tenants, size \in Sizes, cost \in Costs : Write(p, k, t, size, cost)
       \/ Delete(p, k)
       \/ Get(p, k)
       \/ ColdGet(p, k)
  \/ \E p \in Workers : Continue(p)
  \/ ReceiveSignal \/ CheckTotal \/ CheckQuota \/ PickVictim \/ EvictStep

Spec == Init /\ [][Next]_vars

\* Every goroutine that can run does (see Fairness in Shard).
Fairness ==
  /\ \A p \in Workers : SF_vars(Continue(p))
  /\ SF_vars(ReceiveSignal) /\ SF_vars(EvictStep)
  /\ WF_vars(CheckTotal) /\ WF_vars(CheckQuota) /\ WF_vars(PickVictim)

FairSpec == Spec /\ Fairness
-----------------------------------------------------------------------------
\* Every variable holds a value the code could give it.
TypeOK ==
  /\ <<conf, bound>> \in Deployments
  /\ m \in [Keys -> Entry]
  /\ pol \in [item : [Keys -> Item], bytes : [Tenants -> Nat], inflation : Nat]
  /\ totalBytes \in Int /\ evictSig \in BOOLEAN
  /\ call \in [Procs -> Call]
  /\ cold \in [Keys -> Object]
  /\ ops \in Nat /\ reads \in Nat
  /\ writer \in [Keys -> Tenants]

\* A tenant's byte total, kept by deltas over overwrites, changes of tenant and
\* evictions, is exactly the size of the blocks its heap holds: so a tenant that is
\* over its quota always has a block to give up, and one that holds nothing is never
\* over it.
TenantAccounting == \A t \in Tenants : pol.bytes[t] = Cardinality(HeapBytes(pol, t))

\* Map and policy agree on every key whose stripe nobody has locked for writing: a
\* block is tracked iff it is resident, under the tenant, the size and the cost of
\* the entry.
OnKey(k) == {p \in Procs : call[p].at \in Writing /\ call[p].key = k}
PolicyTracksStore ==
  \A k \in Keys : OnKey(k) = {} =>
    /\ Tracked(pol, k) <=> Resident(k)
    /\ [tenant |-> pol.item[k].tenant, size |-> pol.item[k].size, cost |-> pol.item[k].cost]
         = [tenant |-> m[k].tenant, size |-> m[k].size, cost |-> m[k].cost]

\* No lost wakeup: when the total or a quota calls for evictions, the evictor is at
\* work or a nudge is pending, or a call that has not finished will send one.
NeedsNudge == (Pressured /\ AboveLow) \/ OverQuota(conf, pol)
NoLostWakeup ==
  NeedsNudge =>
    \/ evictSig
    \/ call[Evictor].at # "select"
    \/ \E p \in Workers : call[p].at \in Writing

\* The aging floor of GreedyDual: where quotas do not steer the choice (none are set,
\* or the fairness weight is 0) no tracked block is worth less than the floor L, so
\* Victim always raises it to the value of what it evicts.
PureGDSF == IF conf.elastic THEN conf.weight = 0 ELSE \A t \in Tenants : conf.quota[t] = 0
AgingFloor ==
  PureGDSF => \A k \in Keys : Tracked(pol, k) => pol.item[k].priority >= pol.inflation

\* A tenant that goes over its quota is brought back under it.
QuotaIsEnforced == OverQuota(conf, pol) ~> ~OverQuota(conf, pol)

\* A drain, once begun, comes to its end, whatever happens to its victims between
\* Victim and evict: the loop never spins on a block that is not there.
DrainEnds == call[Evictor].at = "check" ~> call[Evictor].at = "select"
-----------------------------------------------------------------------------
\* gdsf.go, NewGDSF: a static quota is a hard cap, so once nothing is left to do no
\* tenant's blocks take more than its quota.
Quiet == ~evictSig /\ call[Evictor].at = "select" /\ \A p \in Workers : call[p].at = "idle"
BytesWrittenBy(t) ==
  UNION {{k} \X (1..m[k].size) : k \in {j \in Keys : Resident(j) /\ writer[j] = t}}
CapHolds ==
  Quiet /\ ~conf.elastic =>
    \A t \in Tenants : conf.quota[t] > 0 => Cardinality(BytesWrittenBy(t)) <= conf.quota[t]
=============================================================================
