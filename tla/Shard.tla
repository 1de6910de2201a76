------------------------------- MODULE Shard -------------------------------
(***************************************************************************)
(* A cache-server shard: the store, the RPC handlers of                    *)
(* internal/server/server.go that call it, and the background loop of      *)
(* internal/cache/evictor.go.  This is the default deployment: the LRU     *)
(* policy and no cold tier.                                                *)
(***************************************************************************)
EXTENDS Store

CONSTANTS
  TTL,             \* idle time the sweep allows; 0 disables it
  ReplicaVersions, \* versions Replicate may deliver; {} is a shard without peers
  MaxOps,          \* bound: Write, Replicate and Evict calls that change the store
  MaxTime          \* bound: last value of the clock

ASSUME ShardAssumption ==
  /\ TTL \in Nat /\ MaxOps \in Nat /\ MaxTime \in Nat \ {0}
  /\ ReplicaVersions \subseteq Nat

VARIABLES
  ops,     \* calls so far, at most MaxOps
  cutoff,  \* sweepIdle: entries idle since before this are victims
  scan,    \* sweepIdle: the stripe pass 1 looks at next
  victims  \* sweepIdle: the keys collected and not yet evicted

sweepVars == <<cutoff, scan, victims>>
vars == <<m, ll, totalBytes, evictSig, call, now, ops, cutoff, scan, victims>>

Init == StoreInit /\ ops = 0 /\ cutoff = 0 /\ scan = 1 /\ victims = {}

CountOp == ops < MaxOps /\ ops' = ops + 1
-----------------------------------------------------------------------------
\* Write: the block is assembled and passes the admission check.  A block over the
\* hard limit is refused with ResourceExhausted and changes nothing.
Write(p, k, size) ==
  /\ call[p].at = "idle"
  /\ ~OverHardLimit(size)
  /\ Enter(p, "admitted", "put", k, size, 0)
  /\ CountOp
  /\ UNCHANGED <<m, ll, totalBytes, evictSig, now, sweepVars>>

\* Replicate has no admission check, and refuses version 0.
Replicate(p, k, size, version) ==
  PutWithVersion(p, k, size, version) /\ CountOp /\ UNCHANGED sweepVars

\* The Evict RPC.
Evict(p, k) == Delete(p, k) /\ CountOp /\ UNCHANGED sweepVars

\* Fetch of a resident block.
Fetch(p, k) == Get(p, k) /\ UNCHANGED <<ops, sweepVars>>

\* The next step of a call that is under way.
Continue(p) ==
  /\ \/ Put(p)
     \/ TellPolicy(p)
     \/ AddBytes(p)
     \/ signalEvict(p)
     \/ SendSignal(p)
     \/ RecordRead(p)
  /\ UNCHANGED <<ops, sweepVars>>
-----------------------------------------------------------------------------
\* Evictor.Run: the select takes the pending nudge.
ReceiveSignal ==
  /\ call[Evictor].at = "select"
  /\ evictSig
  /\ evictSig' = FALSE
  /\ Leave(Evictor, "check")
  /\ UNCHANGED <<m, ll, totalBytes, now, ops, sweepVars>>

\* Mutant: the loop stops at the mark that woke it, without hysteresis.
CheckHighWater ==
  /\ call[Evictor].at = "check"
  /\ Leave(Evictor, IF Pressured THEN "victim" ELSE "select")
  /\ UNCHANGED <<m, ll, totalBytes, evictSig, now, ops, sweepVars>>

\* The condition of the drain loop.
CheckPressure ==
  /\ call[Evictor].at = "check"
  /\ Leave(Evictor, IF needsEviction THEN "victim" ELSE "select")
  /\ UNCHANGED <<m, ll, totalBytes, evictSig, now, ops, sweepVars>>

\* evictOne asks the policy; the loop ends when the policy has no victim.
PickVictim ==
  /\ call[Evictor].at = "victim"
  /\ IF HasVictim(ll)
       THEN Enter(Evictor, "evict", "drain", Victim(ll), 0, 0)
       ELSE Leave(Evictor, "select")
  /\ UNCHANGED <<m, ll, totalBytes, evictSig, now, ops, sweepVars>>

\* The ticker fires: sweepIdle fixes its cutoff, or returns at once when TTL is 0.
StartSweep ==
  /\ call[Evictor].at = "select"
  /\ IF TTL > 0
       THEN cutoff' = now - TTL /\ scan' = 1 /\ victims' = {} /\ Leave(Evictor, "collect")
       ELSE UNCHANGED <<sweepVars, call>>
  /\ UNCHANGED <<m, ll, totalBytes, evictSig, now, ops>>

IdleSince(k) == IF m[k].accessed = 0 THEN m[k].created ELSE m[k].accessed

\* Mutant: pass 1 ends one stripe early.
CollectAllButLast ==
  /\ call[Evictor].at = "collect"
  /\ CanRLock(scan)
  /\ victims' = victims \cup {k \in Keys : /\ StripeOf[k] = scan
                                           /\ Resident(k)
                                           /\ IdleSince(k) < cutoff}
  /\ scan' = scan + 1
  /\ Leave(Evictor, IF scan + 1 >= NumStripes THEN "sweeping" ELSE "collect")
  /\ UNCHANGED <<m, ll, totalBytes, evictSig, now, ops, cutoff>>

\* Pass 1, one stripe under its read lock.
CollectStripe ==
  /\ call[Evictor].at = "collect"
  /\ CanRLock(scan)
  /\ victims' = victims \cup {k \in Keys : /\ StripeOf[k] = scan
                                           /\ Resident(k)
                                           /\ IdleSince(k) < cutoff}
  /\ scan' = scan + 1
  /\ Leave(Evictor, IF scan = NumStripes THEN "sweeping" ELSE "collect")
  /\ UNCHANGED <<m, ll, totalBytes, evictSig, now, ops, cutoff>>

\* Pass 2: evict the collected keys one by one.
SweepNext ==
  /\ call[Evictor].at = "sweeping"
  /\ IF victims = {}
       THEN Leave(Evictor, "select") /\ UNCHANGED victims
       ELSE \E k \in victims :
              /\ Enter(Evictor, "evict", "sweep", k, 0, 0)
              /\ victims' = victims \ {k}
  /\ UNCHANGED <<m, ll, totalBytes, evictSig, now, ops, cutoff, scan>>

EvictStep ==
  /\ \/ evict(Evictor)
     \/ AddBytes(Evictor)
     \/ TellPolicy(Evictor)
  /\ UNCHANGED <<ops, sweepVars>>

EvictorNext ==
  \/ ReceiveSignal \/ CheckPressure \/ PickVictim
  \/ StartSweep \/ CollectStripe \/ SweepNext
  \/ EvictStep

Tick ==
  /\ now < MaxTime
  /\ now' = now + 1
  /\ UNCHANGED <<m, ll, totalBytes, evictSig, call, ops, sweepVars>>

Next ==
  \/ \E p \in Workers, k \in Keys :
       \/ \E size \in Sizes : Write(p, k, size)
       \/ \E size \in Sizes, version \in ReplicaVersions : Replicate(p, k, size, version)
       \/ Evict(p, k)
       \/ Fetch(p, k)
  \/ \E p \in Workers : Continue(p)
  \/ EvictorNext
  \/ Tick

Spec == Init /\ [][Next]_vars

\* Go runs every goroutine that can run, and a select with several ready cases picks
\* one at random, so a nudge that stays pending is received.  sync.RWMutex hands
\* itself to everyone who waits for it, and lets no new reader in while a writer
\* waits, so overlapping Fetches cannot keep a writer out for ever.
WaitsToWrite(s) ==
  \E p \in Procs : call[p].at \in {"admitted", "evict"} /\ StripeOf[call[p].key] = s
HeldByReader(s) == \E p \in Procs : call[p].at = "read" /\ StripeOf[call[p].key] = s

Fairness ==
  /\ \A p \in Workers : SF_vars(Continue(p))
  /\ WF_vars(CheckPressure) /\ WF_vars(PickVictim) /\ WF_vars(SweepNext)
  /\ SF_vars(EvictStep) /\ SF_vars(CollectStripe) /\ SF_vars(ReceiveSignal)
  /\ \A s \in 1..NumStripes : []<>~(WaitsToWrite(s) /\ HeldByReader(s))

FairSpec == Spec /\ Fairness
-----------------------------------------------------------------------------
\* Every variable holds a value the code could give it, and the recency list, which
\* lru.go pairs with a map from key to node, holds no key twice.
TypeOK ==
  /\ m \in [Keys -> Entry]
  /\ ll \in Seq(Keys) /\ IsInjective(ll)
  /\ totalBytes \in Int
  /\ evictSig \in BOOLEAN
  /\ call \in [Procs -> Call]
  /\ now \in Nat /\ ops \in Nat /\ cutoff \in Int /\ scan \in Nat
  /\ victims \in SUBSET Keys

\* The size of k that totalBytes accounts for: a call between its map write and
\* its totalBytes.Add still accounts for the entry it replaced.
CallsOn(k) == {p \in Procs : call[p].at \in Writing /\ call[p].key = k}
NotYetAdded(p) == call[p].at = "add" \/ (call[p].at = "policy" /\ call[p].op \in {"put", "delete"})
Counted(k) ==
  IF \E p \in CallsOn(k) : NotYetAdded(p)
    THEN call[CHOOSE p \in CallsOn(k) : NotYetAdded(p)].prev
    ELSE m[k].size

\* The byte counter is exact at every moment: totalBytes (atomic deltas added after
\* the map writes, in any interleaving of stripes and of Put, PutWithVersion, Delete
\* and evict) is the number of bytes of the entries it accounts for, so it is never
\* negative, and it is the resident size whenever no call is between its map write
\* and its Add.
CountedBytes == UNION {{k} \X (1..Counted(k)) : k \in Keys}
Accounting == totalBytes = Cardinality(CountedBytes)

\* The recency list and the map agree on every key whose stripe nobody has locked
\* for writing: no resident entry is invisible to Victim, and Victim names no key
\* that left the store for good.
PolicyTracksStore ==
  \A k \in Keys : CallsOn(k) = {} => (k \in Range(ll) <=> Resident(k))

\* No lost wakeup: when the store is over the high-water mark and has not been
\* drained to the low-water mark, the evictor is at work or a nudge is pending, or
\* some call that has not finished will send one or lower the total.
NoLostWakeup ==
  Pressured /\ needsEviction =>
    \/ evictSig
    \/ call[Evictor].at # "select"
    \/ \E p \in Workers : call[p].at \in Writing

\* A store at its high-water mark is brought back under it: the nudge of the write
\* that crossed the mark is not lost, whichever calls overlap the drain.
PressureIsRelieved == Pressured /\ needsEviction ~> ~(Pressured /\ needsEviction)

\* A drain, once begun, gets the store down to the low-water mark, even if victims
\* are deleted or overwritten between Victim and evict.
DrainsToLowWater == call[Evictor].at = "check" ~> ~needsEviction

\* The admission check of Write is not atomic with its Put, so concurrent writers can
\* pass it together; still they overshoot the ceiling by at most one block for each
\* other writer.  (Without peers: Replicate does not check at all.)
AdmissionBound ==
  MaxBytes > 0 => totalBytes <= MaxBytes + (Cardinality(Workers) - 1) * MaxBlock

\* A sweep that has finished leaves no entry that was neither written nor read since
\* its cutoff, whatever ran between its two passes.
LastTouch(k) == IF m[k].accessed > m[k].written THEN m[k].accessed ELSE m[k].written
IdleDoesNotSurvive ==
  call[Evictor].at = "sweeping" /\ victims = {} =>
    \A k \in Keys : Resident(k) => LastTouch(k) >= cutoff
-----------------------------------------------------------------------------
(***************************************************************************)
(* What the repository says of the shard and the code does not do.         *)
(***************************************************************************)

\* ADR 0024: a bounded node stays under maxBytes, the headroom above the high-water
\* mark absorbing the race of the admission check.
CeilingHolds == MaxBytes > 0 => totalBytes <= MaxBytes

\* eviction_test.go: the sweep collects no entry written or read within TTL.
SweepCollectsOnlyIdle ==
  [][\A k \in victims' \ victims : LastTouch(k) < cutoff]_victims
=============================================================================
