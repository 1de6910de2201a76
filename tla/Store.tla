------------------------------- MODULE Store -------------------------------
(***************************************************************************)
(* internal/cache/store.go and entry.go: one in-memory shard.              *)
(*                                                                         *)
(* The stripes' maps are the one function m, a key that is absent holding  *)
(* NoEntry; StripeOf says which stripe's RWMutex guards a key.  A method   *)
(* that changes the map takes several steps, in the order of the code,     *)
(* because the policy and totalBytes are shared by all stripes and seen by *)
(* goroutines that do not hold its stripe lock.  A process holds the write *)
(* lock of its key's stripe while it is at a label of Writing, and the     *)
(* read lock while it is at "read".  SHA-256 namespacing by model          *)
(* (storeKey) is injective, so a key stands for a (model, hash) pair.      *)
(***************************************************************************)
EXTENDS Integers, FiniteSets, LRU

CONSTANTS
  Keys,        \* (model, block hash) pairs
  NumStripes,  \* number of lock stripes
  StripeOf,    \* the stripe of each key
  Sizes,       \* sizes a block may have
  MaxBlock,    \* the largest of them
  Workers,     \* gRPC handler goroutines
  Evictor,     \* the background evictor goroutine
  MaxBytes,    \* -max-bytes; 0 is unbounded
  HiPct, LoPct \* watermark fractions, in percent of MaxBytes

Procs == Workers \cup {Evictor}

ASSUME StoreAssumption ==
  /\ IsFiniteSet(Keys) /\ Keys # {}
  /\ NumStripes \in Nat \ {0}
  /\ StripeOf \in [Keys -> 1..NumStripes]
  /\ MaxBlock \in Nat /\ Sizes \subseteq 0..MaxBlock
  /\ IsFiniteSet(Workers) /\ Workers # {} /\ Evictor \notin Workers
  /\ MaxBytes \in Nat /\ HiPct \in Int /\ LoPct \in Int

VARIABLES
  m,          \* the stored entries
  ll,         \* the LRU policy's recency list
  totalBytes, \* Store.totalBytes
  evictSig,   \* is a nudge pending in the buffered(1) channel?
  call,       \* where each goroutine is, and its local variables
  now         \* the clock seam

storeVars == <<m, ll, totalBytes, evictSig, call, now>>

\* NewStore: fractions that do not satisfy 0 < lo < hi <= 1 are replaced by the
\* defaults.  Fractions are exact here, floating point in the code.
GoodWatermarks == HiPct > 0 /\ HiPct <= 100 /\ LoPct > 0 /\ LoPct < HiPct
HiWater == (MaxBytes * (IF GoodWatermarks THEN HiPct ELSE 90)) \div 100
LoWater == (MaxBytes * (IF GoodWatermarks THEN LoPct ELSE 75)) \div 100

\* An entry: accessed = 0 means never read.  written is a history field, the time
\* the entry was published; no action reads it.
Entry == [version : Nat, size : Nat, created : Nat, accessed : Nat, written : Nat]
NoEntry == [version |-> 0, size |-> 0, created |-> 0, accessed |-> 0, written |-> 0]
Resident(k) == m[k].version # 0

\* A goroutine's state: the label it is at and, inside a call, the operation, its
\* key and the sizes of the entry it publishes (0 for a removal) and replaces.
Writing == {"policy", "add", "signal", "send"}
Labels == {"idle", "select", "admitted", "read", "check", "victim", "collect",
           "sweeping", "evict"} \cup Writing
Operations == {"none", "get", "put", "delete", "drain", "sweep"}
Call == [at : Labels, op : Operations, key : Keys, size : Nat, prev : Nat]
At(label) == [at |-> label, op |-> "none", key |-> CHOOSE k \in Keys : TRUE,
              size |-> 0, prev |-> 0]

\* Leave: locals go out of scope.  Goto: they are kept.
Enter(p, label, op, k, size, prev) ==
  call' = [call EXCEPT ![p] = [at |-> label, op |-> op, key |-> k, size |-> size,
                               prev |-> prev]]
Goto(p, label) == call' = [call EXCEPT ![p].at = label]
Leave(p, label) == call' = [call EXCEPT ![p] = At(label)]

\* The stripe's RWMutex: who has it decides who may take it.
CanRLock(s) == \A q \in Procs : call[q].at \in Writing => StripeOf[call[q].key] # s
CanLock(s) ==
  \A q \in Procs : call[q].at \in Writing \cup {"read"} => StripeOf[call[q].key] # s

StoreInit ==
  /\ m = [k \in Keys |-> NoEntry]
  /\ ll = << >>
  /\ totalBytes = 0
  /\ evictSig = FALSE
  /\ call = [p \in Procs |-> At(IF p = Evictor THEN "select" ELSE "idle")]
  /\ now = 1

\* Mutant: the size of the block to come is left out.
OverHardLimitNow(size) == MaxBytes > 0 /\ totalBytes > MaxBytes

OverHardLimit(size) == MaxBytes > 0 /\ totalBytes + size > MaxBytes
Pressured == MaxBytes > 0 /\ totalBytes >= HiWater
needsEviction == MaxBytes > 0 /\ totalBytes > LoWater
-----------------------------------------------------------------------------
(***************************************************************************)
(* Put, PutWithVersion, Delete and evict: what they do to the map, under   *)
(* the lock they have just taken.  An overwrite keeps the creation time    *)
(* and publishes a fresh entry, never read.                                *)
(***************************************************************************)
Publish(p, k, size, version) ==
  /\ m' = [m EXCEPT ![k] =
             [version |-> version, size |-> size, accessed |-> 0, written |-> now,
              created |-> IF Resident(k) THEN m[k].created ELSE now]]
  /\ Enter(p, "policy", "put", k, size, m[k].size)
  /\ UNCHANGED <<ll, totalBytes, evictSig, now>>

Unpublish(p, op, k, label) ==
  /\ m' = [m EXCEPT ![k] = NoEntry]
  /\ Enter(p, label, op, k, 0, m[k].size)
  /\ UNCHANGED <<ll, totalBytes, evictSig, now>>

\* The rest of Write after its admission check: mint the next version.
Put(p) ==
  /\ call[p].at = "admitted"
  /\ CanLock(StripeOf[call[p].key])
  /\ Publish(p, call[p].key, call[p].size, m[call[p].key].version + 1)

\* Mutant: the guard against stale deliveries is missing.
PutAnyVersion(p, k, size, version) ==
  /\ call[p].at = "idle"
  /\ CanLock(StripeOf[k])
  /\ version # 0
  /\ Publish(p, k, size, version)

\* A version at or below the stored one is a stale delivery: nothing changes.
PutWithVersion(p, k, size, version) ==
  /\ call[p].at = "idle"
  /\ CanLock(StripeOf[k])
  /\ version # 0
  /\ m[k].version < version
  /\ Publish(p, k, size, version)

Delete(p, k) ==
  /\ call[p].at = "idle"
  /\ CanLock(StripeOf[k])
  /\ Resident(k)
  /\ Unpublish(p, "delete", k, "policy")

\* The loop of the evictor that called evict.
Return(p) == IF call[p].op = "drain" THEN "check" ELSE "sweeping"

\* evict subtracts the bytes before it tells the policy, Delete after.
evict(p) ==
  /\ call[p].at = "evict"
  /\ CanLock(StripeOf[call[p].key])
  /\ IF Resident(call[p].key)
       THEN Unpublish(p, call[p].op, call[p].key, "add")
       ELSE Leave(p, Return(p)) /\ UNCHANGED <<m, ll, totalBytes, evictSig, now>>

\* policy.RecordWrite or policy.RecordEvict
TellPolicy(p) ==
  /\ call[p].at = "policy"
  /\ ll' = IF call[p].op = "put" THEN RecordWrite(ll, call[p].key)
                                 ELSE RecordEvict(ll, call[p].key)
  /\ IF call[p].op \in {"put", "delete"} THEN Goto(p, "add") ELSE Leave(p, Return(p))
  /\ UNCHANGED <<m, totalBytes, evictSig, now>>

\* Mutant: an overwrite adds its whole size instead of the delta.
AddWholeSize(p) ==
  /\ call[p].at = "add"
  /\ totalBytes' = totalBytes + (IF call[p].op = "put" THEN call[p].size ELSE -call[p].prev)
  /\ CASE call[p].op = "put" -> Goto(p, "signal")
       [] call[p].op = "delete" -> Leave(p, "idle")
       [] OTHER -> Goto(p, "policy")
  /\ UNCHANGED <<m, ll, evictSig, now>>

\* totalBytes.Add
AddBytes(p) ==
  /\ call[p].at = "add"
  /\ totalBytes' = totalBytes + call[p].size - call[p].prev
  /\ CASE call[p].op = "put" -> Goto(p, "signal")
       [] call[p].op = "delete" -> Leave(p, "idle")
       [] OTHER -> Goto(p, "policy")
  /\ UNCHANGED <<m, ll, evictSig, now>>

\* Mutants: the nudge is sent by the write that sees itself cross the mark, or only
\* strictly above it.
signalEvictEdge(p) ==
  /\ call[p].at = "signal"
  /\ IF Pressured /\ totalBytes - call[p].size + call[p].prev < HiWater
       THEN Goto(p, "send") ELSE Leave(p, "idle")
  /\ UNCHANGED <<m, ll, totalBytes, evictSig, now>>

signalEvictAbove(p) ==
  /\ call[p].at = "signal"
  /\ IF Pressured /\ totalBytes > HiWater THEN Goto(p, "send") ELSE Leave(p, "idle")
  /\ UNCHANGED <<m, ll, totalBytes, evictSig, now>>

\* signalEvict reads the total, and then sends if it is under pressure.
signalEvict(p) ==
  /\ call[p].at = "signal"
  /\ IF Pressured THEN Goto(p, "send") ELSE Leave(p, "idle")
  /\ UNCHANGED <<m, ll, totalBytes, evictSig, now>>

\* The non-blocking send: with a nudge already in the channel this one is dropped.
SendSignal(p) ==
  /\ call[p].at = "send"
  /\ evictSig' = TRUE
  /\ Leave(p, "idle")
  /\ UNCHANGED <<m, ll, totalBytes, now>>

\* A hit records the access on the entry and then in the policy; a miss, like
\* every Peek, changes nothing.
Get(p, k) ==
  /\ call[p].at = "idle"
  /\ CanRLock(StripeOf[k])
  /\ Resident(k)
  /\ m' = [m EXCEPT ![k].accessed = now]
  /\ Enter(p, "read", "get", k, 0, 0)
  /\ UNCHANGED <<ll, totalBytes, evictSig, now>>

RecordRead(p) ==
  /\ call[p].at = "read"
  /\ ll' = RecordAccess(ll, call[p].key)
  /\ Leave(p, "idle")
  /\ UNCHANGED <<m, totalBytes, evictSig, now>>
=============================================================================
