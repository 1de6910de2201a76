--------------------------- MODULE ShardInvariant ---------------------------
(***************************************************************************)
(* The inductive invariant behind the safety properties of Shard: what the *)
(* lock discipline of store.go keeps true in the middle of a call.         *)
(***************************************************************************)
EXTENDS Shard

Puts(p) == call[p].op = "put"
Removes(p) == call[p].op \in {"delete", "drain", "sweep"}

\* Which labels a handler and the evictor can be at, and in which operations.
LabelsOK ==
  /\ \A p \in Workers :
       /\ call[p].at \in {"idle", "admitted", "read"} \cup Writing
       /\ call[p].at = "admitted" => Puts(p)
       /\ call[p].at \in {"policy", "add"} => call[p].op \in {"put", "delete"}
       /\ call[p].at \in {"signal", "send"} => Puts(p)
  /\ call[Evictor].at \in {"select", "check", "victim", "collect", "sweeping", "evict",
                           "policy", "add"}
  /\ call[Evictor].at \in {"evict", "policy", "add"} => call[Evictor].op \in {"drain", "sweep"}
  /\ call[Evictor].at \in {"select", "check", "victim", "collect", "sweeping"} =>
       call[Evictor].op = "none"

\* The write lock of a stripe excludes every other holder.
Exclusive ==
  \A p, q \in Procs :
    /\ p # q
    /\ call[p].at \in Writing
    /\ call[q].at \in Writing \cup {"read"}
    => StripeOf[call[p].key] # StripeOf[call[q].key]

\* The map, seen from a call under way: a Put has published the size it will add, a
\* removal has left nothing behind.
MapOK ==
  /\ \A k \in Keys : ~Resident(k) => m[k].size = 0
  /\ \A p \in Procs :
       call[p].at \in Writing =>
         /\ Puts(p) => Resident(call[p].key) /\ m[call[p].key].size = call[p].size
         /\ Removes(p) => ~Resident(call[p].key) /\ call[p].size = 0

\* The recency list, seen from a call that has told the policy.
PolicyOK ==
  \A p \in Workers :
    /\ call[p].at \in {"add", "signal", "send"} /\ Puts(p) => call[p].key \in Range(ll)
    /\ call[p].at = "add" /\ Removes(p) => call[p].key \notin Range(ll)

\* Someone other than a Delete answers for the pressure: a pending nudge, a drain, or
\* a Put that has yet to decide whether to nudge.  Otherwise whatever the total still
\* counts is about to be subtracted by Deletes.  A sweep answers for nothing.
PutUnderWay == \E p \in Workers : call[p].at \in Writing /\ Puts(p)
DrainUnderWay == call[Evictor].at \in {"check", "victim"} \/ call[Evictor].op = "drain"
OnlyDeletesLeft ==
  \A k \in Keys : Counted(k) = 0 \/ \E p \in Workers : call[p].at \in Writing /\ call[p].key = k
WakeupOK ==
  Pressured /\ needsEviction =>
    evictSig \/ PutUnderWay \/ DrainUnderWay \/ OnlyDeletesLeft

\* In the middle of any set of overlapping calls the stripe locks exclude each other,
\* each call still finds the map and the recency list as it left them, and somebody
\* answers for a store over its high-water mark.
CallsConsistent == LabelsOK /\ Exclusive /\ MapOK /\ PolicyOK /\ WakeupOK

\* The blocks that passed the admission check of Write and are not in totalBytes yet.
InFlight ==
  {p \in Workers : Puts(p) /\ call[p].at \in {"admitted", "policy", "add"}}
AdmissionLimit == MaxBytes + (Cardinality(Workers) - 1) * MaxBlock

\* Why AdmissionBound holds of Write's check-then-act: when blocks are in flight, one of
\* them passed the check after all the others, so the total with that one is under the
\* ceiling and each of the others adds at most its own size.
AdmissionOK ==
  /\ \A p \in InFlight : call[p].size <= MaxBlock
  /\ MaxBytes > 0 =>
       \/ InFlight = {} /\ totalBytes <= AdmissionLimit
       \/ \E p \in InFlight :
            totalBytes + call[p].size + Cardinality(InFlight \ {p}) * MaxBlock <= AdmissionLimit

\* Why IdleDoesNotSurvive holds: once the sweep has looked at a stripe, an entry of it
\* is still to be evicted or was touched since the cutoff, for every later write and
\* read happens after the cutoff.
Sweeping == call[Evictor].at \in {"collect", "sweeping"} \/ call[Evictor].op = "sweep"
BeingEvicted(k) == call[Evictor].at = "evict" /\ call[Evictor].key = k

TimesOK ==
  \A k \in Keys : m[k].created <= m[k].written /\ m[k].written <= now /\ m[k].accessed <= now
SweepOK ==
  /\ TimesOK
  /\ Sweeping =>
       /\ cutoff <= now
       /\ call[Evictor].at # "collect" => scan > NumStripes
       /\ \A k \in Keys :
            Resident(k) /\ StripeOf[k] < scan =>
              k \in victims \/ BeingEvicted(k) \/ LastTouch(k) >= cutoff

-----------------------------------------------------------------------------
Abstract == INSTANCE VersionedStore WITH version <- [k \in Keys |-> m[k].version]

\* For its users the store is one version per block: every step of a handler or of
\* the evictor mints the next version, installs a later one, removes a block or
\* changes no version at all, and never touches two blocks.  So the version of a
\* block that stays only grows, whatever overlaps, and no stale delivery replaces
\* a newer copy.
ImplementsVersionedStore == Abstract!Spec
=============================================================================
