-------------------------------- MODULE LRU --------------------------------
(***************************************************************************)
(* internal/cache/lru.go: the recency list of the baseline eviction        *)
(* policy.  A list is a sequence of distinct keys, front (most recently    *)
(* used) first; the items map of the code, which finds the node of a key,  *)
(* is the search for the position of the key.  Every method runs under the *)
(* policy's own mutex, so each is one atomic operator here.                *)
(***************************************************************************)
EXTENDS Integers, Sequences, Functions

PositionOf(ll, k) == CHOOSE i \in 1..Len(ll) : ll[i] = k

\* container/list's Remove of the node in place i.
ListRemove(ll, i) == SubSeq(ll, 1, i - 1) \o SubSeq(ll, i + 1, Len(ll))

Unlink(ll, k) == ListRemove(ll, PositionOf(ll, k))

MoveToFront(ll, k) == <<k>> \o Unlink(ll, k)

\* The policy has a victim to offer iff the list is not empty.
HasVictim(ll) == ll # << >>

\* The least recently used key.  It stays in the list: Store.evict unlinks it.
Victim(ll) == ll[Len(ll)]

RecordAccess(ll, k) == IF k \in Range(ll) THEN MoveToFront(ll, k) ELSE ll

\* Mutant: an overwrite pushes a second node for the key.
RecordWriteTwice(ll, k) == <<k>> \o ll

RecordWrite(ll, k) == IF k \in Range(ll) THEN MoveToFront(ll, k) ELSE <<k>> \o ll

\* Mutant: only the tail is unlinked, as if every removal were of the victim.
RecordEvictTail(ll, k) == IF HasVictim(ll) /\ Victim(ll) = k THEN ListRemove(ll, Len(ll)) ELSE ll

RecordEvict(ll, k) == IF k \in Range(ll) THEN Unlink(ll, k) ELSE ll
=============================================================================
