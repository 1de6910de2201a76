--------------------------- MODULE VersionedStore ---------------------------
(***************************************************************************)
(* The store as its users see it: a version for every block, changed one   *)
(* block and one operation at a time.  Nothing of stripes, locks, the      *)
(* policy or the evictor is left.  Replication uses one such number per    *)
(* node; ShardInvariant states that Shard implements this module.          *)
(***************************************************************************)
EXTENDS Versions

CONSTANTS
  Keys,            \* (model, block hash) pairs
  ReplicaVersions  \* versions a peer or the cold tier may deliver

VARIABLE version   \* the version of each block, 0 when it is not held

Mint(k) == version' = [version EXCEPT ![k] = Put(@)]

Install(k, v) ==
  version[k] < v /\ version' = [version EXCEPT ![k] = PutWithVersion(@, v)]

Remove(k) == version' = [version EXCEPT ![k] = 0]

Init == version = [k \in Keys |-> 0]
Next == \E k \in Keys : Mint(k) \/ Remove(k) \/ \E v \in ReplicaVersions : Install(k, v)
Spec == Init /\ [][Next]_version
=============================================================================
