------------------------------ MODULE Versions ------------------------------
(***************************************************************************)
(* What a store promises about the version of a block, 0 when it holds     *)
(* none (internal/cache/store.go: Put, PutWithVersion, Delete, evict).     *)
(***************************************************************************)
EXTENDS Integers

\* Put mints the next version: 1 for a block the store does not hold.
Put(held) == held + 1

\* Mutant: the last delivery wins.
PutLastDelivery(held, version) == version

\* PutWithVersion stores a copy under its own version, and drops a stale one.
PutWithVersion(held, version) == IF held # 0 /\ version <= held THEN held ELSE version
=============================================================================
