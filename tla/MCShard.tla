------------------------------ MODULE MCShard ------------------------------
(***************************************************************************)
(* Shard for TLC: up to three keys, two of which share a lock stripe.      *)
(***************************************************************************)
EXTENDS ShardInvariant, TLC

CONSTANTS k1, k2, k3

MCStripeOf == [k \in Keys |-> IF k = k3 THEN 2 ELSE 1]
WorkerSymmetry == Permutations(Workers)
=============================================================================
