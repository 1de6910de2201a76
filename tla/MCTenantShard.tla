--------------------------- MODULE MCTenantShard ---------------------------
(* TenantShard for TLC: a capped tenant and the unnamed one, under a       *)
(* static cap, no quota, and floors with a weight of 0 and one too large.  *)
EXTENDS TenantShard

CONSTANTS k1, k2, A, B

NoQuota == [t \in Tenants |-> 0]
QuotaA == [t \in Tenants |-> IF t = A THEN 1 ELSE 0]
Unbounded == [max |-> 0, hi |-> 0, lo |-> 0]
Bounded == [max |-> 4, hi |-> 3, lo |-> 1]
StaticUnbounded == {<<NewGDSF(QuotaA), Unbounded>>}
MCDeployments ==
  StaticUnbounded \cup
  {<<NewGDSF(QuotaA), Bounded>>, <<NewGDSF(NoQuota), Bounded>>,
   <<NewGDSFElastic(QuotaA, 0), Bounded>>, <<NewGDSFElastic(QuotaA, 150), Bounded>>}
=============================================================================
