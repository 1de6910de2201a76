-------------------------------- MODULE GDSF --------------------------------
(***************************************************************************)
(* internal/cache/gdsf.go: the cost-aware policy GreedyDual-Size-Frequency *)
(* with a byte quota per tenant.  Every method runs under the policy's own *)
(* mutex, so each is one atomic operator on the policy's state, a record   *)
(*   item       what is tracked of each block; freq is 0 for an untracked  *)
(*              block (a tracked one has been touched at least once),      *)
(*   bytes      the running byte total of each tenant,                     *)
(*   inflation  the aging floor L.                                         *)
(* A tenant's heap is the set of its items: the code only looks at the     *)
(* root, a block of lowest priority, and which of several lowest ones that *)
(* is depends on the history of the heap.  A tenant the policy has not met *)
(* is one with no items and no bytes.  Priorities and scores are floating  *)
(* point in the code; here they are in units of 1/Scale, exact if Scale is *)
(* a common multiple of the block sizes.                                   *)
(***************************************************************************)
EXTENDS Integers, FiniteSets

CONSTANTS
  Keys,       \* store keys
  Tenants,    \* tenant ids
  Default,    \* the unnamed tenant ""
  Scale,      \* priorities are multiples of 1/Scale
  MaxOverage  \* maxOverage, 1e9 in the code

ASSUME GDSFAssumption ==
  /\ IsFiniteSet(Keys) /\ Keys # {}
  /\ Default \in Tenants
  /\ Scale \in Nat \ {0} /\ MaxOverage \in Nat

\* A policy's configuration; fairness weights are in percent, out of range they are
\* clamped.  A quota of 0 is none.
NewGDSF(quotas) == [elastic |-> FALSE, weight |-> 0, quota |-> quotas]
Clamp(w) == IF w < 0 THEN 0 ELSE IF w > 100 THEN 100 ELSE w
NewGDSFElastic(quotas, w) == [elastic |-> TRUE, weight |-> Clamp(w), quota |-> quotas]

Item == [tenant : Tenants, size : Nat, cost : Nat, freq : Nat, priority : Nat]
NoItem == [tenant |-> Default, size |-> 0, cost |-> 0, freq |-> 0, priority |-> 0]
EmptyPolicy == [item |-> [k \in Keys |-> NoItem],
                bytes |-> [t \in Tenants |-> 0],
                inflation |-> 0]

Tracked(pol, k) == pol.item[k].freq # 0
Heap(pol, t) == {k \in Keys : Tracked(pol, k) /\ pol.item[k].tenant = t}

\* What the block contributes to the tenant's heap, and all bytes of the heap.
SizeIn(pol, t, k) == IF k \in Heap(pol, t) THEN pol.item[k].size ELSE 0
HeapBytes(pol, t) == UNION {{k} \X (1..SizeIn(pol, t, k)) : k \in Keys}

\* H = L + freq * cost / size, with 1 for a cost or a size that is not set.
priorityOf(pol, freq, cost, size) ==
  pol.inflation + (Scale * freq * (IF cost = 0 THEN 1 ELSE cost))
                    \div (IF size = 0 THEN 1 ELSE size)
-----------------------------------------------------------------------------
\* Mutant: the bytes are taken off again by the caller.
removeItemTwice(pol, k) ==
  [pol EXCEPT !.item[k] = NoItem,
              !.bytes[pol.item[k].tenant] = @ - 2 * pol.item[k].size]

removeItem(pol, k) ==
  [pol EXCEPT !.item[k] = NoItem,
              !.bytes[pol.item[k].tenant] = @ - pol.item[k].size]

insertItem(pol, k, t, size, cost) ==
  [pol EXCEPT !.item[k] = [tenant |-> t, size |-> size, cost |-> cost, freq |-> 1,
                           priority |-> priorityOf(pol, 1, cost, size)],
              !.bytes[t] = @ + size]

\* An overwrite by the same tenant keeps the frequency.
resizeItem(pol, k, size, cost) ==
  [pol EXCEPT !.item[k].size = size,
              !.item[k].cost = cost,
              !.item[k].priority = priorityOf(pol, pol.item[k].freq, cost, size),
              !.bytes[pol.item[k].tenant] = @ + size - pol.item[k].size]

\* Mutant: a block that changes hands is not taken off its old tenant's total.
RecordWriteKeepsOld(pol, k, t, size, cost) ==
  IF Tracked(pol, k) /\ pol.item[k].tenant = t
    THEN resizeItem(pol, k, size, cost)
    ELSE insertItem(pol, k, t, size, cost)

\* Mutant: an overwrite is never a change of tenant.
RecordWriteSameTenant(pol, k, t, size, cost) ==
  IF Tracked(pol, k) THEN resizeItem(pol, k, size, cost)
                     ELSE insertItem(pol, k, t, size, cost)

RecordWrite(pol, k, t, size, cost) ==
  IF Tracked(pol, k) /\ pol.item[k].tenant = t
    THEN resizeItem(pol, k, size, cost)
    ELSE insertItem(IF Tracked(pol, k) THEN removeItem(pol, k) ELSE pol, k, t, size, cost)

RecordAccess(pol, k) ==
  IF Tracked(pol, k)
    THEN [pol EXCEPT
            !.item[k].freq = @ + 1,
            !.item[k].priority =
               priorityOf(pol, pol.item[k].freq + 1, pol.item[k].cost, pol.item[k].size)]
    ELSE pol

RecordEvict(pol, k) == IF Tracked(pol, k) THEN removeItem(pol, k) ELSE pol
-----------------------------------------------------------------------------
Over(conf, pol, t) == conf.quota[t] > 0 /\ pol.bytes[t] > conf.quota[t]

\* Elastic quotas are floors: they never cause an eviction by themselves.
OverQuota(conf, pol) == ~conf.elastic /\ \E t \in Tenants : Over(conf, pol, t)

Roots(pol, t) ==
  {k \in Heap(pol, t) : \A j \in Heap(pol, t) : pol.item[k].priority <= pol.item[j].priority}
Lowest(pol, ks) ==
  {k \in ks : \A j \in ks : pol.item[k].priority <= pol.item[j].priority}

\* Mutant: the roots of different tenants are not compared.
victimAnyRoot(conf, pol) ==
  LET over == {t \in Tenants : Heap(pol, t) # {} /\ Over(conf, pol, t)}
      payers == IF over # {} THEN over ELSE Tenants
  IN  UNION {Roots(pol, t) : t \in payers}

\* Over-quota tenants pay first; if there is none, anyone does.
victimStatic(conf, pol) ==
  LET over == {t \in Tenants : Heap(pol, t) # {} /\ Over(conf, pol, t)}
      payers == IF over # {} THEN over ELSE Tenants
  IN  Lowest(pol, UNION {Roots(pol, t) : t \in payers})

\* 1 + weight * overage as a fraction with denominator 100 * floor (100 without one).
DiscountDen(conf, t) == IF conf.quota[t] = 0 THEN 100 ELSE 100 * conf.quota[t]
DiscountNum(conf, pol, t) ==
  DiscountDen(conf, t) +
    conf.weight * (IF conf.quota[t] = 0
                     THEN IF pol.bytes[t] > 0 THEN MaxOverage ELSE 0
                     ELSE IF pol.bytes[t] > conf.quota[t]
                            THEN pol.bytes[t] - conf.quota[t] ELSE 0)

\* The root with the lowest priority after its tenant's discount.
victimElastic(conf, pol) ==
  LET roots == UNION {Roots(pol, t) : t \in Tenants}
      num(k) == DiscountNum(conf, pol, pol.item[k].tenant)
      den(k) == DiscountDen(conf, pol.item[k].tenant)
  IN  {k \in roots : \A j \in roots :
         pol.item[k].priority * den(k) * num(j) <= pol.item[j].priority * den(j) * num(k)}

\* What Victim may return, and the floor it leaves behind.
Victims(conf, pol) ==
  IF conf.elastic THEN victimElastic(conf, pol) ELSE victimStatic(conf, pol)

Age(pol, k) ==
  IF pol.item[k].priority > pol.inflation
    THEN [pol EXCEPT !.inflation = pol.item[k].priority] ELSE pol
=============================================================================
