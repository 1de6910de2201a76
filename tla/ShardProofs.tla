---------------------------- MODULE ShardProofs ----------------------------
(***************************************************************************)
(* The safety theorems of Shard.  The argument: the stripe locks exclude   *)
(* each other (Exclusive), so a call finds the map as it left it (MapOK)   *)
(* and the policy as it told it (PolicyOK); hence only totalBytes.Add      *)
(* changes what the counter accounts for, by what it adds, and somebody    *)
(* always answers for a store over its high-water mark (WakeupOK).         *)
(***************************************************************************)
EXTENDS ShardInduction

IInv ==
  /\ TypeOK /\ LabelsOK /\ Exclusive /\ MapOK /\ PolicyOK /\ PolicyTracksStore
  /\ AccountingOK /\ WakeupOK
-----------------------------------------------------------------------------
(***************************************************************************)
(* The theorems.                                                           *)
(***************************************************************************)
LEMMA InitIInv == Init => IInv
  BY InitTypeOK, InitCallsOK, InitAccounting, InitWakeup, Zenon DEF IInv

LEMMA StepIInv == IInv /\ [Next]_vars => IInv'
  <1> SUFFICES ASSUME IInv, [Next]_vars PROVE IInv'
    BY Zenon
  <1>1. /\ TypeOK /\ LabelsOK /\ Exclusive /\ MapOK /\ PolicyOK /\ PolicyTracksStore
        /\ AccountingOK /\ WakeupOK
    BY Zenon DEF IInv
  <1>2. TypeOK'
    BY <1>1, StepTypeOK, Zenon
  <1>3. SomeStep
    BY <1>1, StepKinds, Zenon
  <1>4. LabelsOK'
    BY <1>1, <1>3, StepLabels, Zenon
  <1>5. Exclusive'
    BY <1>1, <1>3, StepExclusive, Zenon
  <1>6. MapOK'
    BY <1>1, <1>2, <1>3, StepMap, Zenon
  <1>7. PolicyOK' /\ PolicyTracksStore'
    BY <1>1, <1>3, StepPolicy, StepTracks, Zenon
  <1>8. AccountingOK'
    BY <1>1, <1>2, <1>3, <1>5, StepAccounting, Zenon
  <1>9. WakeupOK'
    BY <1>1, <1>2, <1>3, <1>5, StepWakeup, Zenon
  <1> QED
    BY <1>2, <1>4, <1>5, <1>6, <1>7, <1>8, <1>9, Zenon DEF IInv

LEMMA Inductive == Spec => []IInv
  <1> QED
    BY InitIInv, StepIInv, PTL DEF Spec

\* What the lock discipline of store.go keeps true in the middle of overlapping
\* calls holds of every shard.
THEOREM CallsStayConsistent == Spec => []CallsConsistent
  <1>1. IInv => CallsConsistent
    BY Zenon DEF IInv, CallsConsistent
  <1> QED
    BY <1>1, Inductive, PTL

\* totalBytes is exact in every shard: atomic deltas added after the map writes, in
\* any interleaving, always sum to the bytes of the entries they account for.
THEOREM BytesAccounted == Spec => []Accounting
  <1>1. IInv => Accounting
    BY Zenon DEF IInv, AccountingOK
  <1> QED
    BY <1>1, Inductive, PTL

\* The recency list and the map agree on every key nobody is writing.
THEOREM PolicyAgrees == Spec => []PolicyTracksStore
  <1>1. IInv => PolicyTracksStore
    BY Zenon DEF IInv
  <1> QED
    BY <1>1, Inductive, PTL

\* No nudge is lost: a store over its high-water mark never sleeps.
THEOREM WakeupNeverLost == Spec => []NoLostWakeup
  <1>1. IInv => NoLostWakeup
    <2> SUFFICES ASSUME IInv, Pressured, needsEviction, ~evictSig, call[Evictor].at = "select",
                        \A p \in Workers : call[p].at \notin Writing
                 PROVE  FALSE
      BY Zenon DEF NoLostWakeup
    <2>1. ~PutUnderWay
      BY Zenon DEF PutUnderWay
    <2>2. ~DrainUnderWay
      BY Zenon DEF IInv, LabelsOK, DrainUnderWay
    <2>3. OnlyDeletesLeft
      BY <2>1, <2>2, Zenon DEF IInv, WakeupOK
    <2>4. \A k \in Keys : {k} \X (1..Counted(k)) = {}
      <3>1. \A k \in Keys : Counted(k) = 0
        BY <2>3, Zenon DEF OnlyDeletesLeft
      <3> QED
        BY <3>1
    <2>5. CountedBytes = {}
      BY <2>4, Zenon DEF CountedBytes
    <2>6. totalBytes = 0
      BY <2>5, FS_EmptySet, Zenon DEF IInv, AccountingOK, Accounting
    <2> QED
      BY <2>6, WaterMarks DEF needsEviction
  <1> QED
    BY <1>1, Inductive, PTL

\* The striped store with its evictor implements one version per block.
THEOREM StoreIsVersioned == Spec => ImplementsVersionedStore
  <1> DEFINE held == [k \in Keys |-> m[k].version]
  <1>1. Init => Abstract!Init
    BY DEF Init, StoreInit, NoEntry, Abstract!Init
  <1>2. IInv /\ [Next]_vars => [Abstract!Next]_held
    <2> SUFFICES ASSUME IInv, [Next]_vars, held' # held
                 PROVE  Abstract!Next
      BY Zenon
    <2>1. SomeStep
      BY StepKinds, Zenon DEF IInv
    <2>2. \A k \in Keys : m[k].version \in Nat /\ m'[k].version \in Nat
      BY StepTypeOK, Zenon DEF IInv, TypeOK, Entry
    <2>3. PICK p \in Procs, k \in Keys : PublishStep(p, k) \/ UnpublishStep(p, k)
      BY <2>1, Zenon
      DEF SomeStep, TellStep, AddStep, SignalStep, ReadStep, AdmitStep, LoopStep, NoStep
    <2>4. held' = [held EXCEPT ![k] = m'[k].version]
      <3>1. \A j \in Keys : j # k => m'[j].version = m[j].version
        BY <2>3, Zenon DEF PublishStep, UnpublishStep
      <3> QED
        BY <3>1, Zenon
    <2>5. CASE UnpublishStep(p, k)
      <3>1. Abstract!Remove(k)
        BY <2>4, <2>5, Zenon DEF UnpublishStep, Abstract!Remove
      <3> QED
        BY <3>1, Zenon DEF Abstract!Next
    <2>6. CASE PublishStep(p, k) /\ m'[k].version = m[k].version + 1
      <3>1. Abstract!Mint(k)
        BY <2>4, <2>6, Zenon DEF Abstract!Mint, Abstract!Put
      <3> QED
        BY <3>1, Zenon DEF Abstract!Next
    <2>7. CASE PublishStep(p, k) /\ m'[k].version \in ReplicaVersions
      <3>1. PICK v \in ReplicaVersions : v = m'[k].version
        BY <2>7, Zenon
      <3>2. held[k] < v /\ held' = [held EXCEPT ![k] = v]
        BY <2>4, <2>7, <3>1, Zenon DEF PublishStep
      <3>3. held[k] \in Nat /\ v \in Nat
        BY <2>2, <3>1, Zenon
      <3>4. Abstract!PutWithVersion(held[k], v) = v
        BY <3>2, <3>3 DEF Abstract!PutWithVersion
      <3>5. Abstract!Install(k, v)
        BY <3>2, <3>4, Zenon DEF Abstract!Install
      <3> QED
        BY <3>5, Zenon DEF Abstract!Next
    <2> QED
      BY <2>3, <2>5, <2>6, <2>7, Zenon DEF PublishStep
  <1> QED
    BY <1>1, <1>2, Inductive, PTL DEF Spec, ImplementsVersionedStore, Abstract!Spec
-----------------------------------------------------------------------------
(***************************************************************************)
(* The admission bound of a shard without peers.                           *)
(***************************************************************************)
LEMMA InFlightFacts ==
  /\ IsFiniteSet(InFlight) /\ Cardinality(InFlight) \in Nat
  /\ \A p \in InFlight : /\ IsFiniteSet(InFlight \ {p})
                         /\ Cardinality(InFlight \ {p}) = Cardinality(InFlight) - 1
  /\ InFlight = {} <=> Cardinality(InFlight) = 0
  <1>1. InFlight \in SUBSET Workers
    BY Zenon DEF InFlight
  <1>2. IsFiniteSet(InFlight)
    BY <1>1, StoreAssumption, FS_Subset, Zenon
  <1> HIDE DEF InFlight
  <1> QED
    BY <1>2, FS_CardinalityType, FS_RemoveElement, FS_EmptySet, Zenon

InFlightOK ==
  /\ IsFiniteSet(InFlight) /\ Cardinality(InFlight) \in Nat
  /\ \A p \in InFlight : Cardinality(InFlight \ {p}) = Cardinality(InFlight) - 1
  /\ InFlight = {} <=> Cardinality(InFlight) = 0

LEMMA InFlightNow == InFlightOK
  BY InFlightFacts, Zenon DEF InFlightOK

LEMMA InFlightNext == InFlightOK'
  BY InFlightNow, PTL

LEMMA LimitFacts ==
  /\ MaxBlock \in Nat /\ MaxBytes \in Nat /\ AdmissionLimit \in Int
  /\ Cardinality(Workers) \in Nat
  /\ AdmissionLimit = MaxBytes + (Cardinality(Workers) - 1) * MaxBlock
  BY StoreAssumption, FS_CardinalityType DEF AdmissionLimit

\* Nothing lands and nothing is admitted.
LEMMA KeepsAdmission ==
  ASSUME TypeOK, TypeOK', AdmissionOK, InFlight' = InFlight, totalBytes' <= totalBytes,
         \A p \in InFlight : call'[p].size = call[p].size
  PROVE  AdmissionOK'
  <1>0. /\ totalBytes \in Int /\ totalBytes' \in Int
        /\ \A p \in InFlight : call[p].size \in Nat
    BY ProcsFacts, Zenon DEF TypeOK, Call, InFlight
  <1>1. \A p \in InFlight' : call'[p].size <= MaxBlock
    BY Zenon DEF AdmissionOK
  <1>2. CASE MaxBytes > 0 /\ InFlight = {} /\ totalBytes <= AdmissionLimit
    <2>1. totalBytes' <= AdmissionLimit
      BY <1>0, <1>2, LimitFacts
    <2> QED
      BY <1>1, <1>2, <2>1, Zenon DEF AdmissionOK, AdmissionLimit
  <1>3. ASSUME MaxBytes > 0, NEW p \in InFlight,
               totalBytes + call[p].size + Cardinality(InFlight \ {p}) * MaxBlock <= AdmissionLimit
        PROVE  AdmissionOK'
    <2> DEFINE x == Cardinality(InFlight \ {p}) * MaxBlock
    <2>0. IsFiniteSet(InFlight \ {p})
      BY InFlightFacts, Zenon
    <2>1. Cardinality(InFlight \ {p}) \in Int
      BY <2>0, FS_CardinalityType
    <2>2. x \in Int
      BY <2>1, LimitFacts
    <2>3. totalBytes + call[p].size + x <= AdmissionLimit
      BY <1>3, Zenon
    <2> HIDE DEF x
    <2>4. totalBytes' + call[p].size + x <= AdmissionLimit
      BY <1>0, <2>2, <2>3, LimitFacts
    <2>5. totalBytes' + call'[p].size + Cardinality(InFlight' \ {p}) * MaxBlock <= AdmissionLimit
      BY <2>4, Zenon DEF x
    <2> QED
      BY <1>1, <2>5, Zenon DEF AdmissionOK, AdmissionLimit
  <1>4. CASE ~(MaxBytes > 0)
    BY <1>1, <1>4, Zenon DEF AdmissionOK
  <1> QED
    BY <1>2, <1>3, <1>4, Zenon DEF AdmissionOK

\* A block is admitted.
LEMMA AdmitKeepsBound ==
  ASSUME TypeOK, TypeOK', AdmissionOK, NEW p \in Procs, AdmitStep(p)
  PROVE  AdmissionOK'
  <1>0. /\ p \in Workers /\ totalBytes' = totalBytes /\ totalBytes \in Int
        /\ call'[p].size \in Nat /\ call'[p].size <= MaxBlock
    <2>1. p \in Workers /\ totalBytes' = totalBytes /\ call'[p].size \in Sizes
      BY Zenon DEF AdmitStep
    <2>2. Sizes \subseteq 0..MaxBlock /\ MaxBlock \in Nat /\ totalBytes \in Int
      BY StoreAssumption, Zenon DEF TypeOK
    <2>3. call'[p].size \in 0..MaxBlock
      BY <2>1, <2>2, Zenon
    <2>4. call'[p].size \in Nat /\ call'[p].size <= MaxBlock
      BY <2>2, <2>3
    <2> QED
      BY <2>1, <2>2, <2>4, Zenon
  <1>1. InFlight' = InFlight \cup {p} /\ p \notin InFlight
    BY ProcsFacts, Zenon DEF AdmitStep, InFlight, Others, Puts
  <1>2. \A q \in InFlight : call'[q].size = call[q].size
    BY <1>1, ProcsFacts, Zenon DEF AdmitStep, Others, InFlight
  <1>3. \A q \in InFlight' : call'[q].size <= MaxBlock
    BY <1>0, <1>1, <1>2, Zenon DEF AdmissionOK
  <1>4. MaxBytes > 0 => totalBytes + call'[p].size <= MaxBytes
    BY <1>0, LimitFacts DEF AdmitStep, OverHardLimit
  <1>5. Cardinality(InFlight' \ {p}) \in Nat /\ Cardinality(InFlight' \ {p}) <= Cardinality(Workers) - 1
    <2>1. InFlight' \ {p} \in SUBSET (Workers \ {p})
      BY Zenon DEF InFlight
    <2>2. IsFiniteSet(Workers \ {p}) /\ Cardinality(Workers \ {p}) = Cardinality(Workers) - 1
      BY <1>0, StoreAssumption, FS_RemoveElement, Zenon
    <2>3. IsFiniteSet(InFlight' \ {p}) /\ Cardinality(InFlight' \ {p}) <= Cardinality(Workers \ {p})
      BY <2>1, <2>2, FS_Subset, Zenon
    <2>4. Cardinality(InFlight' \ {p}) \in Nat
      BY <2>3, FS_CardinalityType, Zenon
    <2> QED
      BY <2>2, <2>3, <2>4, Zenon
  <1>6. Cardinality(InFlight' \ {p}) * MaxBlock <= (Cardinality(Workers) - 1) * MaxBlock
    <2> DEFINE a == Cardinality(InFlight' \ {p})
               b == Cardinality(Workers) - 1
    <2>1. a \in Nat /\ b \in Int /\ a <= b /\ MaxBlock \in Nat
      BY <1>5, LimitFacts
    <2> HIDE DEF a, b
    <2>2. a * MaxBlock <= b * MaxBlock
      BY <2>1
    <2> QED
      BY <2>2, Zenon DEF a, b
  <1>7. MaxBytes > 0 =>
          totalBytes' + call'[p].size + Cardinality(InFlight' \ {p}) * MaxBlock <= AdmissionLimit
    <2> DEFINE x == Cardinality(InFlight' \ {p}) * MaxBlock
               y == (Cardinality(Workers) - 1) * MaxBlock
    <2>1. x \in Int /\ y \in Int /\ x <= y /\ AdmissionLimit = MaxBytes + y
      BY <1>5, <1>6, LimitFacts
    <2> HIDE DEF x, y
    <2>2. MaxBytes > 0 => totalBytes' + call'[p].size + x <= AdmissionLimit
      BY <1>0, <1>4, <2>1, LimitFacts
    <2> QED
      BY <2>2, Zenon DEF x
  <1> QED
    BY <1>1, <1>3, <1>7, Zenon DEF AdmissionOK, AdmissionLimit

\* A block lands.
LEMMA LandKeepsBound ==
  ASSUME TypeOK, TypeOK', AdmissionOK, NEW p \in InFlight, call[p].at = "add", AddStep(p)
  PROVE  AdmissionOK'
  <1> DEFINE n == Cardinality(InFlight)
  <1>0. /\ p \in Workers /\ totalBytes \in Int /\ totalBytes' \in Int
        /\ call[p].size \in Nat /\ call[p].prev \in Nat
        /\ \A q \in InFlight : call[q].size \in Nat /\ call[q].size <= MaxBlock
    BY ProcsFacts, Zenon DEF InFlight, TypeOK, Call, AdmissionOK
  <1>1. totalBytes' <= totalBytes + call[p].size
    BY <1>0 DEF AddStep
  <1>2. InFlight' = InFlight \ {p}
    BY <1>0, ProcsFacts, Zenon DEF AddStep, InFlight, Others, Puts
  <1>3. \A q \in InFlight' : call'[q].size = call[q].size
    BY <1>0, <1>2, ProcsFacts, Zenon DEF AddStep, InFlight, Others
  <1>4. /\ n \in Nat /\ n # 0 /\ Cardinality(InFlight') = n - 1
        /\ \A q \in InFlight : Cardinality(InFlight \ {q}) = n - 1
        /\ \A q \in InFlight' : Cardinality(InFlight' \ {q}) = n - 2
        /\ InFlight' = {} <=> n - 1 = 0
    BY <1>2, InFlightNow, InFlightNext DEF InFlightOK
  <1> HIDE DEF n
  <1>5. SUFFICES ASSUME MaxBytes > 0
                 PROVE  \/ InFlight' = {} /\ totalBytes' <= AdmissionLimit
                        \/ \E q \in InFlight' :
                             totalBytes' + call'[q].size + (n - 2) * MaxBlock <= AdmissionLimit
    <2>1. \A q \in InFlight' : call'[q].size <= MaxBlock
      BY <1>0, <1>2, <1>3, Zenon
    <2> QED
      BY <1>4, <1>5, <2>1, Zenon DEF AdmissionOK, AdmissionLimit
  <1>6. PICK w \in InFlight : totalBytes + call[w].size + (n - 1) * MaxBlock <= AdmissionLimit
    BY <1>4, <1>5, Zenon DEF AdmissionOK
  <1>7. (n - 1) * MaxBlock \in Nat /\ (n - 2) * MaxBlock = (n - 1) * MaxBlock - MaxBlock
    BY <1>4, LimitFacts
  <1>8. CASE InFlight' = {}
    <2>1. w = p
      BY <1>2, <1>8, Zenon
    <2>2. totalBytes' <= AdmissionLimit
      BY <1>0, <1>1, <1>6, <1>7, <2>1, LimitFacts
    <2> QED
      BY <1>8, <2>2, Zenon
  <1>9. CASE InFlight' # {} /\ w = p
    <2>1. PICK q \in InFlight' : TRUE
      BY <1>9, Zenon
    <2>2. call'[q].size \in Nat /\ call'[q].size <= MaxBlock
      BY <1>0, <1>2, <1>3, Zenon
    <2>3. totalBytes' + call'[q].size + (n - 2) * MaxBlock <= AdmissionLimit
      BY <1>0, <1>1, <1>6, <1>7, <1>9, <2>2, LimitFacts
    <2> QED
      BY <2>3, Zenon
  <1>10. CASE w # p
    <2>1. w \in InFlight' /\ call'[w].size = call[w].size
      BY <1>2, <1>3, <1>10, Zenon
    <2>2. totalBytes' + call[w].size + (n - 2) * MaxBlock <= AdmissionLimit
      BY <1>0, <1>1, <1>6, <1>7, LimitFacts
    <2> QED
      BY <2>1, <2>2, Zenon
  <1> QED
    BY <1>8, <1>9, <1>10, Zenon

LEMMA StepAdmission ==
  ASSUME ReplicaVersions = {}, TypeOK, TypeOK', LabelsOK, MapOK, AdmissionOK, SomeStep
  PROVE  AdmissionOK'
  <1> USE ProcsFacts
  <1>0. totalBytes \in Int /\ totalBytes' \in Int
    BY Zenon DEF TypeOK
  <1>1. ASSUME NEW p \in Procs, NEW k \in Keys, PublishStep(p, k) PROVE AdmissionOK'
    <2>1. call[p].at = "admitted" /\ Puts(p) /\ call'[p].size = call[p].size
      BY <1>1, Zenon DEF PublishStep, LabelsOK
    <2>2. InFlight' = InFlight
      BY <1>1, <2>1, Zenon DEF PublishStep, InFlight, Others, Puts
    <2>3. \A q \in InFlight : call'[q].size = call[q].size
      BY <1>1, <2>1, Zenon DEF PublishStep, InFlight, Others
    <2>4. totalBytes' <= totalBytes
      <3>1. totalBytes' = totalBytes
        BY <1>1, Zenon DEF PublishStep
      <3> QED
        BY <1>0, <3>1
    <2> QED
      BY <2>2, <2>3, <2>4, KeepsAdmission, Zenon
  <1>2. ASSUME NEW p \in Procs, NEW k \in Keys, UnpublishStep(p, k) PROVE AdmissionOK'
    <2>1. InFlight' = InFlight /\ p \notin InFlight
      BY <1>2, Zenon DEF UnpublishStep, InFlight, Others, Puts
    <2>2. \A q \in InFlight : call'[q].size = call[q].size
      BY <1>2, <2>1, Zenon DEF UnpublishStep, InFlight, Others
    <2>3. totalBytes' <= totalBytes
      <3>1. totalBytes' = totalBytes
        BY <1>2, Zenon DEF UnpublishStep
      <3> QED
        BY <1>0, <3>1
    <2> QED
      BY <2>1, <2>2, <2>3, KeepsAdmission, Zenon
  <1>3. ASSUME NEW p \in Procs, TellStep(p) PROVE AdmissionOK'
    <2>1. InFlight' = InFlight
      BY <1>3, Zenon DEF TellStep, InFlight, Others, Puts, SameCall
    <2>2. \A q \in InFlight : call'[q].size = call[q].size
      BY <1>3, Zenon DEF TellStep, InFlight, Others, Puts, SameCall
    <2>3. totalBytes' <= totalBytes
      <3>1. totalBytes' = totalBytes
        BY <1>3, Zenon DEF TellStep
      <3> QED
        BY <1>0, <3>1
    <2> QED
      BY <2>1, <2>2, <2>3, KeepsAdmission, Zenon
  <1>4. ASSUME NEW p \in Procs, AddStep(p) PROVE AdmissionOK'
    <2>1. CASE p \in InFlight
      BY <1>4, <2>1, LandKeepsBound, Zenon DEF AddStep
    <2>2. CASE p \notin InFlight
      <3>1. Removes(p) /\ call[p].at \in Writing
        BY <1>4, <2>2, Zenon DEF AddStep, InFlight, LabelsOK, Puts, Removes, Writing
      <3>2. call[p].size = 0 /\ call[p].prev \in Nat
        BY <3>1, Zenon DEF MapOK, TypeOK, Call
      <3>3. totalBytes' <= totalBytes
        BY <1>0, <1>4, <3>2 DEF AddStep
      <3>4. InFlight' = InFlight
        BY <1>4, <2>2, <3>1, Zenon DEF AddStep, InFlight, Others, SameCall, Puts, Removes
      <3>5. \A q \in InFlight : call'[q].size = call[q].size
        BY <1>4, <2>2, Zenon DEF AddStep, InFlight, Others
      <3> QED
        BY <3>3, <3>4, <3>5, KeepsAdmission, Zenon
    <2> QED
      BY <2>1, <2>2, Zenon
  <1>5. ASSUME NEW p \in Procs, SignalStep(p) \/ ReadStep(p) PROVE AdmissionOK'
    <2>1. InFlight' = InFlight /\ p \notin InFlight
      BY <1>5, Zenon DEF SignalStep, ReadStep, InFlight, Others, Puts
    <2>2. \A q \in InFlight : call'[q].size = call[q].size
      BY <1>5, <2>1, Zenon DEF SignalStep, ReadStep, InFlight, Others
    <2>3. totalBytes' <= totalBytes
      <3>1. totalBytes' = totalBytes
        BY <1>5, Zenon DEF SignalStep, ReadStep
      <3> QED
        BY <1>0, <3>1
    <2> QED
      BY <2>1, <2>2, <2>3, KeepsAdmission, Zenon
  <1>6. ASSUME NEW p \in Procs, AdmitStep(p) PROVE AdmissionOK'
    BY <1>6, AdmitKeepsBound, Zenon
  <1>7. CASE LoopStep
    <2>1. InFlight' = InFlight /\ \A q \in InFlight : call'[q].size = call[q].size
      BY <1>7, Zenon DEF LoopStep, InFlight, Others, Puts
    <2>2. totalBytes' <= totalBytes
      <3>1. totalBytes' = totalBytes
        BY <1>7, Zenon DEF LoopStep
      <3> QED
        BY <1>0, <3>1
    <2> QED
      BY <2>1, <2>2, KeepsAdmission, Zenon
  <1>8. CASE NoStep
    <2>1. InFlight' = InFlight /\ \A q \in InFlight : call'[q].size = call[q].size
      BY <1>8, Zenon DEF NoStep, InFlight, Puts
    <2>2. totalBytes' <= totalBytes
      <3>1. totalBytes' = totalBytes
        BY <1>8, Zenon DEF NoStep
      <3> QED
        BY <1>0, <3>1
    <2> QED
      BY <2>1, <2>2, KeepsAdmission, Zenon
  <1> QED
    BY <1>1, <1>2, <1>3, <1>4, <1>5, <1>6, <1>7, <1>8, Zenon DEF SomeStep

LEMMA InitAdmission == Init => AdmissionOK
  <1> SUFFICES ASSUME Init PROVE AdmissionOK
    BY Zenon
  <1>1. InFlight = {}
    BY InitCalls, Zenon DEF InFlight
  <1>2. Cardinality(Workers) # 0
    BY StoreAssumption, FS_EmptySet, Zenon
  <1>3. (Cardinality(Workers) - 1) * MaxBlock \in Nat
    BY <1>2, LimitFacts
  <1>4. totalBytes <= AdmissionLimit
    BY <1>3, LimitFacts DEF Init, StoreInit
  <1> QED
    BY <1>1, <1>4, Zenon DEF AdmissionOK

\* Why Write's check-then-act stays bounded: in a shard that receives no replicas,
\* whenever admitted blocks have yet to land one of them passed the check after all the
\* others.
THEOREM AdmissionStays ==
  ASSUME ReplicaVersions = {}
  PROVE  Spec => []AdmissionOK
  <1>1. IInv /\ AdmissionOK /\ [Next]_vars => AdmissionOK'
    <2> SUFFICES ASSUME IInv, AdmissionOK, [Next]_vars PROVE AdmissionOK'
      BY Zenon
    <2>1. IInv' /\ SomeStep
      BY StepIInv, StepKinds, Zenon DEF IInv
    <2> QED
      BY <2>1, StepAdmission, Zenon DEF IInv
  <1> QED
    BY <1>1, InitAdmission, Inductive, PTL DEF Spec

\* A shard that receives no replicas overshoots maxBytes by at most one block for each
\* concurrent writer beyond the first, although Write checks the ceiling and stores
\* the block in two steps.
THEOREM AdmissionBounded ==
  ASSUME ReplicaVersions = {}
  PROVE  Spec => []AdmissionBound
  <1>1. IInv /\ AdmissionOK => AdmissionBound
    <2> SUFFICES ASSUME IInv, AdmissionOK, MaxBytes > 0 PROVE totalBytes <= AdmissionLimit
      BY Zenon DEF AdmissionBound, AdmissionLimit
    <2>1. totalBytes \in Int
      BY Zenon DEF IInv, TypeOK
    <2>2. CASE InFlight = {}
      BY <2>2, Zenon DEF AdmissionOK
    <2>3. CASE InFlight # {}
      <3>1. PICK p \in InFlight :
               totalBytes + call[p].size + Cardinality(InFlight \ {p}) * MaxBlock <= AdmissionLimit
        BY <2>3, Zenon DEF AdmissionOK
      <3>2. call[p].size \in Nat
        BY ProcsFacts, Zenon DEF InFlight, IInv, TypeOK, Call
      <3>0. IsFiniteSet(InFlight \ {p})
        BY InFlightFacts, Zenon
      <3>3. Cardinality(InFlight \ {p}) \in Nat
        BY <3>0, FS_CardinalityType, Zenon
      <3>4. Cardinality(InFlight \ {p}) * MaxBlock \in Nat
        BY <3>3, LimitFacts
      <3> QED
        BY <2>1, <3>1, <3>2, <3>4, LimitFacts
    <2> QED
      BY <2>2, <2>3, Zenon
  <1> QED
    BY <1>1, AdmissionStays, Inductive, PTL
-----------------------------------------------------------------------------
(***************************************************************************)
(* The idle sweep.                                                         *)
(***************************************************************************)
\* What a step may do to an entry: nothing, remove it, publish it anew, or read it.
Touch(k) ==
  \/ m'[k] = m[k]
  \/ m'[k] = NoEntry
  \/ /\ m'[k].written = now /\ m'[k].accessed = 0
     /\ m'[k].created = now \/ m'[k].created = m[k].created
  \/ m'[k] = [m[k] EXCEPT !.accessed = now]

LEMMA PublishTouches ==
  ASSUME TypeOK, NEW p \in Procs, NEW j \in Keys, NEW size, NEW version, Publish(p, j, size, version)
  PROVE  \A k \in Keys : Touch(k)
  BY Zenon DEF Publish, Touch, TypeOK, Entry

LEMMA UnpublishTouches ==
  ASSUME TypeOK, NEW p \in Procs, NEW j \in Keys, NEW op, NEW label, Unpublish(p, op, j, label)
  PROVE  \A k \in Keys : Touch(k)
  BY Zenon DEF Unpublish, Touch, TypeOK, Entry

LEMMA StepTouches ==
  ASSUME TypeOK, [Next]_vars
  PROVE  now' \in {now, now + 1} /\ \A k \in Keys : Touch(k)
  <1>0. \A p \in Procs : call[p].key \in Keys
    BY Zenon DEF TypeOK, Call
  <1>1. ASSUME NEW p \in Workers, NEW k \in Keys, NEW size \in Sizes, Write(p, k, size)
        PROVE  m' = m /\ now' = now
    BY <1>1, Zenon DEF Write
  <1>2. ASSUME NEW p \in Workers, NEW j \in Keys, NEW size \in Sizes,
               NEW version \in ReplicaVersions, Replicate(p, j, size, version)
        PROVE  now' = now /\ \A k \in Keys : Touch(k)
    <2>1. Publish(p, j, size, version) /\ p \in Procs
      BY <1>2, ProcsFacts, Zenon DEF Replicate, PutWithVersion
    <2>2. now' = now
      BY <2>1, Zenon DEF Publish
    <2> QED
      BY <2>1, <2>2, PublishTouches, Zenon
  <1>3. ASSUME NEW p \in Workers, NEW j \in Keys, Evict(p, j)
        PROVE  now' = now /\ \A k \in Keys : Touch(k)
    <2>1. Unpublish(p, "delete", j, "policy") /\ p \in Procs
      BY <1>3, ProcsFacts, Zenon DEF Evict, Delete
    <2>2. now' = now
      BY <2>1, Zenon DEF Unpublish
    <2> QED
      BY <2>1, <2>2, UnpublishTouches, Zenon
  <1>4. ASSUME NEW p \in Workers, NEW j \in Keys, Fetch(p, j)
        PROVE  now' = now /\ \A k \in Keys : Touch(k)
    <2>1. m' = [m EXCEPT ![j].accessed = now] /\ now' = now
      BY <1>4, Zenon DEF Fetch, Get
    <2>2. \A k \in Keys : m'[k] = IF k = j THEN [m[k] EXCEPT !.accessed = now] ELSE m[k]
      BY <2>1, Zenon DEF TypeOK
    <2> QED
      BY <2>1, <2>2, Zenon DEF Touch
  <1>5. ASSUME NEW p \in Workers, Continue(p)
        PROVE  now' = now /\ \A k \in Keys : Touch(k)
    <2>1. CASE Put(p)
      <3>1. Publish(p, call[p].key, call[p].size, m[call[p].key].version + 1) /\ p \in Procs
        BY <2>1, ProcsFacts, Zenon DEF Put
      <3>2. now' = now /\ call[p].key \in Keys
        BY <1>0, <3>1, Zenon DEF Publish
      <3> QED
        BY <3>1, <3>2, PublishTouches, Zenon
    <2>2. CASE ~Put(p)
      <3>1. m' = m /\ now' = now
        BY <1>5, <2>2, Zenon DEF Continue, TellPolicy, AddBytes, signalEvict, SendSignal, RecordRead
      <3> QED
        BY <3>1, Zenon DEF Touch
    <2> QED
      BY <2>1, <2>2, Zenon
  <1>6. ASSUME EvictorNext, ~EvictStep
        PROVE  m' = m /\ now' = now
    BY <1>6, Zenon DEF EvictorNext, ReceiveSignal, CheckPressure, PickVictim, StartSweep, CollectStripe, SweepNext
  <1>7. ASSUME EvictStep
        PROVE  now' = now /\ \A k \in Keys : Touch(k)
    <2>1. CASE evict(Evictor) /\ Resident(call[Evictor].key)
      <3>1. Unpublish(Evictor, call[Evictor].op, call[Evictor].key, "add")
        BY <2>1, Zenon DEF evict
      <3>2. now' = now /\ Evictor \in Procs /\ call[Evictor].key \in Keys
        BY <1>0, <3>1, ProcsFacts, Zenon DEF Unpublish
      <3> QED
        BY <3>1, <3>2, UnpublishTouches, Zenon
    <2>2. CASE ~(evict(Evictor) /\ Resident(call[Evictor].key))
      <3>1. m' = m /\ now' = now
        BY <1>7, <2>2, Zenon DEF EvictStep, evict, AddBytes, TellPolicy
      <3> QED
        BY <3>1, Zenon DEF Touch
    <2> QED
      BY <2>1, <2>2, Zenon
  <1>8. CASE Tick
    BY <1>8, Zenon DEF Tick, Touch
  <1>9. CASE UNCHANGED vars
    BY <1>9, Zenon DEF vars, Touch
  <1> QED
    BY <1>1, <1>2, <1>3, <1>4, <1>5, <1>6, <1>7, <1>8, <1>9, Zenon DEF Next, Touch

\* Every touch is at the current time, so no step makes an entry look older.
LEMMA TouchFacts ==
  ASSUME TypeOK, TypeOK', TimesOK, NEW k \in Keys, Touch(k), now' \in {now, now + 1}
  PROVE  /\ m'[k].created <= m'[k].written /\ m'[k].written <= now' /\ m'[k].accessed <= now'
         /\ Resident(k)' => LastTouch(k)' >= now \/ (Resident(k) /\ LastTouch(k)' >= LastTouch(k))
         /\ LastTouch(k) \in Nat /\ LastTouch(k)' \in Nat
  <1>1. /\ m[k] \in Entry /\ m'[k] \in Entry /\ now \in Nat
        /\ m[k].created <= m[k].written /\ m[k].written <= now /\ m[k].accessed <= now
    BY Zenon DEF TypeOK, TimesOK
  <1>2. CASE m'[k] = m[k]
    BY <1>1, <1>2 DEF Entry, LastTouch, Resident
  <1>3. CASE m'[k] = NoEntry
    BY <1>1, <1>3 DEF Entry, NoEntry, LastTouch, Resident
  <1>4. CASE /\ m'[k].written = now /\ m'[k].accessed = 0
             /\ m'[k].created = now \/ m'[k].created = m[k].created
    BY <1>1, <1>4 DEF Entry, LastTouch, Resident
  <1>5. CASE m'[k] = [m[k] EXCEPT !.accessed = now]
    BY <1>1, <1>5 DEF Entry, LastTouch, Resident
  <1> QED
    BY <1>2, <1>3, <1>4, <1>5, Zenon DEF Touch

\* An idle entry was last touched no later than it went idle.
LEMMA IdleSinceBound ==
  ASSUME TypeOK, TimesOK, NEW k \in Keys
  PROVE  IdleSince(k) \in Nat /\ LastTouch(k) \in Nat /\ IdleSince(k) <= LastTouch(k)
  BY DEF TypeOK, TimesOK, Entry, IdleSince, LastTouch

EvictorRests == call'[Evictor] = call[Evictor] /\ UNCHANGED sweepVars
EvictsOnSweep ==
  /\ call[Evictor].op = "sweep" /\ UNCHANGED sweepVars
  /\ call'[Evictor].at # "collect" /\ call'[Evictor].at # "evict"
  /\ call[Evictor].at = "evict" => m'[call[Evictor].key].version = 0

LEMMA EvictorKinds ==
  ASSUME TypeOK, LabelsOK, [Next]_vars
  PROVE  EvictorRests \/ ~Sweeping' \/ StartSweep \/ CollectStripe \/ SweepNext \/ EvictsOnSweep
  <1> USE ProcsFacts
  <1>0. call \in [Procs -> Call]
    BY Zenon DEF TypeOK
  <1>1. ASSUME NEW p \in Workers, NEW k \in Keys, NEW size \in Sizes, Write(p, k, size)
        PROVE  EvictorRests
    BY <1>0, <1>1, Zenon DEF Write, Enter, EvictorRests
  <1>2. ASSUME NEW p \in Workers, NEW k \in Keys, NEW size \in Sizes,
               NEW version \in ReplicaVersions, Replicate(p, k, size, version)
        PROVE  EvictorRests
    BY <1>0, <1>2, Zenon DEF Replicate, PutWithVersion, Publish, Enter, EvictorRests
  <1>3. ASSUME NEW p \in Workers, NEW k \in Keys, Evict(p, k) \/ Fetch(p, k)
        PROVE  EvictorRests
    BY <1>0, <1>3, Zenon DEF Evict, Delete, Unpublish, Fetch, Get, Enter, EvictorRests
  <1>4. ASSUME NEW p \in Workers, Continue(p)
        PROVE  EvictorRests
    BY <1>0, <1>4, Zenon
    DEF Continue, Put, Publish, TellPolicy, AddBytes, signalEvict, SendSignal, RecordRead,
        Enter, Goto, Leave, EvictorRests
  <1>5. CASE ReceiveSignal \/ CheckPressure \/ PickVictim
    BY <1>0, <1>5 DEF ReceiveSignal, CheckPressure, PickVictim, Enter, Leave, At, Sweeping
  <1>6. CASE EvictStep
    <2>1. call[Evictor].op \in {"drain", "sweep"} /\ call[Evictor].key \in Keys
      BY <1>0, <1>6, Zenon DEF EvictStep, evict, AddBytes, TellPolicy, LabelsOK, Call
    <2>2. CASE call[Evictor].op = "drain"
      <3>1. CASE evict(Evictor)
        BY <1>0, <2>2, <3>1 DEF evict, Unpublish, Enter, Leave, Return, At, Sweeping
      <3>2. CASE AddBytes(Evictor)
        <4>1. Goto(Evictor, "policy")
          BY <2>2, <3>2, Zenon DEF AddBytes
        <4>2. call'[Evictor].at = "policy" /\ call'[Evictor].op = "drain"
          BY <1>0, <2>2, <4>1 DEF Goto
        <4> QED
          BY <4>2, Zenon DEF Sweeping
      <3>3. CASE TellPolicy(Evictor)
        BY <1>0, <2>2, <3>3 DEF TellPolicy, Leave, Return, At, Sweeping
      <3> QED
        BY <1>6, <3>1, <3>2, <3>3, Zenon DEF EvictStep
    <2>3. CASE call[Evictor].op = "sweep"
      <3>0. UNCHANGED sweepVars
        BY <1>6, Zenon DEF EvictStep
      <3>1. CASE evict(Evictor) /\ Resident(call[Evictor].key)
        <4>1. m' = [m EXCEPT ![call[Evictor].key] = NoEntry] /\ call'[Evictor].at = "add"
          BY <1>0, <3>1 DEF evict, Unpublish, Enter
        <4>2. m'[call[Evictor].key].version = 0
          BY <2>1, <4>1, Zenon DEF NoEntry, TypeOK
        <4> QED
          BY <2>3, <3>0, <4>1, <4>2, Zenon DEF EvictsOnSweep
      <3>2. CASE evict(Evictor) /\ ~Resident(call[Evictor].key)
        <4>1. m' = m /\ call'[Evictor].at = "sweeping"
          BY <1>0, <2>3, <3>2 DEF evict, Leave, Return, At
        <4> QED
          BY <2>3, <3>0, <3>2, <4>1, Zenon DEF EvictsOnSweep, Resident
      <3>3. CASE AddBytes(Evictor)
        <4>1. Goto(Evictor, "policy") /\ call[Evictor].at = "add"
          BY <2>3, <3>3, Zenon DEF AddBytes
        <4>2. call'[Evictor].at = "policy"
          BY <1>0, <4>1 DEF Goto
        <4> QED
          BY <2>3, <3>0, <4>1, <4>2, Zenon DEF EvictsOnSweep
      <3>4. CASE TellPolicy(Evictor)
        <4>1. Leave(Evictor, "sweeping") /\ call[Evictor].at = "policy"
          BY <2>3, <3>4, Zenon DEF TellPolicy, Return
        <4>2. call'[Evictor].at = "sweeping"
          BY <1>0, <4>1, Zenon DEF Leave, At
        <4> QED
          BY <2>3, <3>0, <4>1, <4>2, Zenon DEF EvictsOnSweep
      <3> QED
        BY <1>6, <3>1, <3>2, <3>3, <3>4, Zenon DEF EvictStep
    <2> QED
      BY <2>1, <2>2, <2>3, Zenon
  <1>7. CASE Tick \/ UNCHANGED vars
    BY <1>7, Zenon DEF Tick, vars, sweepVars, EvictorRests
  <1> QED
    BY <1>1, <1>2, <1>3, <1>4, <1>5, <1>6, <1>7, Zenon DEF Next, EvictorNext

LEMMA StepSweep ==
  ASSUME TypeOK, TypeOK', LabelsOK, SweepOK, [Next]_vars
  PROVE  SweepOK'
  <1> USE ProcsFacts
  <1>1. now' \in {now, now + 1} /\ \A k \in Keys : Touch(k)
    BY StepTouches, Zenon
  <1>2. TimesOK
    BY Zenon DEF SweepOK
  <1>3. TimesOK'
    BY <1>1, <1>2, TouchFacts, Zenon DEF TimesOK
  <1>4. \A k \in Keys :
          /\ LastTouch(k) \in Nat /\ LastTouch(k)' \in Nat
          /\ Resident(k)' =>
               LastTouch(k)' >= now \/ (Resident(k) /\ LastTouch(k)' >= LastTouch(k))
    BY <1>1, <1>2, TouchFacts, Zenon
  <1>5. now \in Nat /\ now' \in Nat /\ cutoff \in Int /\ cutoff' \in Int /\ scan \in Nat
    BY Zenon DEF TypeOK
  <1>6. NumStripes \in Nat /\ \A k \in Keys : StripeOf[k] \in 1..NumStripes
    BY StoreAssumption, Zenon
  <1>7. SUFFICES ASSUME Sweeping'
                 PROVE  /\ cutoff' <= now'
                        /\ call'[Evictor].at # "collect" => scan' > NumStripes
                        /\ \A k \in Keys :
                             Resident(k)' /\ StripeOf[k] < scan' =>
                               k \in victims' \/ BeingEvicted(k)' \/ LastTouch(k)' >= cutoff'
    BY <1>3, Zenon DEF SweepOK
  <1>8. CASE EvictorRests
    <2>1. Sweeping /\ \A k \in Keys : BeingEvicted(k)' <=> BeingEvicted(k)
      BY <1>7, <1>8, Zenon DEF EvictorRests, Sweeping, BeingEvicted
    <2>2. cutoff' = cutoff /\ scan' = scan /\ victims' = victims /\ call'[Evictor] = call[Evictor]
      BY <1>8, Zenon DEF EvictorRests, sweepVars
    <2>3. cutoff <= now /\ (call[Evictor].at # "collect" => scan > NumStripes)
      BY <2>1, Zenon DEF SweepOK
    <2>4. \A k \in Keys : Resident(k) /\ StripeOf[k] < scan =>
            k \in victims \/ BeingEvicted(k) \/ LastTouch(k) >= cutoff
      BY <2>1, Zenon DEF SweepOK
    <2>5. cutoff' <= now' /\ (call'[Evictor].at # "collect" => scan' > NumStripes)
      BY <1>1, <1>5, <2>2, <2>3
    <2>6. ASSUME NEW k \in Keys, Resident(k)', StripeOf[k] < scan'
          PROVE  k \in victims' \/ BeingEvicted(k)' \/ LastTouch(k)' >= cutoff'
      BY <1>4, <1>5, <2>1, <2>2, <2>3, <2>4, <2>6
    <2> QED
      BY <2>5, <2>6, Zenon
  <1>9. CASE StartSweep
    <2>1. TTL > 0
      BY <1>7, <1>9, Zenon DEF StartSweep, Sweeping, LabelsOK
    <2>2. cutoff' = now - TTL /\ scan' = 1 /\ call'[Evictor].at = "collect"
      BY <1>9, <2>1 DEF StartSweep, Leave, At, TypeOK
    <2> QED
      BY <1>1, <1>5, <1>6, <2>2, ShardAssumption
  <1>10. CASE CollectStripe
    <2>1. /\ call[Evictor].at = "collect" /\ cutoff' = cutoff /\ scan' = scan + 1
          /\ m' = m /\ now' = now /\ Sweeping
          /\ victims' = victims \cup {k \in Keys : StripeOf[k] = scan /\ Resident(k) /\ IdleSince(k) < cutoff}
          /\ call'[Evictor].at = IF scan = NumStripes THEN "sweeping" ELSE "collect"
      BY <1>10, Zenon DEF CollectStripe, Leave, At, TypeOK, Sweeping
    <2>2. cutoff <= now
      BY <2>1, Zenon DEF SweepOK
    <2>3. ASSUME NEW k \in Keys, Resident(k)', StripeOf[k] < scan'
          PROVE  k \in victims' \/ LastTouch(k)' >= cutoff'
      <3>1. Resident(k) /\ LastTouch(k)' = LastTouch(k)
        BY <2>1, <2>3, Zenon DEF Resident, LastTouch
      <3>2. CASE StripeOf[k] = scan
        BY <1>2, <1>5, <2>1, <3>1, <3>2, IdleSinceBound
      <3>3. CASE StripeOf[k] < scan
        BY <2>1, <3>1, <3>3, Zenon DEF SweepOK, BeingEvicted
      <3>4. StripeOf[k] = scan \/ StripeOf[k] < scan
        <4>1. StripeOf[k] \in Int /\ scan \in Int /\ StripeOf[k] < scan + 1
          BY <1>5, <1>6, <2>1, <2>3
        <4> QED
          BY <4>1
      <3> QED
        BY <3>2, <3>3, <3>4, Zenon
    <2> QED
      BY <1>5, <1>6, <2>1, <2>2, <2>3
  <1>11. CASE SweepNext
    <2>1. /\ call[Evictor].at = "sweeping" /\ Sweeping
          /\ cutoff' = cutoff /\ scan' = scan /\ m' = m /\ now' = now
      BY <1>11, Zenon DEF SweepNext, Sweeping
    <2>2. victims # {}
      BY <1>7, <1>11 DEF SweepNext, Leave, At, TypeOK, Sweeping
    <2>3. PICK j \in victims : /\ Enter(Evictor, "evict", "sweep", j, 0, 0)
                               /\ victims' = victims \ {j}
      BY <1>11, <2>2, Zenon DEF SweepNext
    <2>4. call'[Evictor].at = "evict" /\ call'[Evictor].key = j
      BY <2>3, Zenon DEF Enter, TypeOK
    <2>5. ASSUME NEW k \in Keys, Resident(k)', StripeOf[k] < scan'
          PROVE  k \in victims' \/ BeingEvicted(k)' \/ LastTouch(k)' >= cutoff'
      <3>1. Resident(k) /\ LastTouch(k)' = LastTouch(k)
        BY <2>1, <2>5, Zenon DEF Resident, LastTouch
      <3>2. k \in victims \/ LastTouch(k) >= cutoff
        BY <2>1, <2>5, <3>1, Zenon DEF SweepOK, BeingEvicted
      <3> QED
        BY <2>1, <2>3, <2>4, <3>1, <3>2, Zenon DEF BeingEvicted
    <2> QED
      BY <2>1, <2>5, Zenon DEF SweepOK
  <1>12. CASE EvictsOnSweep
    <2>1. /\ Sweeping /\ cutoff' = cutoff /\ scan' = scan /\ victims' = victims
          /\ call'[Evictor].at # "collect" /\ call[Evictor].at # "collect"
      BY <1>12, Zenon DEF EvictsOnSweep, Sweeping, sweepVars, LabelsOK
    <2>2. cutoff <= now /\ scan > NumStripes
      BY <2>1, Zenon DEF SweepOK
    <2>3. ASSUME NEW k \in Keys, Resident(k)', StripeOf[k] < scan'
          PROVE  k \in victims' \/ LastTouch(k)' >= cutoff'
      <3>1. ~BeingEvicted(k)
        BY <1>12, <2>3, Zenon DEF EvictsOnSweep, BeingEvicted, Resident
      <3>2. Resident(k) => k \in victims \/ LastTouch(k) >= cutoff
        BY <2>1, <2>3, <3>1, Zenon DEF SweepOK
      <3> QED
        BY <1>4, <1>5, <2>1, <2>2, <2>3, <3>2
    <2>4. cutoff' <= now'
      BY <1>1, <1>5, <2>1, <2>2
    <2> QED
      BY <2>1, <2>2, <2>3, <2>4, Zenon
  <1> QED
    BY <1>7, <1>8, <1>9, <1>10, <1>11, <1>12, EvictorKinds, Zenon

\* A finished sweep has left no entry behind that was neither written nor read since
\* its cutoff, whatever ran between and during its two passes.
THEOREM SweepLeavesNoIdle == Spec => []IdleDoesNotSurvive
  <1>1. Init => SweepOK
    <2> SUFFICES ASSUME Init PROVE SweepOK
      BY Zenon
    <2>1. ~Sweeping
      BY InitCalls, Zenon DEF Sweeping
    <2>2. TimesOK
      BY DEF Init, StoreInit, NoEntry, TimesOK
    <2> QED
      BY <2>1, <2>2, Zenon DEF SweepOK
  <1>2. IInv /\ SweepOK /\ [Next]_vars => SweepOK'
    <2> SUFFICES ASSUME IInv, SweepOK, [Next]_vars PROVE SweepOK'
      BY Zenon
    <2>1. TypeOK /\ LabelsOK /\ TypeOK'
      BY StepIInv, Zenon DEF IInv
    <2> QED
      BY <2>1, StepSweep, Zenon
  <1>3. IInv /\ SweepOK => IdleDoesNotSurvive
    <2> SUFFICES ASSUME IInv, SweepOK, call[Evictor].at = "sweeping", victims = {},
                        NEW k \in Keys, Resident(k)
                 PROVE  LastTouch(k) >= cutoff
      BY Zenon DEF IdleDoesNotSurvive
    <2>1. StripeOf[k] < scan
      BY StoreAssumption DEF SweepOK, Sweeping, IInv, TypeOK
    <2> QED
      BY <2>1, Zenon DEF SweepOK, Sweeping, BeingEvicted
  <1> QED
    BY <1>1, <1>2, <1>3, Inductive, PTL DEF Spec
=============================================================================
