------------------------- MODULE RuntimeLeaseProofs -------------------------
(***************************************************************************)
(* Proofs about RuntimeLease, for every set of workers, time to live and   *)
(* bound: the type invariant, and the exclusion that the lease grants.     *)
(***************************************************************************)
EXTENDS RuntimeLease, TLAPS

(* A row that is owned belongs to a cycle that works, one that works for   *)
(* less than the time to live owns the row, and the row then runs out      *)
(* exactly when its time to live does.                                     *)
LeaseInv ==
    /\ \A w \in Workers : owner = w => Holding(w)
    /\ \A w \in Workers :
          Holding(w) /\ age[w] < Ttl => owner = w /\ left = Ttl - age[w]

(***************************************************************************)
(* TypeOK: every variable of the lease keeps its type, whatever the lag    *)
(* between the start of a cycle and its acquisition.                       *)
(***************************************************************************)
LEMMA TypeInit == Init => TypeOK
  BY TtlAssumption, LagAssumption, CrashAssumption DEF Init, TypeOK, Steps

LEMMA TypeStep == TypeOK /\ [Next]_vars => TypeOK'
<1> SUFFICES ASSUME TypeOK, [Next]_vars PROVE TypeOK'
    OBVIOUS
<1> USE TtlAssumption, LagAssumption, CrashAssumption DEF TypeOK, Steps
<1>1. CASE Tick
    BY <1>1 DEF Tick
<1>2. ASSUME NEW w \in Workers, Start(w) PROVE TypeOK'
    BY <1>2 DEF Start
<1>3. ASSUME NEW w \in Workers, Acquire(w) \/ Reclaim(w) PROVE TypeOK'
  <2>1. Grant(w)
      BY <1>3 DEF Acquire, Reclaim
  <2>2. Remaining(w) \in -MaxLag .. Ttl
      BY DEF Remaining
  <2> QED
      BY <2>1, <2>2 DEF Grant
<1>4. ASSUME NEW w \in Workers, Defer(w) PROVE TypeOK'
    BY <1>4 DEF Defer, Ended
<1>5. ASSUME NEW w \in Workers, PassGate(w) \/ Finish(w)
      PROVE  TypeOK'
    BY <1>5 DEF PassGate, Finish
<1>6. ASSUME NEW w \in Workers, Release(w) PROVE TypeOK'
    BY <1>6 DEF Release, WithoutOwner, Ended
<1>7. ASSUME NEW w \in Workers, Die(w) PROVE TypeOK'
    BY <1>7 DEF Die, Ended
<1>8. CASE UNCHANGED vars
    BY <1>8 DEF vars
<1> QED
    BY <1>1, <1>2, <1>3, <1>4, <1>5, <1>6, <1>7, <1>8 DEF Next, Work

(* TypeOK for every time to live, lag and set of workers.                  *)
THEOREM TypeCorrect == Spec => []TypeOK
<1> QED
    BY TypeInit, TypeStep, PTL DEF Spec

(***************************************************************************)
(* LeaseInv is inductive.                                                  *)
(***************************************************************************)
LEMMA LeaseInit == Init => LeaseInv
  BY OwnerAssumption DEF Init, LeaseInv, Holding

LEMMA LeaseStep == TypeOK /\ LeaseInv /\ [Next]_vars => LeaseInv'
<1> SUFFICES ASSUME TypeOK, LeaseInv, [Next]_vars PROVE LeaseInv'
    OBVIOUS
<1> USE TtlAssumption, LagAssumption, OwnerAssumption
    DEF TypeOK, Steps, LeaseInv, Holding
<1>1. CASE Tick
    BY <1>1 DEF Tick
<1>2. ASSUME NEW w \in Workers, Start(w) PROVE LeaseInv'
    BY <1>2 DEF Start
<1>3. ASSUME NEW w \in Workers, Acquire(w) \/ Reclaim(w) PROVE LeaseInv'
  <2>1. Grant(w)
      BY <1>3 DEF Acquire, Reclaim
  <2>2. \A v \in Workers : Holding(v) => age[v] >= Ttl
      BY <1>3 DEF Acquire, Reclaim, Reclaimable, Expired
  <2>3. age[w] < Ttl => Remaining(w) = Ttl - age[w]
      BY DEF Remaining
  <2> QED
      BY <2>1, <2>2, <2>3 DEF Grant
<1>4. ASSUME NEW w \in Workers, Defer(w) PROVE LeaseInv'
    BY <1>4 DEF Defer, Ended
<1>5. ASSUME NEW w \in Workers, PassGate(w) \/ Finish(w)
      PROVE  LeaseInv'
    BY <1>5 DEF PassGate, Finish
<1>6. ASSUME NEW w \in Workers, Release(w) PROVE LeaseInv'
    BY <1>6 DEF Release, WithoutOwner, Ended
<1>7. ASSUME NEW w \in Workers, Die(w) PROVE LeaseInv'
    BY <1>7 DEF Die, Ended
<1>8. CASE UNCHANGED vars
    BY <1>8 DEF vars
<1> QED
    BY <1>1, <1>2, <1>3, <1>4, <1>5, <1>6, <1>7, <1>8 DEF Next, Work

(***************************************************************************)
(* ExclusiveWithinTtl (FR-OPS-13): two cycles work together only when one  *)
(* of them has outlived the time to live of its lease.                     *)
(***************************************************************************)
THEOREM Exclusion == Spec => []ExclusiveWithinTtl
<1>1. TypeOK /\ LeaseInv => ExclusiveWithinTtl
    BY TtlAssumption DEF LeaseInv, ExclusiveWithinTtl, TypeOK
<1> QED
    BY TypeInit, TypeStep, LeaseInit, LeaseStep, <1>1, PTL DEF Spec

(***************************************************************************)
(* LatestHolderOwnsLease: nothing but the cycle granted the lease last, or *)
(* its death, removes it: a late release of an earlier owner does not.     *)
(***************************************************************************)
LEMMA LatestStep ==
    TypeOK /\ LatestHolderOwnsLease /\ [Next]_vars => LatestHolderOwnsLease'
<1> SUFFICES ASSUME TypeOK, LatestHolderOwnsLease, [Next]_vars
             PROVE  LatestHolderOwnsLease'
    OBVIOUS
<1> USE OwnerAssumption DEF TypeOK, Steps, LatestHolderOwnsLease, Holding
<1>1. CASE Tick
    BY <1>1 DEF Tick
<1>2. ASSUME NEW w \in Workers, Start(w) PROVE LatestHolderOwnsLease'
    BY <1>2 DEF Start
<1>3. ASSUME NEW w \in Workers, Acquire(w) \/ Reclaim(w)
      PROVE  LatestHolderOwnsLease'
    BY <1>3 DEF Acquire, Reclaim, Grant
<1>4. ASSUME NEW w \in Workers, Defer(w) PROVE LatestHolderOwnsLease'
    BY <1>4 DEF Defer, Ended
<1>5. ASSUME NEW w \in Workers, PassGate(w) \/ Finish(w)
      PROVE  LatestHolderOwnsLease'
    BY <1>5 DEF PassGate, Finish
<1>6. ASSUME NEW w \in Workers, Release(w) PROVE LatestHolderOwnsLease'
    BY <1>6 DEF Release, WithoutOwner, Ended
<1>7. ASSUME NEW w \in Workers, Die(w) PROVE LatestHolderOwnsLease'
    BY <1>7 DEF Die, Ended
<1>8. CASE UNCHANGED vars
    BY <1>8 DEF vars
<1> QED
    BY <1>1, <1>2, <1>3, <1>4, <1>5, <1>6, <1>7, <1>8 DEF Next, Work

(* LatestHolderOwnsLease: a late release never takes the row from its      *)
(* successor.                                                              *)
THEOREM ReleaseIsOwnersOnly == Spec => []LatestHolderOwnsLease
<1>1. Init => LatestHolderOwnsLease
    BY OwnerAssumption DEF Init, LatestHolderOwnsLease
<1> QED
    BY TypeInit, TypeStep, LatestStep, <1>1, PTL DEF Spec

(***************************************************************************)
(* LeaseEndsWithTtl: the row is never valid for longer than the time to    *)
(* live counted from the start of its owner.                               *)
(***************************************************************************)
LEMMA EndsStep ==
    TypeOK /\ LeaseInv /\ LeaseEndsWithTtl /\ [Next]_vars => LeaseEndsWithTtl'
<1> SUFFICES ASSUME TypeOK, LeaseInv, LeaseEndsWithTtl, [Next]_vars
             PROVE  LeaseEndsWithTtl'
    OBVIOUS
<1> USE TtlAssumption, LagAssumption, OwnerAssumption
    DEF TypeOK, Steps, LeaseInv, Holding, LeaseEndsWithTtl
<1>1. CASE Tick
    BY <1>1 DEF Tick
<1>2. ASSUME NEW w \in Workers, Start(w) PROVE LeaseEndsWithTtl'
    BY <1>2 DEF Start
<1>3. ASSUME NEW w \in Workers, Acquire(w) \/ Reclaim(w) PROVE LeaseEndsWithTtl'
    BY <1>3 DEF Acquire, Reclaim, Grant, Remaining
<1>4. ASSUME NEW w \in Workers, Defer(w) PROVE LeaseEndsWithTtl'
    BY <1>4 DEF Defer, Ended
<1>5. ASSUME NEW w \in Workers, PassGate(w) \/ Finish(w)
      PROVE  LeaseEndsWithTtl'
    BY <1>5 DEF PassGate, Finish
<1>6. ASSUME NEW w \in Workers, Release(w) PROVE LeaseEndsWithTtl'
    BY <1>6 DEF Release, WithoutOwner, Ended
<1>7. ASSUME NEW w \in Workers, Die(w) PROVE LeaseEndsWithTtl'
    BY <1>7 DEF Die, Ended
<1>8. CASE UNCHANGED vars
    BY <1>8 DEF vars
<1> QED
    BY <1>1, <1>2, <1>3, <1>4, <1>5, <1>6, <1>7, <1>8 DEF Next, Work

(* LeaseEndsWithTtl: no lease outlasts its owner's time to live.           *)
THEOREM LeaseIsBounded == Spec => []LeaseEndsWithTtl
<1>1. Init => LeaseEndsWithTtl
    BY OwnerAssumption DEF Init, LeaseEndsWithTtl
<1> QED
    BY TypeInit, TypeStep, LeaseInit, LeaseStep, EndsStep, <1>1, PTL DEF Spec
=============================================================================
