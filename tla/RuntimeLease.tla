---------------------------- MODULE RuntimeLease ----------------------------
(***************************************************************************)
(* The runtime lease that keeps supervisor cycles apart (table             *)
(* agent_runtime_leases, row "supervisor_cycle") and the cycles that take, *)
(* hold and lose it.                                                       *)
(*                                                                         *)
(* A cycle captures cycle_started_at once, opens its supervisor_cycles     *)
(* row, and passes that captured time to acquire_runtime_lease as "now":   *)
(* both the test whether the current lease has expired and the new         *)
(* expires_at are computed from it, however late the transaction runs (the *)
(* host may sleep in between).  The lease is never renewed while the cycle *)
(* works, and nothing but its owner's release or a later cycle's reclaim   *)
(* removes it.                                                             *)
(*                                                                         *)
(* Time is relative: left is expires_at minus the present, age[w] the      *)
(* present minus the cycle_started_at of w.                                *)
(***************************************************************************)
EXTENDS Integers

CONSTANTS
    Workers,   \* processes that run cycles: the launchd job, a manual one
    Scheduled, \* those that launchd starts again and again
    None,      \* no lease row
    Dead,      \* the owner of a lease whose cycle runs no more
    Ttl,       \* lease_ttl_seconds
    MaxLag,    \* bound: most time between the captured start and the acquisition
    MaxCrashes \* bound: cycles that are killed or fail without releasing

ASSUME TtlAssumption == Ttl \in Nat \ {0}
ASSUME LagAssumption == MaxLag \in Nat
ASSUME CrashAssumption == MaxCrashes \in Nat
ASSUME WorkersAssumption == Scheduled \subseteq Workers
ASSUME OwnerAssumption == None \notin Workers /\ Dead \notin Workers /\ None # Dead

VARIABLES
    owner,   \* lease_owner_id: the cycle that holds the row, None without a row
    left,    \* expires_at - now of the row, 0 without one; kept at -MaxLag below
    pc,      \* what the process of a cycle does
    age,     \* now - cycle_started_at of the cycle that runs, above Ttl it
             \* matters no more
    latest,  \* history: the last process that was granted the lease
    crashes  \* cycles killed so far

vars == <<owner, left, pc, age, latest, crashes>>

Steps == {"idle", "started", "gate", "acting", "releasing"}

(* The cycle does autonomous work: it was granted the lease.               *)
Holding(w) == pc[w] \in {"gate", "acting", "releasing"}

(***************************************************************************)
(* Faulty variants: never used by the specification.                       *)
(***************************************************************************)
FaultyExpired(w) == left <= 1 - age[w]
FaultyWithoutOwner(w) == None
FaultyReclaimable(w) == FALSE

(***************************************************************************)
(* acquire_runtime_lease computes with now = cycle_started_at of w.        *)
(***************************************************************************)
\* _lease_is_expired: expires_at <= cycle_started_at
Expired(w) == left <= -age[w]

\* the lease found in the row may be taken over
Reclaimable(w) == owner # None /\ Expired(w)

\* expires_at = cycle_started_at + ttl, seen from the present
Remaining(w) == IF Ttl - age[w] < -MaxLag THEN -MaxLag ELSE Ttl - age[w]

\* DELETE ... WHERE lease_owner_id = ?: the row goes only when w owns it
WithoutOwner(w) == IF owner = w THEN None ELSE owner

-----------------------------------------------------------------------------
Init ==
    /\ owner = None
    /\ left = 0
    /\ pc = [w \in Workers |-> "idle"]
    /\ age = [w \in Workers |-> 0]
    /\ latest = None
    /\ crashes = 0

(* start_supervisor_cycle: a new row, at the time captured.                *)
Start(w) ==
    /\ pc[w] = "idle"
    /\ pc' = [pc EXCEPT ![w] = "started"]
    /\ UNCHANGED <<owner, left, age, latest, crashes>>

(* The cycle of w is over.                                                 *)
Ended(w) ==
    /\ pc' = [pc EXCEPT ![w] = "idle"]
    /\ age' = [age EXCEPT ![w] = 0]

Grant(w) ==
    /\ owner' = w
    /\ left' = Remaining(w)
    /\ latest' = w
    /\ pc' = [pc EXCEPT ![w] = "gate"]
    /\ UNCHANGED <<age, crashes>>

(* acquire_runtime_lease (BEGIN IMMEDIATE): acquired, reclaimed, deferred. *)
Acquire(w) == pc[w] = "started" /\ owner = None /\ Grant(w)

Reclaim(w) == pc[w] = "started" /\ Reclaimable(w) /\ Grant(w)

Defer(w) ==
    /\ pc[w] = "started"
    /\ owner # None
    /\ ~Reclaimable(w)
    /\ Ended(w)
    /\ UNCHANGED <<owner, left, latest, crashes>>

(* The housekeeping and the control state come before the try block.       *)
PassGate(w) ==
    /\ pc[w] = "gate"
    /\ pc' = [pc EXCEPT ![w] = "acting"]
    /\ UNCHANGED <<owner, left, age, latest, crashes>>

(* The end of the try block, by finish_supervisor_cycle or an exception:   *)
(* the finally block releases the lease.                                   *)
Finish(w) ==
    /\ pc[w] = "acting"
    /\ pc' = [pc EXCEPT ![w] = "releasing"]
    /\ UNCHANGED <<owner, left, age, latest, crashes>>

(* release_runtime_lease.                                                  *)
Release(w) ==
    /\ pc[w] = "releasing"
    /\ owner' = WithoutOwner(w)
    /\ left' = IF owner' = None THEN 0 ELSE left
    /\ Ended(w)
    /\ UNCHANGED <<latest, crashes>>

(* The process is killed (launchctl kickstart -k, a crash, power loss), or *)
(* it raises before the try block: nothing releases what it holds.         *)
Die(w) ==
    /\ pc[w] # "idle"
    /\ crashes < MaxCrashes
    /\ crashes' = crashes + 1
    /\ owner' = IF owner = w THEN Dead ELSE owner
    /\ Ended(w)
    /\ UNCHANGED <<left, latest>>

(* Time passes; a cycle between its start and its acquisition lags by      *)
(* MaxLag at most.                                                         *)
Tick ==
    /\ \A w \in Workers : pc[w] = "started" => age[w] < MaxLag
    /\ left' = IF owner # None /\ left > -MaxLag THEN left - 1 ELSE left
    /\ age' = [w \in Workers |->
                 IF pc[w] = "started" \/ (pc[w] # "idle" /\ age[w] < Ttl)
                 THEN age[w] + 1 ELSE age[w]]
    /\ UNCHANGED <<owner, pc, latest, crashes>>

Work(w) ==
    \/ Acquire(w) \/ Reclaim(w) \/ Defer(w)
    \/ PassGate(w) \/ Finish(w) \/ Release(w)

Next == Tick \/ \E w \in Workers : Start(w) \/ Work(w) \/ Die(w)

Spec == Init /\ [][Next]_vars

(* Time passes, a process that runs makes progress, and launchd starts a   *)
(* cycle whenever its own has ended; a manual cycle need never start.      *)
Fairness ==
    /\ WF_vars(Tick)
    /\ \A w \in Workers : WF_vars(Work(w))
    /\ \A w \in Scheduled : WF_vars(Start(w))

FairSpec == Spec /\ Fairness

-----------------------------------------------------------------------------
(* Type invariant of the lease row and of the processes of the cycles.     *)
TypeOK ==
    /\ owner \in Workers \cup {None, Dead}
    /\ left \in -MaxLag .. Ttl
    /\ pc \in [Workers -> Steps]
    /\ age \in [Workers -> 0 .. (Ttl + MaxLag)]
    /\ latest \in Workers \cup {None}
    /\ crashes \in 0 .. MaxCrashes

(* FR-OPS-13: two cycles are at work together only when the one granted    *)
(* the lease earlier has been running for the whole time to live: a lease  *)
(* still valid is never taken over, not by a cycle that captured its start *)
(* time long before, and not after a third one released.                   *)
ExclusiveWithinTtl ==
    \A v, w \in Workers :
        v # w /\ Holding(v) /\ Holding(w) => age[v] >= Ttl \/ age[w] >= Ttl

(* The cycle granted the lease last still owns the row while it works: the *)
(* late release of a cycle it took over from does not remove it            *)
(* (release_runtime_lease).                                                *)
LatestHolderOwnsLease == latest # None /\ Holding(latest) => owner = latest

(* The row never promises more than the time to live counted from the      *)
(* start of its owner, so that a lease left behind blocks later cycles for *)
(* no longer than that (acquire_runtime_lease).                            *)
LeaseEndsWithTtl ==
    owner \in Workers => left <= IF age[owner] >= Ttl THEN 0 ELSE Ttl - age[owner]

(* FR-OPS-14: a lease whose cycle died is reclaimed by a later heartbeat,  *)
(* with nobody's help.                                                     *)
DeadLeaseRecovered == (owner = Dead) ~> (owner # Dead)
=============================================================================
