----------------------------- MODULE Maintenance -----------------------------
(***************************************************************************)
(* The daily maintenance batch: a cycle prepares it on a branch of its own *)
(* and validates it, the owner approves or rejects it (table               *)
(* maintenance_change_batches and the base branch of the repository).      *)
(*                                                                         *)
(* Whether a batch is due is read before minutes of tests, and its row is  *)
(* inserted after them; a review reads the row, merges the branch and      *)
(* updates the row in three steps that anything may come between.          *)
(***************************************************************************)
EXTENDS RuntimeLease, Sequences

CONSTANTS
    MaxDay,    \* bound: midnights
    MaxBatches \* bound: batches ever prepared

ASSUME MaintenanceBounds == MaxDay \in Nat /\ MaxBatches \in Nat

VARIABLES
    today,   \* the local calendar day
    day,     \* the local day of each running cycle's cycle_started_at
    builder, \* what the cycle of a worker does about maintenance
    batches  \* the rows: day of creation, status with approval_outcome, and
             \* whether an approval has merged the branch and not yet ended

maintaining == <<today, day, builder, batches>>

\* status and approval_outcome together: validated and pending, retained and
\* failed_validation, retained and not_approved, merged and approved
BatchStatuses == {"pending", "failed_validation", "not_approved", "approved"}

\* Faulty variants: never used by the specification.
FaultyDue(d) ==
    \A k \in DOMAIN batches : batches[k].day = d => batches[k].status = "not_approved"

\* is_daily_maintenance_due, for the local day of the cycle
Due(d) == \A k \in DOMAIN batches : batches[k].day # d

-----------------------------------------------------------------------------
ChooseMaintenance(w) == builder' = [builder EXCEPT ![w] = "chosen"]

\* run_daily_maintenance_cycle: worktree, branch, commit, validations
Build(w) ==
    /\ pc[w] = "acting" /\ builder[w] = "chosen" /\ Due(day[w])
    /\ builder' = [builder EXCEPT ![w] = "building"]
    /\ UNCHANGED <<today, day, batches>>

\* Another batch of the day has appeared: the prerequisites fail.
NotDue(w) ==
    /\ pc[w] = "acting" /\ builder[w] = "chosen" /\ ~Due(day[w])
    /\ builder' = [builder EXCEPT ![w] = "idle"]
    /\ UNCHANGED <<today, day, batches>>

\* The artifacts are written and the row is inserted.
InsertBatch(w, passed) ==
    /\ pc[w] = "acting" /\ builder[w] = "building" /\ Len(batches) < MaxBatches
    /\ batches' = Append(batches,
         [day |-> day[w], approving |-> FALSE,
          status |-> IF passed THEN "pending" ELSE "failed_validation"])
    /\ builder' = [builder EXCEPT ![w] = "idle"]
    /\ UNCHANGED <<today, day>>

-----------------------------------------------------------------------------
\* The row of batch k with another status.
Marked(k, status, approving) ==
    [batches EXCEPT ![k] = [day |-> batches[k].day, status |-> status,
                            approving |-> approving]]

\* review_maintenance_change_batch, reject: whatever the row says
RejectBatch(k) ==
    /\ batches[k].status # "not_approved"
    /\ batches' = Marked(k, "not_approved", batches[k].approving)
    /\ UNCHANGED <<today, day, builder>>

\* ... approve: git merges a validated batch that waits; merging it again
\* changes nothing
MergeBatch(k) ==
    /\ batches[k].status = "pending" /\ ~batches[k].approving
    /\ batches' = Marked(k, "pending", TRUE)
    /\ UNCHANGED <<today, day, builder>>

\* ... and then the row is updated, unless the command was killed
EndApproval(k, killed) ==
    /\ batches[k].approving
    /\ batches' = Marked(k, IF killed THEN batches[k].status ELSE "approved", FALSE)
    /\ UNCHANGED <<today, day, builder>>

Review ==
    \E k \in DOMAIN batches :
        RejectBatch(k) \/ MergeBatch(k) \/ \E killed \in BOOLEAN : EndApproval(k, killed)

Midnight ==
    /\ today < MaxDay /\ today' = today + 1
    /\ UNCHANGED <<day, builder, batches>>

-----------------------------------------------------------------------------
\* A new installation, or one where every batch so far was rejected.
MaintenanceInit ==
    /\ today \in 0 .. MaxDay
    /\ day = [w \in Workers |-> 0]
    /\ builder = [w \in Workers |-> "idle"]
    /\ batches \in {<<>>, [k \in 1 .. today + 1 |->
                             [day |-> k - 1, status |-> "not_approved", approving |-> FALSE]]}

MaintenanceStep(w) ==
    Build(w) \/ NotDue(w) \/ \E passed \in BOOLEAN : InsertBatch(w, passed)

Batches == [day : 0 .. MaxDay, status : BatchStatuses, approving : BOOLEAN]

MaintenanceTypeOK ==
    /\ today \in 0 .. MaxDay
    /\ day \in [Workers -> 0 .. MaxDay]
    /\ builder \in [Workers -> {"idle", "chosen", "building"}]
    /\ batches \in Seq(Batches)

=============================================================================
