-------------------------- MODULE SupervisorCycles --------------------------
(***************************************************************************)
(* The cycles of RuntimeLease with work that no transaction protects: what *)
(* a cycle chooses when no posting needs it (general-learning outreach,    *)
(* then the search for an address, then the daily maintenance), and what   *)
(* two cycles do to it when the lease ran out under one of them.           *)
(*                                                                         *)
(* Implements RuntimeLease: its variables change by its actions only.      *)
(***************************************************************************)
EXTENDS GeneralLearning, Maintenance

VARIABLE overlapped \* history: a cycle was granted the lease while another worked

lease == vars
all == <<lease, learning, maintaining, overlapped>>

CyclesInit == Init /\ LearningInit /\ MaintenanceInit /\ overlapped = FALSE

\* Nothing of the chosen work is left to do.
Unoccupied(w) == writer[w].step = "idle" /\ builder[w] = "idle"

\* The heartbeat captures its time, and with it the local day.
StartCycle(w) ==
    /\ Start(w)
    /\ day' = [day EXCEPT ![w] = today]
    /\ UNCHANGED <<learning, today, builder, batches, overlapped>>

TakeLease(w) ==
    /\ Acquire(w) \/ Reclaim(w)
    /\ overlapped' = (overlapped \/ \E v \in Workers : Holding(v))
    /\ UNCHANGED <<learning, maintaining>>

\* _select_supervisor_work_unit, the branches after the postings; any of the
\* work before them is an empty choice here
Choose(w) ==
    \/ UNCHANGED <<learning, maintaining>>
    \/ /\ \E c \in ToWrite : ChooseToWrite(w, c)
       /\ UNCHANGED <<person, mails, spent, resting, received, unknown, maintaining>>
    \/ /\ ToWrite = {}
       /\ \E c \in ToSearch : ChooseToSearch(w, c)
       /\ UNCHANGED <<person, mails, spent, resting, received, unknown, maintaining>>
    \/ /\ ToWrite = {} /\ ToSearch = {} /\ Due(day[w])
       /\ ChooseMaintenance(w)
       /\ UNCHANGED <<learning, today, day, batches>>

SelectWork(w) == PassGate(w) /\ Choose(w) /\ UNCHANGED overlapped

FinishCycle(w) ==
    /\ Finish(w) /\ Unoccupied(w)
    /\ UNCHANGED <<learning, maintaining, overlapped>>

\* An exception or a death: the work in hand is forgotten.
Forgotten(w) ==
    /\ Abandon(w)
    /\ builder' = [builder EXCEPT ![w] = "idle"]
    /\ UNCHANGED <<today, batches, overlapped>>

RaiseInCycle(w) == Finish(w) /\ Forgotten(w) /\ UNCHANGED day

DayOver(w) == day' = [day EXCEPT ![w] = 0]

DieInCycle(w) == Die(w) /\ Forgotten(w) /\ DayOver(w)

EndCycle(w) ==
    /\ Defer(w) \/ Release(w)
    /\ DayOver(w)
    /\ UNCHANGED <<learning, today, builder, batches, overlapped>>

WorkOn(w) ==
    /\ \/ LearningStep(w) /\ UNCHANGED maintaining
       \/ MaintenanceStep(w) /\ UNCHANGED learning
    /\ UNCHANGED <<lease, overlapped>>

\* What the process of a running cycle does next.
CycleStep(w) ==
    \/ TakeLease(w) \/ SelectWork(w) \/ WorkOn(w)
    \/ FinishCycle(w) \/ RaiseInCycle(w) \/ EndCycle(w)

TimePasses == Tick /\ UNCHANGED <<learning, maintaining, overlapped>>

\* The owner, the calendar and the providers.
Outside ==
    /\ \/ (Review \/ Midnight) /\ UNCHANGED learning
       \/ CooldownEnds /\ UNCHANGED maintaining
    /\ UNCHANGED <<lease, overlapped>>

CyclesNext ==
    \/ \E w \in Workers : StartCycle(w) \/ CycleStep(w) \/ DieInCycle(w)
    \/ TimePasses
    \/ Outside

CyclesSpec == CyclesInit /\ [][CyclesNext]_all

\* The fairness of RuntimeLease: whatever its work, a cycle comes to its end.
FairCycles == CyclesSpec /\ Fairness

-----------------------------------------------------------------------------
\* The types of the composition, for proofs; no run lists it.
CyclesTypeOK == TypeOK /\ LearningTypeOK /\ MaintenanceTypeOK

\* A local day has two maintenance batches only when a cycle outlived its
\* lease: the check before the tests and the row after them are kept together
\* by nothing else (run_daily_maintenance_cycle).
OneBatchADay ==
    ~overlapped =>
        \A j, k \in DOMAIN batches : j # k => batches[j].day # batches[k].day

\* A contact is written to once, whatever raised or died where, but for the
\* acceptances that no row tells of and for cycles that outlived their lease
\* (execute_general_learning_outreach, _evaluate_general_learning_send_guardrails).
LearnersMailedOnce ==
    ~overlapped => \A c \in Learners : received[c] <= 1 + unknown[c]

=============================================================================
