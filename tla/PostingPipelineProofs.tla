----------------------- MODULE PostingPipelineProofs -----------------------
(***************************************************************************)
(* Proofs about PostingPipeline, for any number of runs and interruptions. *)
(*                                                                         *)
(* The argument: while a cycle executes, the run it works on is open or    *)
(* was completed by the operator, never escalated or failed (WorkInv), so  *)
(* no transition the table allows revives a run, and only a bootstrap,     *)
(* which looks for open runs in its own transaction, opens one             *)
(* (StepEffect).  PacketInv and SendInv carry the reviews and the sends.   *)
(***************************************************************************)
EXTENDS PostingPipeline, FiniteSetTheorems, TLAPS

(* Steps between the validation of the selected work and its last          *)
(* transaction.                                                            *)
Inner == {"finalize", "boundary", "handoff", "search", "discover", "draft", "send",
          "wave", "conclude", "advance"}

RowType == [status : RunStatuses, stage : Stages]

TailoringType ==
    [status : {"none", "in_progress", "tailored", "needs_revision", "failed"},
     review : {"not_ready", "resume_review_pending", "approved", "rejected"}]

WorkInv ==
    /\ work.run # 0 <=> work.action \in StageActions
    /\ pc \in Inner \cup {"escalate", "mark"} => work.run # 0
    /\ pc \in Inner \cup {"execute"} /\ work.run # 0 =>
           runs[work.run].status \in OpenStatuses \cup {"completed"}

(* What one step may do to the runs of the posting.                        *)
StepEffect ==
    \/ \A r \in Slots :
           \/ runs'[r].status = runs[r].status
           \/ runs[r].status \in OpenStatuses
           \/ runs[r].status = "escalated" /\ runs'[r].status = "completed"
    \/ /\ OpenRuns = {}
       /\ \E r \in Slots : /\ runs[r].status = "none"
                           /\ \A q \in Slots \ {r} : runs'[q] = runs[q]

Kept == TypeOK' /\ WorkInv' /\ StepEffect

(***************************************************************************)
(* The shared steps of a cycle.                                            *)
(***************************************************************************)
(* The numbers of runs are positive, so that 0 stands for no run.          *)
LEMMA SlotsFacts == Slots \subseteq Nat /\ 0 \notin Slots
  BY RunsAssumption DEF Slots

(* An incident of the posting gets another status.                         *)
LEMMA IncidentTypesKept ==
  ASSUME TypeOK, NEW i \in IncidentTypes, NEW v \in {"none", "open", "escalated"},
         incidents' = [incidents EXCEPT ![i] = v]
  PROVE  incidents' \in [IncidentTypes -> {"none", "open", "escalated"}]
  BY DEF TypeOK

(* An exception ends the cycle and leaves the rows as they are.            *)
LEMMA RaiseKeeps == ASSUME TypeOK, WorkInv, Raise PROVE Kept
<1> USE DEF Raise, EndCycle, NoWork, NoRow, posts, tailors, reviews
<1>1. TypeOK'
  <2>1. "none" \in RunStatuses \cap Stages \cap Actions
      BY DEF RunStatuses, Stages, Actions
  <2>2. work' \in [action : Actions, run : Slots \cup {0}, stage : Stages]
      BY <2>1
  <2>3. held' \in [status : RunStatuses, stage : Stages]
      BY <2>1
  <2>4. UNCHANGED <<posting, jdLinked, tailoring, approvedBefore, runs, packets, incidents, sent, op, interruptions>>
      OBVIOUS
  <2>5. pc' \in Steps /\ result' = "none" /\ overridden' = FALSE
      BY DEF Steps
  <2> QED
      BY <2>2, <2>3, <2>4, <2>5 DEF TypeOK
<1>2. WorkInv'
    BY DEF WorkInv, StageActions, OutreachStages, Inner
<1>3. StepEffect
    BY DEF StepEffect
<1> QED
    BY <1>1, <1>2, <1>3 DEF Kept

(* A move of the selected run that the transition table allows: the run was *)
(* open or completed, so nothing terminal is revived.                      *)
LEMMA OutcomeKeeps ==
  ASSUME TypeOK, WorkInv, NEW to \in PostingStatuses, NEW row \in RowType,
         pc \in Inner \cup {"execute"}, work.run # 0, Outcome(to, row)
  PROVE  Kept
<1>1. CASE Raise
    BY <1>1, RaiseKeeps
<1>2. CASE ~Raise
  <2>1. work.run \in Slots /\ runs[work.run] \in [status : RunStatuses, stage : Stages,
                           packet : {"not_ready", "pending_expert_review", "reviewed"}]
      BY DEF TypeOK
  <2>2. /\ MayBecome(runs[work.run].status, row.status)
        /\ posting' = to /\ held' = row /\ pc' = "check"
        /\ runs' = WithRun(work.run, row.status, row.stage)
        /\ UNCHANGED <<jdLinked, tailors, reviews, sent, work, result, aside>>
      BY <1>2 DEF Outcome
  <2>3. row.status \in RunStatuses /\ row.stage \in Stages
      BY DEF RowType
  <2>4. TypeOK'
      BY <2>1, <2>2, <2>3 DEF TypeOK, WithRun, tailors, reviews, aside, Steps, RowType
  <2>5. WorkInv'
      BY <2>2 DEF WorkInv, Inner, reviews
  <2>6. StepEffect
      BY <2>1, <2>2, <2>3 DEF StepEffect, WorkInv, MayBecome, WithRun, OpenStatuses, TypeOK
  <2> QED
      BY <2>4, <2>5, <2>6 DEF Kept
<1> QED
    BY <1>1, <1>2

(* A step inside an executor that leaves the runs alone.                   *)
LEMMA MoveKeeps ==
  ASSUME TypeOK, WorkInv, pc \in Inner \cup {"execute"}, work.run # 0,
         pc' \in Inner, posting' \in PostingStatuses, sent' \in BOOLEAN,
         tailoring' \in TailoringType, approvedBefore' \in BOOLEAN, held' \in RowType,
         incidents' \in [IncidentTypes -> {"none", "open", "escalated"}],
         UNCHANGED <<jdLinked, runs, packets, work, result, aside>>
  PROVE  Kept
  BY DEF Kept, TypeOK, WorkInv, StepEffect, aside, Steps, Inner, RowType, TailoringType

(* A status of the posting written ahead of the run's.                     *)
LEMMA PostingFirstKeeps ==
  ASSUME TypeOK, WorkInv, NEW to \in PostingStatuses, NEW row \in RowType,
         pc \in Inner \cup {"execute"}, work.run # 0, PostingFirst(to, row)
  PROVE  Kept
  BY MoveKeeps DEF PostingFirst, TypeOK, tailors, reviews, Inner, TailoringType

(* A result remembered for a later move of the run.                        *)
LEMMA LaterKeeps ==
  ASSUME TypeOK, WorkInv, NEW row \in RowType,
         pc \in Inner \cup {"execute"}, work.run # 0, Later(row)
  PROVE  Kept
  BY MoveKeeps DEF Later, TypeOK, posts, tailors, reviews, Inner, TailoringType

(* A step inside an executor that only goes on to the next one.            *)
LEMMA GoToKeeps ==
  ASSUME TypeOK, WorkInv, NEW step \in Inner,
         pc \in Inner \cup {"execute"}, work.run # 0, GoTo(step),
         posting' \in PostingStatuses, sent' \in BOOLEAN, tailoring' \in TailoringType,
         approvedBefore' \in BOOLEAN, UNCHANGED <<jdLinked, runs, reviews, aside>>
  PROVE  Kept
  BY MoveKeeps DEF GoTo, TypeOK, reviews, RowType

(* Every row an executor concludes with is one.                            *)
LEMMA RowTypes ==
  /\ \A s \in RunStatuses, g \in Stages : Row(s, g) \in RowType
  /\ {"in_progress", "paused", "escalated", "completed", "failed"} \subseteq RunStatuses
  /\ {"lead_handoff", "resume_tailoring", "agent_review", "people_search", "email_discovery",
      "sending", "delivery_feedback", "completed", "hard_ineligible"} \subseteq Stages
  /\ AfterSent \in RowType
  BY DEF Row, RowType, AfterSent, RunStatuses, OpenStatuses, ReviewWorthy, Stages, OutreachStages

(* Every status the code writes into a posting is one.                     *)
LEMMA PostingTypes ==
  /\ Downstream \cup Abandonable \cup SendingStatuses
       \cup {"hard_ineligible", "completed"} \subseteq PostingStatuses
  /\ {"requires_contacts", "ready_for_outreach", "outreach_in_progress", "tailoring_in_progress",
      "resume_review_pending"} \subseteq PostingStatuses
  BY DEF PostingStatuses, Downstream, Abandonable, SendingStatuses

(***************************************************************************)
(* The cycle, up to its selection.                                         *)
(***************************************************************************)
(* Quarantine and selection: stale runs fail, open runs are selected.      *)
LEMMA SelectKeeps ==
  ASSUME TypeOK, WorkInv,
         Begin \/ RetireStale \/ Suppress \/ SelectIncident \/ SelectRun \/ SelectPosting
           \/ NothingHere
  PROVE  Kept
<1> USE SlotsFacts
<1>1. CASE Begin
    BY <1>1 DEF Begin, ReturnStatus, GoTo, Kept, TypeOK, WorkInv, StepEffect, tailors, reviews,
                aside, Steps, Inner, PostingStatuses, Abandonable
<1>2. CASE RetireStale
  <2>1. PICK r \in OpenRuns : runs' = WithRun(r, "failed", "resume_tailoring")
      BY <1>2 DEF RetireStale
  <2>2. r \in Slots /\ runs[r].status \in OpenStatuses
      BY DEF OpenRuns
  <2>3. runs' \in [Slots -> [status : RunStatuses, stage : Stages,
                             packet : {"not_ready", "pending_expert_review", "reviewed"}]]
      BY <2>1, <2>2 DEF WithRun, TypeOK, RunStatuses, ReviewWorthy, Stages
  <2>4. pc = "retire"
        /\ UNCHANGED <<posts, tailors, reviews, sent, cycle, aside>>
      BY <1>2 DEF RetireStale
  <2>5. TypeOK'
      BY <2>3, <2>4 DEF TypeOK, posts, tailors, reviews, cycle, aside
  <2>6. WorkInv'
      BY <2>4 DEF WorkInv, Inner, cycle
  <2>7. StepEffect
      BY <2>1, <2>2 DEF StepEffect, WithRun, TypeOK
  <2> QED
      BY <2>5, <2>6, <2>7 DEF Kept
<1>3. CASE Suppress
  <2>1. incidents' \in [IncidentTypes -> {"none", "open", "escalated"}]
      BY <1>3, IncidentTypesKept DEF Suppress, IncidentTypes
  <2>2. /\ pc' = "select"
        /\ UNCHANGED <<posts, tailors, runs, packets, sent, work, held, result, aside>>
      BY <1>3 DEF Suppress, GoTo
  <2> QED
      BY <2>1, <2>2 DEF Kept, TypeOK, WorkInv, StepEffect, posts, tailors, aside, Steps, Inner
<1>4. ASSUME NEW selected \in [action : Actions, run : Slots \cup {0}, stage : Stages],
             selected.run # 0 <=> selected.action \in StageActions,
             Pick(selected)
      PROVE  Kept
    BY <1>4 DEF Pick, Kept, TypeOK, WorkInv, StepEffect, posts, tailors, reviews, aside, Steps,
                Inner
<1>5. CASE SelectIncident
  <2> DEFINE selected == [NoWork EXCEPT !.action = "escalate_incident"]
  <2>1. /\ selected \in [action : Actions, run : Slots \cup {0}, stage : Stages]
        /\ selected.run = 0 /\ selected.action \notin StageActions
      BY DEF NoWork, Actions, Stages, StageActions, OutreachStages
  <2>2. Pick(selected)
      BY <1>5 DEF SelectIncident
  <2> QED
      BY <2>1, <2>2, <1>4
<1>6. CASE SelectRun
  <2>0. PICK r \in OpenRuns : \E a \in ActionsAt(runs[r].stage) :
               Pick([action |-> a, run |-> r, stage |-> runs[r].stage])
      BY <1>6 DEF SelectRun
  <2>1. PICK a \in ActionsAt(runs[r].stage) :
               Pick([action |-> a, run |-> r, stage |-> runs[r].stage])
      BY <2>0
  <2>2. r \in Slots /\ r # 0 /\ runs[r].stage \in Stages
      BY DEF OpenRuns, TypeOK
  <2>3. a \in StageActions /\ a \in Actions
      BY DEF ActionsAt, StageActions, OutreachStages, Actions
  <2> QED
      BY <2>1, <2>2, <2>3, <1>4
<1>7. CASE SelectPosting
  <2>1. PICK s \in BootstrapStages : Pick([action |-> "bootstrap", run |-> 0, stage |-> s])
      BY <1>7 DEF SelectPosting
  <2>2. s \in Stages
      BY DEF BootstrapStages, OrphanStages, Stages, OutreachStages
  <2>3. "bootstrap" \in Actions /\ "bootstrap" \notin StageActions
      BY DEF Actions, StageActions, OutreachStages
  <2> QED
      BY <2>1, <2>2, <2>3, <1>4
<1>8. CASE NothingHere
    BY <1>8, RaiseKeeps DEF NothingHere
<1> QED
    BY <1>1, <1>2, <1>3, <1>5, <1>6, <1>7, <1>8

(***************************************************************************)
(* Validation of the selected work and of the result, and the end.         *)
(***************************************************************************)
(* Validation, result, escalation and packet: open runs are escalated.     *)
LEMMA JudgeKeeps ==
  ASSUME TypeOK, WorkInv,
         ValidationPasses \/ ValidationFails \/ Accept \/ Reject \/ EscalateRun
           \/ InsertPacket \/ NoPacketDue \/ MarkRun \/ Finish
  PROVE  Kept
<1> USE SlotsFacts
<1>1. CASE ValidationPasses
  <2>1. /\ work.run # 0 => runs[work.run].status \in OpenStatuses
        /\ pc' = "execute"
        /\ UNCHANGED <<posts, tailors, runs, reviews, sent, aside, work, held, result>>
      BY <1>1 DEF ValidationPasses, Valid, Actionable, GoTo, WorkInv, StageActions, OutreachStages
  <2> QED
      BY <2>1 DEF Kept, TypeOK, WorkInv, StepEffect, posts, tailors, reviews, aside, Steps, Inner
<1>2. CASE ValidationFails \/ Reject
  <2>1. /\ pc' \in {"check", "escalate", "finish"}
        /\ pc' = "escalate" => work.run # 0
        /\ result' \in {"blocked", "failed"}
        /\ UNCHANGED <<posts, tailors, runs, packets, sent, work, held, aside>>
      BY <1>2 DEF ValidationFails, Reject, Blame
  <2>2. incidents' \in [IncidentTypes -> {"none", "open", "escalated"}]
      BY <1>2, IncidentTypesKept DEF ValidationFails, Reject, Blame, IncidentTypes
  <2> QED
      BY <2>1, <2>2 DEF Kept, TypeOK, WorkInv, StepEffect, posts, tailors, aside, Steps, Inner
<1>3. CASE Accept \/ NoPacketDue
    BY <1>3 DEF Accept, NoPacketDue, AfterPacket, GoTo, Kept, TypeOK, WorkInv, StepEffect, posts,
                tailors, reviews, aside, Steps, Inner
<1>4. CASE EscalateRun
  <2>1. work.run \in Slots /\ pc' = "packet"
        /\ UNCHANGED <<posts, tailors, reviews, sent, work, result, aside>>
      BY <1>4 DEF EscalateRun, WorkInv, TypeOK
  <2>2. runs[work.run] \in [status : RunStatuses, stage : Stages,
                            packet : {"not_ready", "pending_expert_review", "reviewed"}]
      BY <2>1 DEF TypeOK
  <2>3. \/ /\ runs[work.run].status \in OpenStatuses
           /\ runs' = WithRun(work.run, "escalated", runs[work.run].stage)
           /\ held' = Row("escalated", runs[work.run].stage)
        \/ /\ runs' = runs
           /\ held' = Row(runs[work.run].status, runs[work.run].stage)
      BY <1>4 DEF EscalateRun, OpenRuns
  <2>4. held' \in [status : RunStatuses, stage : Stages]
      BY <2>2, <2>3 DEF Row, RunStatuses, ReviewWorthy
  <2>5. runs' \in [Slots -> [status : RunStatuses, stage : Stages,
                             packet : {"not_ready", "pending_expert_review", "reviewed"}]]
      BY <2>1, <2>2, <2>3 DEF WithRun, TypeOK, RunStatuses, ReviewWorthy
  <2>6. TypeOK'
      BY <2>1, <2>4, <2>5 DEF TypeOK, posts, tailors, reviews, aside, Steps
  <2>7. WorkInv'
      BY <2>1 DEF WorkInv, Inner
  <2>8. StepEffect
      BY <2>1, <2>2, <2>3 DEF StepEffect, WithRun, TypeOK
  <2> QED
      BY <2>6, <2>7, <2>8 DEF Kept
<1>5. CASE InsertPacket
    BY <1>5 DEF InsertPacket, Inserted, GoTo, Kept, TypeOK, WorkInv, StepEffect, posts, tailors,
                aside, Steps, Inner, PacketStatuses
<1>6. CASE MarkRun
  <2>1. CASE Raise
      BY <2>1, RaiseKeeps
  <2>2. CASE ~Raise
    <3>1. /\ work.run \in Slots /\ pc = "mark" /\ pc' \in {"check", "finish"}
          /\ runs' = [runs EXCEPT ![work.run].packet = "pending_expert_review"]
          /\ UNCHANGED <<posts, tailors, reviews, sent, aside, work, held, result>>
        BY <1>6, <2>2 DEF MarkRun, GoTo, AfterPacket, WorkInv, TypeOK
    <3> QED
        BY <3>1 DEF Kept, TypeOK, WorkInv, StepEffect, posts, tailors, reviews, aside, Steps, Inner
  <2> QED
      BY <2>1, <2>2
<1>7. CASE Finish
    BY <1>7, RaiseKeeps DEF Finish
<1> QED
    BY <1>1, <1>2, <1>3, <1>4, <1>5, <1>6, <1>7

(***************************************************************************)
(* The executors.                                                          *)
(***************************************************************************)
(* The run of an action that is executed is the selected one.              *)
LEMMA ExecutorHasRun ==
  ASSUME WorkInv, NEW a \in StageActions, Executing(a)
  PROVE  pc \in Inner \cup {"execute"} /\ work.run # 0
  BY DEF WorkInv, Executing

(* A bootstrap opens a run only when it finds none open.                   *)
LEMMA BootstrapKeeps ==
  ASSUME TypeOK, WorkInv, EscalateIncident \/ Bootstrap \/ OutOfRuns PROVE Kept
<1> USE SlotsFacts
<1>1. CASE EscalateIncident
  <2>1. incidents' \in [IncidentTypes -> {"none", "open", "escalated"}]
      BY <1>1, IncidentTypesKept DEF EscalateIncident
  <2>2. /\ pc' = "check"
        /\ UNCHANGED <<posts, tailors, runs, packets, sent, work, held, result, aside>>
      BY <1>1 DEF EscalateIncident, GoTo
  <2> QED
      BY <2>1, <2>2 DEF Kept, TypeOK, WorkInv, StepEffect, posts, tailors, aside, Steps, Inner
<1>2. CASE Bootstrap
  <2>1. /\ pc' = "check"
        /\ UNCHANGED <<posts, tailors, reviews, sent, work, result, aside>>
        /\ work.stage \in Stages
      BY <1>2 DEF Bootstrap, TypeOK
  <2>2. CASE \E r \in OpenRuns : held' = Row(runs[r].status, runs[r].stage) /\ runs' = runs
    <3>1. held' \in [status : RunStatuses, stage : Stages]
        BY <2>2 DEF OpenRuns, Row, TypeOK
    <3> QED
        BY <2>1, <2>2, <3>1 DEF Kept, TypeOK, WorkInv, StepEffect, posts, tailors, reviews, aside,
                                Steps, Inner
  <2>3. CASE ~\E r \in OpenRuns : held' = Row(runs[r].status, runs[r].stage) /\ runs' = runs
    <3>1. OpenRuns = {} /\ held' = Row("in_progress", work.stage)
        BY <1>2, <2>3 DEF Bootstrap
    <3>2. PICK r \in Slots : /\ runs[r].status = "none"
                             /\ runs' = WithRun(r, "in_progress", work.stage)
        BY <1>2, <2>3 DEF Bootstrap
    <3>3. "in_progress" \in RunStatuses
        BY DEF RunStatuses, OpenStatuses
    <3>4. held' \in [status : RunStatuses, stage : Stages]
        BY <2>1, <3>1, <3>3 DEF Row
    <3>5. runs' \in [Slots -> [status : RunStatuses, stage : Stages,
                               packet : {"not_ready", "pending_expert_review", "reviewed"}]]
        BY <2>1, <3>2, <3>3 DEF WithRun, TypeOK
    <3>6. TypeOK'
        BY <2>1, <3>4, <3>5 DEF TypeOK, posts, tailors, reviews, aside, Steps
    <3>7. WorkInv'
        BY <2>1 DEF WorkInv, Inner
    <3>8. StepEffect
        BY <3>1, <3>2 DEF StepEffect, WithRun, TypeOK
    <3> QED
        BY <3>6, <3>7, <3>8 DEF Kept
  <2> QED
      BY <2>2, <2>3
<1>3. CASE OutOfRuns
    BY <1>3, RaiseKeeps DEF OutOfRuns
<1> QED
    BY <1>1, <1>2, <1>3

(* The checkpoint and the tailoring executors.                             *)
LEMMA TailorKeeps ==
  ASSUME TypeOK, WorkInv, Checkpoint \/ Tailor PROVE Kept
<1> USE RowTypes, PostingTypes
<1>1. CASE Checkpoint
  <2>1. pc \in Inner \cup {"execute"} /\ work.run # 0
      BY <1>1, ExecutorHasRun DEF Checkpoint, StageActions
  <2>2. PICK g \in {"agent_review", "resume_tailoring"} :
               Outcome(posting, Row("in_progress", g))
      BY <1>1 DEF Checkpoint
  <2>3. posting \in PostingStatuses
      BY DEF TypeOK
  <2> QED
      BY <2>1, <2>2, <2>3, OutcomeKeeps
<1>2. CASE HardIneligible
    BY <1>2, ExecutorHasRun, PostingFirstKeeps DEF HardIneligible, StageActions
<1>3. CASE TailoringBlocked
  <2>1. pc \in Inner \cup {"execute"} /\ work.run # 0
      BY <1>3, ExecutorHasRun DEF TailoringBlocked, StageActions
  <2>2. PICK row \in RowType : Outcome(posting, row)
      BY <1>3 DEF TailoringBlocked
  <2>3. posting \in PostingStatuses
      BY DEF TypeOK
  <2> QED
      BY <2>1, <2>2, <2>3, OutcomeKeeps
<1>4. CASE StartTailoring
  <2>1. pc \in Inner \cup {"execute"} /\ work.run # 0
      BY <1>4, ExecutorHasRun DEF StartTailoring, StageActions
  <2>2. \/ UNCHANGED <<tailoring, approvedBefore>>
        \/ /\ tailoring' = [status |-> "in_progress", review |-> "not_ready"]
           /\ approvedBefore' = AnyApproved
      BY <1>4 DEF StartTailoring, tailors
  <2>5. tailoring' \in TailoringType
      BY <2>2 DEF TypeOK, TailoringType
  <2>6. approvedBefore' \in BOOLEAN
      BY <2>2, Zenon DEF TypeOK, AnyApproved
  <2>3. posting' \in PostingStatuses
      BY <1>4 DEF StartTailoring, TypeOK
  <2>4. GoTo("finalize") /\ UNCHANGED <<jdLinked, runs, reviews, sent, aside>>
      BY <1>4 DEF StartTailoring
  <2> QED
      BY <2>1, <2>3, <2>4, <2>5, <2>6, GoToKeeps DEF Inner, TypeOK
<1>5. CASE FinalizePasses \/ FinalizeNeedsRevision \/ FinalizeFails
  <2>1. pc \in Inner \cup {"execute"} /\ work.run # 0
      BY <1>5 DEF FinalizePasses, FinalizeNeedsRevision, FinalizeFails, WorkInv, Inner
  <2>2. pc' \in Inner /\ held' \in RowType
      BY <1>5 DEF FinalizePasses, FinalizeNeedsRevision, FinalizeFails, Inner
  <2>3. PICK status \in {"tailored", "needs_revision", "failed"},
             review \in {"not_ready", "resume_review_pending"} : FinalizeWith(status, review)
      BY <1>5 DEF FinalizePasses, FinalizeNeedsRevision, FinalizeFails
  <2>4. tailoring' \in TailoringType
      BY <2>3 DEF FinalizeWith, TailoringType
  <2>5. UNCHANGED <<posts, approvedBefore, runs, reviews, sent, work, result, aside>>
      BY <2>3 DEF FinalizeWith
  <2> QED
      BY <2>1, <2>2, <2>4, <2>5, MoveKeeps DEF posts, reviews, TypeOK
<1>6. CASE ReviewBoundary
  <2>1. pc \in Inner \cup {"execute"} /\ work.run # 0 /\ held \in RowType
      BY <1>6 DEF ReviewBoundary, WorkInv, Inner, TypeOK, RowType
  <2> QED
      BY <1>6, <2>1, PostingFirstKeeps DEF ReviewBoundary
<1> QED
    BY <1>1, <1>2, <1>3, <1>4, <1>5, <1>6 DEF Tailor

(* The review of a tailored resume and its hand-off.                       *)
LEMMA ReviewKeeps ==
  ASSUME TypeOK, WorkInv, Review PROVE Kept
<1> USE RowTypes, PostingTypes
<1>1. CASE Approve
  <2>1. pc \in Inner \cup {"execute"} /\ work.run # 0
      BY <1>1, ExecutorHasRun DEF Approve, StageActions
  <2>2. tailoring' = [tailoring EXCEPT !.review = "approved"]
      BY <1>1 DEF Approve
  <2>3. tailoring' \in TailoringType
      BY <2>2 DEF TypeOK, TailoringType
  <2>4. GoTo("handoff") /\ UNCHANGED <<posts, approvedBefore, runs, reviews, sent, aside>>
      BY <1>1 DEF Approve
  <2> QED
      BY <2>1, <2>3, <2>4, GoToKeeps DEF Inner, TypeOK, posts
<1>2. CASE OutreachHandoff
  <2>1. pc \in Inner \cup {"execute"} /\ work.run # 0
      BY <1>2 DEF OutreachHandoff, WorkInv, Inner
  <2> QED
      BY <1>2, <2>1, PostingFirstKeeps DEF OutreachHandoff
<1> QED
    BY <1>1, <1>2 DEF Review

(* The search and discovery executors.                                     *)
LEMMA DiscoverKeeps ==
  ASSUME TypeOK, WorkInv, Discover PROVE Kept
<1> USE RowTypes, PostingTypes
<1>0. posting \in PostingStatuses /\ sent \in BOOLEAN /\ tailoring \in TailoringType
      /\ approvedBefore \in BOOLEAN /\ {"search", "discover", "advance"} \subseteq Inner
    BY DEF TypeOK, TailoringType, Inner
<1>1. CASE RunawaySearch
  <2>1. pc \in Inner \cup {"execute"} /\ work.run # 0
      BY <1>1, ExecutorHasRun DEF RunawaySearch, StageActions, OutreachStages
  <2>2. incidents' \in [IncidentTypes -> {"none", "open", "escalated"}]
      BY <1>1, IncidentTypesKept DEF RunawaySearch, IncidentTypes
  <2>3. /\ pc' = "advance" /\ held' \in RowType
        /\ UNCHANGED <<posts, tailors, runs, packets, sent, work, result, aside>>
      BY <1>1 DEF RunawaySearch
  <2> QED
      BY <1>0, <2>1, <2>2, <2>3, MoveKeeps DEF posts, tailors
<1>2. CASE StartSearch \/ StartDiscovery
  <2>1. pc \in Inner \cup {"execute"} /\ work.run # 0
      BY <1>2, ExecutorHasRun DEF StartSearch, StartDiscovery, StageActions, OutreachStages
  <2>2. \/ \E row \in RowType : Outcome(posting, row)
        \/ Raise
        \/ \E step \in {"search", "discover"} :
               GoTo(step) /\ UNCHANGED <<posts, tailors, runs, reviews, sent, aside>>
      BY <1>2 DEF StartSearch, StartDiscovery
  <2> QED
      BY <1>0, <2>1, <2>2, OutcomeKeeps, RaiseKeeps, GoToKeeps DEF posts, tailors
<1>3. CASE FinishSearch \/ FinishDiscovery
  <2>1. pc \in Inner \cup {"execute"} /\ work.run # 0
      BY <1>3 DEF FinishSearch, FinishDiscovery, WorkInv, Inner
  <2>2. \/ \E to \in PostingStatuses, row \in RowType : Outcome(to, row)
        \/ \E to \in PostingStatuses, row \in RowType : PostingFirst(to, row)
        \/ Raise
      BY <1>0, <1>3 DEF FinishSearch, FinishDiscovery
  <2> QED
      BY <2>1, <2>2, OutcomeKeeps, RaiseKeeps, PostingFirstKeeps
<1> QED
    BY <1>1, <1>2, <1>3 DEF Discover

(* The sending and feedback executors, and the run's late move.            *)
LEMMA SendOutKeeps ==
  ASSUME TypeOK, WorkInv, SendOut \/ Advance PROVE Kept
<1> USE RowTypes, PostingTypes
<1>0. posting \in PostingStatuses /\ sent \in BOOLEAN /\ tailoring \in TailoringType
      /\ approvedBefore \in BOOLEAN /\ {"draft", "send", "wave", "conclude"} \subseteq Inner
    BY DEF TypeOK, TailoringType, Inner
<1>1. CASE StartSending
  <2>1. pc \in Inner \cup {"execute"} /\ work.run # 0
      BY <1>1, ExecutorHasRun DEF StartSending, StageActions, OutreachStages
  <2>2. \/ \E to \in PostingStatuses, row \in RowType : Outcome(to, row)
        \/ \E to \in PostingStatuses, row \in RowType : PostingFirst(to, row)
        \/ \E step \in {"draft", "send"} :
               GoTo(step) /\ UNCHANGED <<posts, tailors, runs, reviews, sent, aside>>
      BY <1>1 DEF StartSending
  <2> QED
      BY <1>0, <2>1, <2>2, OutcomeKeeps, PostingFirstKeeps, GoToKeeps DEF posts, tailors
<1>2. CASE Draft \/ Send \/ NoSend \/ FinishWave
  <2>1. pc \in Inner \cup {"execute"} /\ work.run # 0
      BY <1>2 DEF Draft, Send, NoSend, FinishWave, WorkInv, Inner
  <2>2. /\ \E step \in {"send", "wave", "conclude"} : GoTo(step)
        /\ posting' \in PostingStatuses /\ sent' \in BOOLEAN
        /\ UNCHANGED <<jdLinked, tailors, runs, reviews, aside>>
      BY <1>0, <1>2 DEF Draft, Send, NoSend, FinishWave, posts
  <2> QED
      BY <1>0, <2>1, <2>2, GoToKeeps DEF tailors
<1>3. CASE ConcludeSending
  <2>1. pc \in Inner \cup {"execute"} /\ work.run # 0
      BY <1>3 DEF ConcludeSending, WorkInv, Inner
  <2>2. Raise \/ \E row \in RowType : Later(row)
      BY <1>3 DEF ConcludeSending
  <2> QED
      BY <2>1, <2>2, RaiseKeeps, LaterKeeps
<1>4. CASE DeliveryFeedback
  <2>1. pc \in Inner \cup {"execute"} /\ work.run # 0
      BY <1>4, ExecutorHasRun DEF DeliveryFeedback, StageActions, OutreachStages
  <2>2. Raise \/ \E row \in RowType : Outcome(posting, row)
      BY <1>4 DEF DeliveryFeedback
  <2> QED
      BY <1>0, <2>1, <2>2, RaiseKeeps, OutcomeKeeps
<1>5. CASE Advance
  <2>1. pc \in Inner \cup {"execute"} /\ work.run # 0 /\ held \in RowType
      BY <1>5 DEF Advance, WorkInv, Inner, TypeOK, RowType
  <2> QED
      BY <1>0, <1>5, <2>1, OutcomeKeeps DEF Advance
<1> QED
    BY <1>1, <1>2, <1>3, <1>4, <1>5 DEF SendOut

(***************************************************************************)
(* The operator and interruptions.                                         *)
(***************************************************************************)
OpType == [step : {"none", "abandon", "retire", "decide", "mark", "complete", "override"},
           runs : SUBSET Slots, to : PostingStatuses \cup {"none"}]

(* A command changes runs only by completing them, or their packet column. *)
LEMMA CommandKeeps ==
  ASSUME TypeOK, WorkInv, UnchangedByOperator, op' \in OpType, posting' \in PostingStatuses,
         tailoring' \in TailoringType, UNCHANGED approvedBefore,
         packets' \in [Slots -> PacketStatuses], overridden' \in BOOLEAN,
         runs' \in [Slots -> [status : RunStatuses, stage : Stages,
                              packet : {"not_ready", "pending_expert_review", "reviewed"}]],
         \A r \in Slots : \/ runs'[r].status = runs[r].status
                          \/ /\ runs[r].status \in OpenStatuses \cup {"escalated"}
                             /\ runs'[r].status = "completed"
  PROVE  Kept
<1> USE DEF UnchangedByOperator, cycle
<1>1. TypeOK'
    BY DEF TypeOK, OpType, TailoringType
<1>2. WorkInv'
    BY SlotsFacts DEF WorkInv, TypeOK
<1>3. StepEffect
    BY DEF StepEffect
<1> QED
    BY <1>1, <1>2, <1>3 DEF Kept

(* What a command finds has its type.                                      *)
LEMMA CommandTypes ==
  ASSUME TypeOK
  PROVE  /\ NoCommand \in OpType
         /\ op \in OpType /\ op.runs \subseteq Slots
         /\ posting \in PostingStatuses /\ tailoring \in TailoringType
         /\ packets \in [Slots -> PacketStatuses] /\ overridden \in BOOLEAN
         /\ runs \in [Slots -> [status : RunStatuses, stage : Stages,
                               packet : {"not_ready", "pending_expert_review", "reviewed"}]]
  BY DEF TypeOK, OpType, NoCommand, TailoringType

(* A run the operator completes was open or escalated.                     *)
LEMMA CompletedRun ==
  ASSUME TypeOK, NEW r \in Slots, NEW g \in Stages, MayBecome(runs[r].status, "completed"),
         runs' = WithRun(r, "completed", g)
  PROVE  /\ runs' \in [Slots -> [status : RunStatuses, stage : Stages,
                             packet : {"not_ready", "pending_expert_review", "reviewed"}]]
         /\ \A q \in Slots : \/ runs'[q].status = runs[q].status
                             \/ /\ runs[q].status \in OpenStatuses \cup {"escalated"}
                                /\ runs'[q].status = "completed"
<1>1. "completed" \in RunStatuses
    BY RowTypes
<1> QED
    BY <1>1 DEF TypeOK, WithRun, MayBecome, OpenStatuses

(* Every step of the three operator commands.                              *)
LEMMA OperateKeeps ==
  ASSUME TypeOK, WorkInv, Operate PROVE Kept
<1> USE CommandTypes
<1>0. UnchangedByOperator /\ UNCHANGED approvedBefore
    BY DEF Operate, ReadAbandon, AbandonPosting, RetireRun, CloseReview, DecideReview, MarkReviewed,
           CompleteReviewed, OverrideReview, ApplyOverride, tailors
<1>1. CASE ReadAbandon
  <2>1. op' \in OpType
      BY <1>1 DEF ReadAbandon, Hold, OpType, OpenRuns
  <2> QED
      BY <1>0, <1>1, <2>1, CommandKeeps DEF ReadAbandon, tailors
<1>2. CASE AbandonPosting
  <2>1. op' \in OpType
      BY <1>2 DEF AbandonPosting, Hold, OpType
  <2> QED
      BY <1>0, <1>2, <2>1, CommandKeeps DEF AbandonPosting, tailors, PostingStatuses
<1>3. CASE RetireRun
  <2>1. /\ UNCHANGED <<posting, tailors, packets, overridden>>
        /\ op.step = "retire"
      BY <1>3 DEF RetireRun
  <2>2. CASE runs' = runs /\ Release
      BY <1>0, <2>1, <2>2, CommandKeeps DEF Release, tailors
  <2>3. CASE ~(runs' = runs /\ Release)
    <3>1. PICK r \in op.runs : /\ MayBecome(runs[r].status, "completed")
                               /\ runs' = WithRun(r, "completed", "abandoned")
                               /\ Hold("retire", op.runs \ {r}, "none")
        BY <1>3, <2>3 DEF RetireRun
    <3>2. op' \in OpType
        BY <3>1 DEF Hold, OpType
    <3>3. "abandoned" \in Stages /\ r \in Slots
        BY DEF Stages
    <3> QED
        BY <1>0, <2>1, <3>1, <3>2, <3>3, CompletedRun, CommandKeeps DEF tailors
  <2> QED
      BY <2>2, <2>3
<1>4. CASE CloseReview
  <2>1. op' \in OpType
      BY <1>4 DEF CloseReview, Hold, OpType
  <2> QED
      BY <1>0, <1>4, <2>1, CommandKeeps DEF CloseReview, tailors, PostingStatuses
<1>5. CASE DecideReview
  <2>1. PICK r \in op.runs :
               /\ packets' = [packets EXCEPT ![r] = "reviewed"]
               /\ \E step \in {"complete", "mark"} : Hold(step, op.runs, "none")
      BY <1>5 DEF DecideReview
  <2>2. op' \in OpType
      BY <2>1 DEF Hold, OpType
  <2>3. packets' \in [Slots -> PacketStatuses]
      BY <2>1 DEF PacketStatuses
  <2> QED
      BY <1>0, <1>5, <2>2, <2>3, CommandKeeps DEF DecideReview, tailors
<1>6. CASE MarkReviewed
  <2>1. UNCHANGED <<posting, tailors, packets, overridden>>
      BY <1>6 DEF MarkReviewed
  <2>2. PICK r \in op.runs :
               \/ runs' = runs /\ Release
               \/ /\ runs' = [runs EXCEPT ![r].packet = "reviewed"]
                  /\ Hold("complete", op.runs, "none")
      BY <1>6 DEF MarkReviewed
  <2>3. op' \in OpType
      BY <2>2 DEF Hold, Release, OpType
  <2>4. /\ runs' \in [Slots -> [status : RunStatuses, stage : Stages,
                               packet : {"not_ready", "pending_expert_review", "reviewed"}]]
        /\ \A q \in Slots : runs'[q].status = runs[q].status
      BY <2>2
  <2> QED
      BY <1>0, <2>1, <2>3, <2>4, CommandKeeps DEF tailors
<1>7. CASE CompleteReviewed
  <2>1. Release /\ UNCHANGED <<posting, tailors, packets, overridden>>
      BY <1>7 DEF CompleteReviewed
  <2>2. PICK r \in op.runs :
               \/ runs' = runs
               \/ /\ MayBecome(runs[r].status, "completed")
                  /\ runs' = WithRun(r, "completed", "completed")
      BY <1>7 DEF CompleteReviewed
  <2>3. "completed" \in Stages /\ r \in Slots
      BY DEF Stages
  <2> QED
      BY <1>0, <2>1, <2>2, <2>3, CompletedRun, CommandKeeps DEF Release, tailors
<1>8. CASE OverrideReview
  <2>1. PICK to \in {"requires_contacts", "ready_for_outreach", "tailoring_in_progress", "none"} :
               Hold("override", {}, to)
      BY <1>8 DEF OverrideReview
  <2>2. op' \in OpType
      BY <2>1, PostingTypes DEF Hold, OpType
  <2>3. PICK review \in {"rejected", "approved"} :
               tailoring' = [tailoring EXCEPT !.review = review]
      BY <1>8 DEF OverrideReview
  <2>4. tailoring' \in TailoringType
      BY <2>3 DEF TailoringType
  <2>5. overridden' \in BOOLEAN
      BY <1>8 DEF OverrideReview
  <2> QED
      BY <1>0, <1>8, <2>2, <2>4, <2>5, CommandKeeps DEF OverrideReview
<1>9. CASE ApplyOverride
  <2>1. posting' \in PostingStatuses
      BY <1>9 DEF ApplyOverride, OpType
  <2> QED
      BY <1>0, <1>9, <2>1, CommandKeeps DEF ApplyOverride, Release, tailors
<1> QED
    BY <1>1, <1>2, <1>3, <1>4, <1>5, <1>6, <1>7, <1>8, <1>9 DEF Operate

(* A process that dies or raises.                                          *)
LEMMA InterruptKeeps ==
  ASSUME TypeOK, WorkInv, InterruptCycle \/ InterruptCommand PROVE Kept
<1> USE InterruptionsAssumption
<1>1. CASE InterruptCycle
  <2>1. /\ EndCycle /\ interruptions' \in 0 .. MaxInterruptions
        /\ UNCHANGED <<posts, tailors, runs, reviews, sent, op>>
      BY <1>1 DEF InterruptCycle, TypeOK
  <2>2. work' \in [action : Actions, run : Slots \cup {0}, stage : Stages]
      BY <2>1 DEF EndCycle, NoWork, Actions, Stages
  <2>3. held' \in [status : RunStatuses, stage : Stages]
      BY <2>1 DEF EndCycle, NoRow, RunStatuses, Stages
  <2>4. pc' = "idle" /\ result' = "none" /\ overridden' = FALSE
      BY <2>1 DEF EndCycle
  <2>5. TypeOK'
    <3>1. UNCHANGED <<posting, jdLinked, tailoring, approvedBefore, runs, packets, incidents,
                      sent, op>>
        BY <2>1 DEF posts, tailors, reviews
    <3>2. "idle" \in Steps
        BY DEF Steps
    <3> QED
        BY <2>1, <2>2, <2>3, <2>4, <3>1, <3>2 DEF TypeOK
  <2>6. WorkInv'
      BY <2>1 DEF WorkInv, EndCycle, NoWork, StageActions, OutreachStages, Inner
  <2> QED
      BY <2>1, <2>5, <2>6 DEF Kept, StepEffect
<1>2. CASE InterruptCommand
  <2>1. /\ Release /\ interruptions' \in 0 .. MaxInterruptions
        /\ UNCHANGED <<posts, tailors, runs, reviews, sent, cycle, overridden>>
      BY <1>2 DEF InterruptCommand, TypeOK
  <2>2. TypeOK'
      BY <2>1, CommandTypes DEF TypeOK, Release, OpType, posts, tailors, reviews, cycle
  <2> QED
      BY <2>1, <2>2 DEF Kept, WorkInv, StepEffect, cycle
<1> QED
    BY <1>1, <1>2

(* Every step keeps the types and WorkInv, and does to runs what           *)
(* StepEffect says.                                                        *)
LEMMA StepKeeps ==
  ASSUME TypeOK, WorkInv, [Next]_vars PROVE Kept
<1>1. CASE UNCHANGED vars
    BY <1>1 DEF Kept, TypeOK, WorkInv, StepEffect, vars, posts, tailors, reviews, cycle, aside
<1>2. CASE Proceed
    BY <1>2, SelectKeeps, JudgeKeeps, BootstrapKeeps, TailorKeeps, ReviewKeeps, DiscoverKeeps,
       SendOutKeeps DEF Proceed, Execute
<1>3. CASE Begin \/ Operate \/ InterruptCycle \/ InterruptCommand
    BY <1>3, SelectKeeps, OperateKeeps, InterruptKeeps
<1> QED
    BY <1>1, <1>2, <1>3 DEF Next

(***************************************************************************)
(* The results.                                                            *)
(***************************************************************************)
(* The posting as ingestion leaves it.                                     *)
LEMMA InitTypes == Init => TypeOK /\ WorkInv
<1> SUFFICES ASSUME Init PROVE TypeOK /\ WorkInv
    OBVIOUS
<1>1. /\ work \in [action : Actions, run : Slots \cup {0}, stage : Stages]
      /\ held \in [status : RunStatuses, stage : Stages]
    BY DEF Init, NoWork, NoRow, Actions, RunStatuses, Stages
<1>2. op \in OpType
    BY DEF Init, OpType, NoCommand
<1>3. runs \in [Slots -> [status : RunStatuses, stage : Stages,
                         packet : {"not_ready", "pending_expert_review", "reviewed"}]]
    BY DEF Init, RunStatuses, Stages
<1>4. TypeOK
  <2>1. posting \in PostingStatuses /\ tailoring \in TailoringType /\ pc \in Steps
      BY DEF Init, PostingStatuses, Abandonable, TailoringType, Steps
  <2>2. /\ packets \in [Slots -> PacketStatuses]
        /\ incidents \in [IncidentTypes -> {"none", "open", "escalated"}]
      BY DEF Init, PacketStatuses
  <2>3. interruptions \in 0 .. MaxInterruptions
      BY InterruptionsAssumption DEF Init
  <2>4. /\ jdLinked \in BOOLEAN /\ approvedBefore \in BOOLEAN /\ sent \in BOOLEAN
        /\ overridden \in BOOLEAN /\ result \in {"none", "blocked", "failed", "success"}
      BY DEF Init
  <2> QED
      BY <1>1, <1>2, <1>3, <2>1, <2>2, <2>3, <2>4 DEF TypeOK, OpType, TailoringType
<1>5. WorkInv
    BY DEF Init, WorkInv, NoWork, Inner, StageActions, OutreachStages
<1> QED
    BY <1>4, <1>5

(* Every variable keeps its type, for any number of runs and               *)
(* interruptions: what the tables and the cycle can hold.                  *)
THEOREM TypeCorrect == Spec => []TypeOK
<1>1. TypeOK /\ WorkInv /\ [Next]_vars => (TypeOK /\ WorkInv)'
    BY StepKeeps DEF Kept
<1> QED
    BY <1>1, InitTypes, PTL DEF Spec

(* The run in hand is open or completed throughout.                        *)
LEMMA Working == Spec => []WorkInv
<1>1. TypeOK /\ WorkInv /\ [Next]_vars => (TypeOK /\ WorkInv)'
    BY StepKeeps DEF Kept
<1> QED
    BY <1>1, InitTypes, PTL DEF Spec

(* No terminal run comes back to life (_update_pipeline_run, the operator's *)
(* completions), whatever a cycle still remembers of it.                    *)
THEOREM TerminalStays == Spec => TerminalRunsStay
<1>1. TypeOK /\ WorkInv /\ [Next]_vars =>
        [\A r \in Slots :
            /\ runs[r].status \in {"completed", "failed"} => runs'[r].status = runs[r].status
            /\ runs[r].status = "escalated" => runs'[r].status \in {"escalated", "completed"}]_vars
  <2> SUFFICES ASSUME TypeOK, WorkInv, [Next]_vars, NEW r \in Slots
               PROVE  /\ runs[r].status \in {"completed", "failed"} =>
                             runs'[r].status = runs[r].status
                      /\ runs[r].status = "escalated" =>
                             runs'[r].status \in {"escalated", "completed"}
      OBVIOUS
  <2>1. StepEffect
      BY StepKeeps DEF Kept
  <2> QED
      BY <2>1 DEF StepEffect, OpenStatuses
<1> QED
    BY <1>1, TypeCorrect, Working, PTL DEF Spec, TerminalRunsStay

(* OneOpenRun without counting.                                            *)
AtMostOneOpen ==
    \A q, r \in Slots :
        runs[q].status \in OpenStatuses /\ runs[r].status \in OpenStatuses => q = r

(* There is never a second open run of the posting                         *)
(* (ensure_role_targeted_pipeline_run against every other writer).         *)
THEOREM RunIsUnique == Spec => []OneOpenRun
<1>1. Init => AtMostOneOpen
    BY DEF Init, AtMostOneOpen, OpenStatuses
<1>2. TypeOK /\ WorkInv /\ AtMostOneOpen /\ [Next]_vars => AtMostOneOpen'
  <2> SUFFICES ASSUME TypeOK, WorkInv, AtMostOneOpen, [Next]_vars PROVE AtMostOneOpen'
      OBVIOUS
  <2>1. StepEffect
      BY StepKeeps DEF Kept
  <2> QED
      BY <2>1 DEF StepEffect, AtMostOneOpen, OpenStatuses, OpenRuns
<1>3. AtMostOneOpen => OneOpenRun
  <2> SUFFICES ASSUME AtMostOneOpen PROVE OneOpenRun
      OBVIOUS
  <2> DEFINE S == {r \in Slots : runs[r].status \in OpenStatuses}
  <2>1. CASE S = {}
      BY <2>1, FS_EmptySet DEF OneOpenRun
  <2>2. CASE S # {}
    <3>1. PICK r \in S : TRUE
        BY <2>2
    <3>2. S = {r}
        BY <3>1 DEF AtMostOneOpen
    <3>3. Cardinality(S) = 1
        BY <3>2, FS_Singleton
    <3> QED
        BY <3>3 DEF OneOpenRun
  <2> QED
      BY <2>1, <2>2
<1> QED
    BY <1>1, <1>2, <1>3, TypeCorrect, Working, PTL DEF Spec

(***************************************************************************)
(* Packets: the executors leave them alone (Quiet), so what the supervisor *)
(* and the expert's decision write in two transactions is consistent at    *)
(* every point between them (PacketInv).                                   *)
(***************************************************************************)
PacketInv ==
    /\ ReviewStatusHasPacket
    /\ pc = "mark" => packets[work.run] # "none"
    /\ op.step \in {"decide", "mark", "complete"} => \E r \in Slots : op.runs = {r}
    /\ op.step \in {"mark", "complete"} => \A r \in op.runs : packets[r] = "reviewed"

Quiet ==
    /\ UNCHANGED <<packets, op>>
    /\ pc' # "mark"
    /\ \A r \in Slots : runs'[r].packet = runs[r].packet

(* A step that leaves the packets alone.                                   *)
LEMMA QuietKeeps == ASSUME PacketInv, Quiet PROVE PacketInv'
  BY DEF PacketInv, Quiet, ReviewStatusHasPacket

(* Moving a run does not touch its review_packet_status.                   *)
LEMMA WithRunQuiet ==
  ASSUME TypeOK, NEW q, NEW status, NEW stage, runs' = WithRun(q, status, stage)
  PROVE  \A r \in Slots : runs'[r].packet = runs[r].packet
  BY DEF WithRun, TypeOK

(* None of the shared steps of a cycle touches a packet.                   *)
LEMMA SharedQuiet ==
  ASSUME TypeOK
  PROVE  /\ Raise => Quiet
         /\ \A to, row : Outcome(to, row) => Quiet
         /\ \A to, row : PostingFirst(to, row) => Quiet
         /\ \A row : Later(row) => Quiet
<1>1. Raise => Quiet
    BY DEF Raise, EndCycle, Quiet, reviews
<1>2. ASSUME NEW to, NEW row, Outcome(to, row) PROVE Quiet
  <2>1. CASE Raise
      BY <1>1, <2>1
  <2>2. CASE ~Raise
    <3>1. /\ runs' = WithRun(work.run, row.status, row.stage) /\ pc' = "check"
          /\ UNCHANGED <<reviews, aside>>
        BY <1>2, <2>2 DEF Outcome
    <3> QED
        BY <3>1, WithRunQuiet DEF Quiet, reviews, aside
  <2> QED
      BY <2>1, <2>2
<1>3. ASSUME NEW to, NEW row, PostingFirst(to, row) PROVE Quiet
    BY <1>3 DEF PostingFirst, Quiet, reviews, aside
<1>4. ASSUME NEW row, Later(row) PROVE Quiet
    BY <1>4 DEF Later, Quiet, reviews, aside
<1> QED
    BY <1>1, <1>2, <1>3, <1>4

(* No executor touches a packet.                                           *)
LEMMA ExecuteQuiet == ASSUME TypeOK, Execute PROVE Quiet
<1> USE SharedQuiet
<1>1. CASE EscalateIncident \/ Approve \/ RunawaySearch
    BY <1>1 DEF EscalateIncident, Approve, RunawaySearch, GoTo, Quiet, reviews, aside
<1>2. CASE Bootstrap
  <2>1. pc' = "check" /\ UNCHANGED <<reviews, aside>>
        /\ (runs' = runs \/ \E r \in Slots : runs' = WithRun(r, "in_progress", work.stage))
      BY <1>2 DEF Bootstrap
  <2> QED
      BY <2>1, WithRunQuiet DEF Quiet, reviews, aside
<1>3. CASE OutOfRuns \/ Checkpoint \/ HardIneligible \/ TailoringBlocked \/ ReviewBoundary
             \/ OutreachHandoff \/ DeliveryFeedback \/ Advance \/ ConcludeSending
    BY <1>3 DEF OutOfRuns, Checkpoint, HardIneligible, TailoringBlocked, ReviewBoundary,
                OutreachHandoff, DeliveryFeedback, Advance, ConcludeSending
<1>4. CASE StartTailoring \/ FinalizePasses \/ FinalizeNeedsRevision \/ FinalizeFails
    BY <1>4 DEF StartTailoring, FinalizePasses, FinalizeNeedsRevision, FinalizeFails, FinalizeWith,
                GoTo, Quiet, reviews, aside
<1>5. ASSUME NEW step \in Inner, GoTo(step), UNCHANGED <<runs, reviews, aside>> PROVE Quiet
    BY <1>5 DEF GoTo, Inner, Quiet, reviews, aside
<1>6. CASE StartSearch \/ FinishSearch \/ StartDiscovery \/ FinishDiscovery
    BY <1>5, <1>6 DEF StartSearch, FinishSearch, StartDiscovery, FinishDiscovery, Inner
<1>7. CASE StartSending \/ Draft \/ Send \/ NoSend \/ FinishWave
    BY <1>5, <1>7 DEF StartSending, Draft, Send, NoSend, FinishWave, Inner
<1> QED
    BY <1>1, <1>2, <1>3, <1>4, <1>6, <1>7 DEF Execute, Tailor, Review, Discover, SendOut

(* Neither do selection and judgement, apart from the two packet steps.    *)
LEMMA JudgeQuiet ==
  ASSUME TypeOK,
         \/ Begin \/ RetireStale \/ Suppress \/ SelectIncident \/ SelectRun \/ SelectPosting
         \/ NothingHere \/ ValidationPasses \/ ValidationFails \/ Accept \/ Reject
         \/ EscalateRun \/ NoPacketDue \/ Finish \/ InterruptCycle
  PROVE  Quiet
<1> USE SharedQuiet
<1>1. CASE Begin \/ Suppress \/ ValidationPasses \/ ValidationFails \/ Accept \/ Reject
             \/ NoPacketDue
    BY <1>1 DEF Begin, Suppress, ValidationPasses, ValidationFails, Accept, Reject, NoPacketDue,
                AfterPacket, Blame, GoTo, Quiet, reviews, aside
<1>2. CASE SelectIncident \/ SelectRun \/ SelectPosting
    BY <1>2 DEF SelectIncident, SelectRun, SelectPosting, Pick, Quiet, reviews, aside
<1>3. CASE NothingHere \/ Finish
    BY <1>3 DEF NothingHere, Finish
<1>4. CASE RetireStale
  <2>1. /\ pc' # "mark" /\ UNCHANGED <<reviews, aside>>
        /\ \E r \in Slots : runs' = WithRun(r, "failed", "resume_tailoring")
      BY <1>4 DEF RetireStale, cycle, OpenRuns
  <2> QED
      BY <2>1, WithRunQuiet DEF Quiet, reviews, aside
<1>5. CASE EscalateRun
  <2>1. /\ pc' = "packet" /\ UNCHANGED <<reviews, aside>>
        /\ runs' = runs \/ runs' = WithRun(work.run, "escalated", runs[work.run].stage)
      BY <1>5 DEF EscalateRun
  <2> QED
      BY <2>1, WithRunQuiet DEF Quiet, reviews, aside
<1>6. CASE InterruptCycle
    BY <1>6 DEF InterruptCycle, EndCycle, Quiet, reviews
<1> QED
    BY <1>1, <1>2, <1>3, <1>4, <1>5, <1>6

(* PacketInv is inductive.                                                 *)
LEMMA PacketStep ==
  ASSUME TypeOK, WorkInv, PacketInv, [Next]_vars PROVE PacketInv'
<1> USE SharedQuiet, QuietKeeps, SlotsFacts
<1>1. CASE Execute
    BY <1>1, ExecuteQuiet
<1>2. CASE \/ Begin \/ RetireStale \/ Suppress \/ SelectIncident \/ SelectRun \/ SelectPosting
           \/ NothingHere \/ ValidationPasses \/ ValidationFails \/ Accept \/ Reject
           \/ EscalateRun \/ NoPacketDue \/ Finish \/ InterruptCycle
    BY <1>2, JudgeQuiet
<1>3. CASE InsertPacket
  <2>1. /\ work.run \in Slots /\ packets[work.run] = "none"
        /\ packets' = [packets EXCEPT ![work.run] = "pending_expert_review"]
        /\ UNCHANGED <<runs, work, op>>
      BY <1>3 DEF InsertPacket, PacketDue, Inserted, GoTo, aside, TypeOK
  <2> QED
      BY <2>1 DEF PacketInv, ReviewStatusHasPacket, TypeOK
<1>4. CASE MarkRun
  <2>1. CASE Raise
      BY <2>1
  <2>2. CASE ~Raise
    <3>1. /\ work.run \in Slots /\ packets[work.run] # "none" /\ pc' # "mark"
          /\ runs' = [runs EXCEPT ![work.run].packet = "pending_expert_review"]
          /\ UNCHANGED <<packets, work, op>>
        BY <1>4, <2>2 DEF MarkRun, GoTo, AfterPacket, WorkInv, PacketInv, TypeOK, reviews, aside
    <3> QED
        BY <3>1 DEF PacketInv, ReviewStatusHasPacket, TypeOK
  <2> QED
      BY <2>1, <2>2
<1>5. CASE ReadAbandon \/ AbandonPosting \/ OverrideReview \/ ApplyOverride \/ InterruptCommand
  <2>1. op'.step \in {"none", "retire", "abandon", "override"}
      BY <1>5 DEF ReadAbandon, AbandonPosting, OverrideReview, ApplyOverride, InterruptCommand, Hold,
                  Release, NoCommand
  <2>2. UNCHANGED <<runs, packets, pc, work>>
      BY <1>5 DEF ReadAbandon, AbandonPosting, OverrideReview, ApplyOverride, InterruptCommand,
                  UnchangedByOperator, cycle, reviews
  <2> QED
      BY <2>1, <2>2 DEF PacketInv, ReviewStatusHasPacket
<1>6. CASE RetireRun \/ CompleteReviewed
  <2>1. op'.step \in {"none", "retire"}
      BY <1>6 DEF RetireRun, CompleteReviewed, Hold, Release, NoCommand
  <2>2. UNCHANGED <<packets, pc, work>>
      BY <1>6 DEF RetireRun, CompleteReviewed, UnchangedByOperator, cycle
  <2>3. runs' = runs \/ \E q \in Slots, g \in Stages : runs' = WithRun(q, "completed", g)
    <3>1. op.runs \subseteq Slots /\ {"completed", "abandoned"} \subseteq Stages
        BY DEF TypeOK, Stages
    <3> QED
        BY <1>6, <3>1 DEF RetireRun, CompleteReviewed
  <2>4. \A r \in Slots : runs'[r].packet = runs[r].packet
      BY <2>3, WithRunQuiet
  <2> QED
      BY <2>1, <2>2, <2>4 DEF PacketInv, ReviewStatusHasPacket
<1>7. CASE CloseReview
  <2>1. /\ op'.step = "decide" /\ \E r \in Slots : op'.runs = {r}
        /\ UNCHANGED <<runs, packets, pc, work>>
      BY <1>7 DEF CloseReview, Hold, UnchangedByOperator, cycle
  <2> QED
      BY <2>1 DEF PacketInv, ReviewStatusHasPacket
<1>8. CASE DecideReview
  <2>1. PICK r \in Slots : op.runs = {r}
      BY <1>8 DEF DecideReview, PacketInv
  <2>2. /\ packets' = [packets EXCEPT ![r] = "reviewed"]
        /\ op'.step \in {"mark", "complete"} /\ op'.runs = {r}
        /\ UNCHANGED <<runs, pc, work>>
      BY <1>8, <2>1 DEF DecideReview, Hold, UnchangedByOperator, cycle
  <2> QED
      BY <2>1, <2>2 DEF PacketInv, ReviewStatusHasPacket, TypeOK
<1>9. CASE MarkReviewed
  <2>1. PICK r \in Slots : op.runs = {r} /\ packets[r] = "reviewed"
      BY <1>9 DEF MarkReviewed, PacketInv
  <2>2. UNCHANGED <<packets, pc, work>>
      BY <1>9 DEF MarkReviewed, UnchangedByOperator, cycle
  <2>3. \/ runs' = runs /\ op' = NoCommand
        \/ /\ runs' = [runs EXCEPT ![r].packet = "reviewed"]
           /\ op'.step = "complete" /\ op'.runs = {r}
      BY <1>9, <2>1 DEF MarkReviewed, Hold, Release
  <2> QED
      BY <2>1, <2>2, <2>3 DEF PacketInv, ReviewStatusHasPacket, NoCommand, TypeOK
<1>10. CASE UNCHANGED vars
    BY <1>10 DEF PacketInv, ReviewStatusHasPacket, vars, reviews, cycle, aside
<1> QED
    BY <1>1, <1>2, <1>3, <1>4, <1>5, <1>6, <1>7, <1>8, <1>9, <1>10 DEF Next, Proceed, Operate

(* What review_packet_status promises the expert is there                  *)
(* (generate_expert_review_packet, record_expert_review_followup_decision). *)
THEOREM PromisedPacketIsThere == Spec => []ReviewStatusHasPacket
<1>1. Init => PacketInv
    BY DEF Init, PacketInv, ReviewStatusHasPacket, NoCommand
<1>2. TypeOK /\ WorkInv /\ PacketInv /\ [Next]_vars => PacketInv'
    BY PacketStep
<1>3. PacketInv => ReviewStatusHasPacket
    BY DEF PacketInv
<1> QED
    BY <1>1, <1>2, <1>3, TypeCorrect, Working, PTL DEF Spec

(***************************************************************************)
(* Sends: the quarantine leaves no open run on the outreach side of an     *)
(* unapproved posting, the sending prerequisites then mean what they say,  *)
(* and only an override, which is remembered, changes the review before    *)
(* the wave (SendInv).                                                     *)
(***************************************************************************)
SendInv ==
    /\ tailoring.status = "none" => tailoring.review = "not_ready" /\ ~approvedBefore
    /\ pc \in {"draft", "send"} => work.action = "sending"
    /\ ~overridden =>
         /\ pc = "select" /\ Unapproved => OutreachSide \cap OpenRuns = {}
         /\ pc = "validate" /\ work.action = "sending" => ~Unapproved
         /\ pc \in {"execute", "draft", "send"} /\ work.action = "sending" =>
                tailoring.review = "approved"

(* The steps that ask for nothing of SendInv afterwards.                   *)
Unbound == {"idle", "retire", "finalize", "boundary", "handoff", "search", "discover", "wave",
            "conclude", "advance", "check", "escalate", "packet", "mark", "finish"}

(* A step out of the sending actions.                                      *)
LEMMA UnboundKeeps ==
  ASSUME SendInv, pc' \in Unbound,
         UNCHANGED tailors \/ tailoring'.status # "none"
  PROVE  SendInv'
  BY DEF SendInv, Unbound, tailors

(* The shared steps of a cycle lead out of them.                           *)
LEMMA SharedUnbound ==
  /\ Raise => pc' \in Unbound /\ UNCHANGED tailors
  /\ \A to, row : Outcome(to, row) => pc' \in Unbound /\ UNCHANGED tailors
  /\ \A to, row : PostingFirst(to, row) => pc' \in Unbound /\ UNCHANGED tailors
  /\ \A row : Later(row) => pc' \in Unbound /\ UNCHANGED tailors
<1>1. Raise => pc' \in Unbound /\ UNCHANGED tailors
    BY DEF Raise, EndCycle, Unbound
<1>2. ASSUME NEW to, NEW row, Outcome(to, row) PROVE pc' \in Unbound /\ UNCHANGED tailors
    BY <1>1, <1>2 DEF Outcome, Unbound
<1>3. ASSUME NEW to, NEW row, PostingFirst(to, row) PROVE pc' \in Unbound /\ UNCHANGED tailors
    BY <1>3 DEF PostingFirst, Unbound
<1>4. ASSUME NEW row, Later(row) PROVE pc' \in Unbound /\ UNCHANGED tailors
    BY <1>4 DEF Later, Unbound
<1> QED
    BY <1>1, <1>2, <1>3, <1>4

(* SendInv is inductive.                                                   *)
LEMMA SendStep ==
  ASSUME TypeOK, WorkInv, SendInv, [Next]_vars PROVE SendInv'
<1> USE SharedUnbound, UnboundKeeps
<1>1. CASE Begin
  <2>1. pc' \in {"retire", "select"}
        /\ (pc' = "select" => ~Unapproved \/ OutreachSide = {})
        /\ UNCHANGED <<tailors, runs, aside>>
      BY <1>1 DEF Begin, GoTo
  <2> QED
      BY <2>1 DEF SendInv, Unapproved, OutreachSide, OpenRuns, tailors, aside
<1>2. CASE Suppress
  <2>1. OutreachSide \cap OpenRuns = {} /\ pc' = "select" /\ UNCHANGED <<tailors, runs, aside>>
      BY <1>2 DEF Suppress, GoTo
  <2> QED
      BY <2>1 DEF SendInv, Unapproved, OutreachSide, OpenRuns, tailors, aside
<1>3. CASE RetireStale
    BY <1>3 DEF RetireStale, SendInv, cycle, tailors, aside
<1>4. CASE SelectIncident \/ SelectPosting
  <2>1. pc' = "validate" /\ work'.action # "sending" /\ UNCHANGED <<tailors, aside>>
      BY <1>4 DEF SelectIncident, SelectPosting, Pick, NoWork
  <2> QED
      BY <2>1 DEF SendInv, tailors, aside
<1>5. CASE SelectRun
  <2>1. PICK r \in OpenRuns : \E a \in ActionsAt(runs[r].stage) :
               Pick([action |-> a, run |-> r, stage |-> runs[r].stage])
      BY <1>5 DEF SelectRun
  <2>2. PICK a \in ActionsAt(runs[r].stage) :
               Pick([action |-> a, run |-> r, stage |-> runs[r].stage])
      BY <2>1
  <2>3. a = "sending" => r \in OutreachSide
      BY DEF ActionsAt, OutreachSide, OpenRuns, OutreachStages, StageActions
  <2>4. a = "sending" /\ ~overridden => ~Unapproved
      BY <1>5, <2>3 DEF SendInv, SelectRun
  <2>5. pc' = "validate" /\ work'.action = a /\ UNCHANGED <<tailors, aside>>
      BY <2>2 DEF Pick
  <2> QED
      BY <2>4, <2>5 DEF SendInv, Unapproved, tailors, aside
<1>6. CASE ValidationPasses
  <2>1. pc = "validate" /\ pc' = "execute" /\ UNCHANGED <<tailors, work, aside>>
      BY <1>6 DEF ValidationPasses, GoTo
  <2>2. work.action = "sending" => AnyApproved
      BY <1>6 DEF ValidationPasses, Valid, Actionable, MaySend
  <2> QED
      BY <2>1, <2>2 DEF SendInv, Unapproved, AnyApproved, tailors, aside
<1>7. CASE StartSending \/ Draft
  <2>1. CASE pc' \in Unbound /\ UNCHANGED tailors
      BY <2>1
  <2>2. CASE ~(pc' \in Unbound /\ UNCHANGED tailors)
    <3>1. pc \in {"execute", "draft"} /\ work.action = "sending" /\ pc' \in {"draft", "send"}
          /\ UNCHANGED <<tailors, work, aside>>
        BY <1>7, <2>2 DEF StartSending, Draft, Executing, GoTo, SendInv
    <3> QED
        BY <3>1 DEF SendInv, tailors, aside
  <2> QED
      BY <2>1, <2>2
<1>8. CASE NothingHere \/ Finish \/ OutOfRuns \/ Checkpoint \/ HardIneligible
             \/ TailoringBlocked \/ ReviewBoundary \/ OutreachHandoff \/ DeliveryFeedback
             \/ Advance \/ ConcludeSending
    BY <1>8 DEF NothingHere, Finish, OutOfRuns, Checkpoint, HardIneligible, TailoringBlocked,
                ReviewBoundary, OutreachHandoff, DeliveryFeedback, Advance, ConcludeSending
<1>9. CASE ValidationFails \/ EscalateIncident \/ Bootstrap \/ RunawaySearch \/ Send \/ NoSend
             \/ FinishWave \/ Accept \/ Reject \/ EscalateRun \/ InsertPacket \/ NoPacketDue
             \/ InterruptCycle
  <2>1. pc' \in Unbound /\ UNCHANGED tailors
      BY <1>9 DEF ValidationFails, EscalateIncident, Bootstrap, RunawaySearch, Send, NoSend,
                  FinishWave, Accept, Reject, EscalateRun, InsertPacket, NoPacketDue,
                  InterruptCycle, EndCycle, Blame, AfterPacket, GoTo, Unbound
  <2> QED
      BY <2>1
<1>10. CASE MarkRun
    BY <1>10 DEF MarkRun, GoTo, AfterPacket, Unbound
<1>11. CASE StartSearch \/ FinishSearch \/ StartDiscovery \/ FinishDiscovery
  <2>1. pc' \in Unbound /\ UNCHANGED tailors
      BY <1>11 DEF StartSearch, FinishSearch, StartDiscovery, FinishDiscovery, GoTo, Unbound
  <2> QED
      BY <2>1
<1>12. CASE StartTailoring \/ FinalizePasses \/ FinalizeNeedsRevision \/ FinalizeFails
  <2>1. pc' \in Unbound /\ (UNCHANGED tailors \/ tailoring'.status # "none")
      BY <1>12 DEF StartTailoring, FinalizePasses, FinalizeNeedsRevision, FinalizeFails,
                   FinalizeWith, GoTo, Unbound
  <2> QED
      BY <2>1
<1>13. CASE Approve
  <2>1. pc' \in Unbound /\ tailoring'.status # "none"
      BY <1>13 DEF Approve, GoTo, PendingReview, Unbound
  <2> QED
      BY <2>1
<1>14. ASSUME UNCHANGED <<tailors, pc, work, overridden>>,
              \A r \in Slots : \/ runs'[r].status = runs[r].status /\ runs'[r].stage = runs[r].stage
                               \/ runs'[r].status = "completed"
       PROVE  SendInv'
  <2>1. (OutreachSide \cap OpenRuns)' \subseteq OutreachSide \cap OpenRuns
      BY <1>14 DEF OutreachSide, OpenRuns, OpenStatuses
  <2> QED
      BY <1>14, <2>1 DEF SendInv, Unapproved, tailors
<1>15. CASE ReadAbandon \/ AbandonPosting \/ CloseReview \/ DecideReview \/ ApplyOverride
              \/ InterruptCommand \/ UNCHANGED vars
  <2>1. UNCHANGED <<tailors, runs, pc, work, overridden>>
      BY <1>15 DEF ReadAbandon, AbandonPosting, CloseReview, DecideReview, ApplyOverride,
                   InterruptCommand, UnchangedByOperator, vars, cycle, aside
  <2> QED
      BY <1>14, <2>1
<1>16. CASE RetireRun \/ MarkReviewed \/ CompleteReviewed
  <2>1. UNCHANGED <<tailors, pc, work, overridden>> /\ op.runs \subseteq Slots
      BY <1>16 DEF RetireRun, MarkReviewed, CompleteReviewed, UnchangedByOperator, cycle, TypeOK
  <2>2. \/ runs' = runs
        \/ \E q \in Slots, g \in {"abandoned", "completed"} : runs' = WithRun(q, "completed", g)
        \/ \E q \in Slots : runs' = [runs EXCEPT ![q].packet = "reviewed"]
      BY <1>16, <2>1 DEF RetireRun, MarkReviewed, CompleteReviewed
  <2>3. \A r \in Slots : \/ runs'[r].status = runs[r].status /\ runs'[r].stage = runs[r].stage
                         \/ runs'[r].status = "completed"
      BY <2>2 DEF WithRun, TypeOK
  <2> QED
      BY <1>14, <2>1, <2>3
<1>17. CASE OverrideReview
  <2>1. /\ tailoring.status = "tailored" /\ tailoring'.status = "tailored"
        /\ overridden' = (pc # "idle")
        /\ UNCHANGED <<pc, work>>
      BY <1>17 DEF OverrideReview, UnchangedByOperator, cycle, TypeOK
  <2> QED
      BY <2>1 DEF SendInv
<1> QED
    BY <1>1, <1>2, <1>3, <1>4, <1>5, <1>6, <1>7, <1>8, <1>9, <1>10, <1>11, <1>12, <1>13, <1>15,
       <1>16, <1>17
    DEF Next, Proceed, Operate, Execute, Tailor, Review, Discover, SendOut

(* Nothing is sent with unapproved material (_validate_selected_work and   *)
(* _quarantine_postings_with_unapproved_latest_tailoring together), unless *)
(* the owner's override lands in the middle of the cycle.                  *)
THEOREM OnlyApprovedIsSent == Spec => SendsApproved
<1>1. Init => SendInv
    BY DEF Init, SendInv
<1>2. TypeOK /\ WorkInv /\ SendInv /\ [Next]_vars => SendInv'
    BY SendStep
<1>3. TypeOK /\ SendInv /\ [Next]_vars =>
        [pc = "send" /\ pc' = "wave" => tailoring.review = "approved" \/ overridden]_vars
    BY DEF SendInv, TypeOK
<1> QED
    BY <1>1, <1>2, <1>3, TypeCorrect, Working, PTL DEF Spec, SendsApproved
=============================================================================
