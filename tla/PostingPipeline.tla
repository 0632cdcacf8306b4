--------------------------- MODULE PostingPipeline ---------------------------
(***************************************************************************)
(* The durable pipeline of one job posting: its posting_status, its resume *)
(* tailoring runs, its pipeline runs with their incidents and expert       *)
(* review packets, the supervisor cycles that move them and the operator   *)
(* commands that run beside a cycle.                                       *)
(*                                                                         *)
(* One cycle runs at a time (RuntimeLease says under which condition); one *)
(* operator command at a time.  Each action is one transaction or one read *)
(* that a later transaction depends on: between two actions of a cycle the *)
(* operator's process may commit, and either process may die or get an     *)
(* exception from a provider, a file or the network.                       *)
(*                                                                         *)
(* Contacts, messages, providers and artifacts are abstracted: what the    *)
(* code computes from them is a choice of its outcomes.  Other work of a   *)
(* cycle (Jobright, general learning, maintenance) and the control mode    *)
(* that closes the gate appear as a cycle that does nothing here.          *)
(***************************************************************************)
EXTENDS Integers, FiniteSets

CONSTANTS
    MaxRuns,         \* bound: pipeline runs the posting ever gets
    MaxInterruptions \* bound: crashes and external exceptions

ASSUME RunsAssumption == MaxRuns \in Nat \ {0}
ASSUME InterruptionsAssumption == MaxInterruptions \in Nat

Slots == 1 .. MaxRuns

VARIABLES
    posting,     \* job_postings.posting_status
    jdLinked,    \* job_postings.jd_artifact_path is set
    tailoring,   \* latest resume_tailoring_runs row: status and review
    approvedBefore, \* some earlier resume_tailoring_runs row is approved
    runs,        \* pipeline_runs rows: status, stage, packet (review_packet_status)
    packets,     \* expert_review_packets row of each run: packet_status
    incidents,   \* agent_incidents of the posting: unresolved status of each type
    sent,        \* some outreach message of the posting is sent
    pc, work, held, result, \* the cycle: step, selected work, pipeline_run, verdict
    op,          \* the operator command: next step, runs and posting_status it holds
    overridden,  \* history: an owner override landed since the cycle began
    interruptions

posts == <<posting, jdLinked>>
tailors == <<tailoring, approvedBefore>>
reviews == <<packets, incidents>>
cycle == <<pc, work, held, result>>
aside == <<op, overridden, interruptions>>
vars == <<posts, tailors, runs, reviews, sent, cycle, aside>>

Downstream == {"requires_contacts", "ready_for_outreach", "outreach_in_progress", "completed"}
Abandonable == {"sourced", "tailoring_in_progress", "resume_review_pending",
                "requires_contacts", "ready_for_outreach", "outreach_in_progress"}
PostingStatuses == Abandonable \cup Downstream
                     \cup {"hard_ineligible", "abandoned", "closed_by_user"}
EligibleForNewRun == {"resume_review_pending", "sourced"}
SendingStatuses == {"ready_for_outreach", "outreach_in_progress", "completed"}

OutreachStages == {"people_search", "email_discovery", "sending", "delivery_feedback"}
Stages == OutreachStages \cup {"none", "lead_handoff", "resume_tailoring", "agent_review",
                               "completed", "abandoned", "hard_ineligible"}
OpenStatuses == {"in_progress", "paused"}
ReviewWorthy == {"escalated", "failed", "completed"}
RunStatuses == {"none"} \cup OpenStatuses \cup ReviewWorthy
PacketStatuses == {"none", "pending_expert_review", "reviewed"}
IncidentTypes == {"progression", "runaway"} \* prerequisite and execution failures are one
StageActions == {"checkpoint", "resume_tailoring", "agent_review"} \cup OutreachStages
Actions == {"none", "escalate_incident", "bootstrap"} \cup StageActions

NoRow == [status |-> "none", stage |-> "none"]
NoWork == [action |-> "none", run |-> 0, stage |-> "none"]
NoCommand == [step |-> "none", runs |-> {}, to |-> "none"]

(***************************************************************************)
(* Faulty variants: never used by the specification.                       *)
(***************************************************************************)
FaultyMayBecome(from, to) == from # "none"
FaultyOpenRuns == {}
FaultyUnapproved ==
    /\ tailoring.status # "none"
    /\ tailoring.review # "approved"
    /\ ~approvedBefore
FaultyInserted(r) == packets
FaultyPacketDue == held.status = "failed" /\ packets[work.run] = "none"
FaultyRow(status, stage) == [status |-> stage, stage |-> stage]

(***************************************************************************)
(* What the code computes from the rows.                                   *)
(***************************************************************************)
\* _validate_run_status_transition
MayBecome(from, to) ==
    \/ from = to
    \/ from = "in_progress" /\ to \in {"paused"} \cup ReviewWorthy
    \/ from = "paused" /\ to \in {"in_progress"} \cup ReviewWorthy
    \/ from = "escalated" /\ to \in {"in_progress", "completed"}

\* get_open_pipeline_run_for_posting
OpenRuns == {r \in Slots : runs[r].status \in OpenStatuses}

AnyApproved == approvedBefore \/ tailoring.review = "approved"

PendingReview == tailoring = [status |-> "tailored", review |-> "resume_review_pending"]

\* _posting_status_for_unapproved_tailoring_run: something to return to
Unapproved == tailoring.status # "none" /\ tailoring.review # "approved"

ReturnStatus == IF tailoring.review = "resume_review_pending"
                THEN "resume_review_pending" ELSE "tailoring_in_progress"

\* the runs of _quarantine_postings_with_unapproved_latest_tailoring
OutreachSide == {r \in Slots : /\ runs[r].stage \in OutreachStages
                               /\ runs[r].status \in OpenStatuses \cup {"escalated"}}

Row(status, stage) == [status |-> status, stage |-> stage]

WithRun(r, status, stage) ==
    [runs EXCEPT ![r] = [status |-> status, stage |-> stage, packet |-> runs[r].packet]]

Inserted(r) == [packets EXCEPT ![r] = "pending_expert_review"]

\* generate_expert_review_packet has a packet to write
PacketDue == /\ held.status \in ReviewWorthy
             /\ packets[work.run] = "none"

AfterSent == IF sent THEN Row("in_progress", "delivery_feedback")
             ELSE Row("completed", "completed")

-----------------------------------------------------------------------------
Init ==
    /\ posting = "sourced"
    /\ jdLinked \in BOOLEAN
    /\ tailoring = [status |-> "none", review |-> "not_ready"]
    /\ approvedBefore = FALSE
    /\ runs = [r \in Slots |-> [status |-> "none", stage |-> "none", packet |-> "not_ready"]]
    /\ packets = [r \in Slots |-> "none"]
    /\ incidents = [i \in IncidentTypes |-> "none"]
    /\ sent = FALSE
    /\ pc = "idle" /\ work = NoWork /\ held = NoRow /\ result = "none"
    /\ op = NoCommand
    /\ overridden = FALSE
    /\ interruptions = 0

(***************************************************************************)
(* Steps shared by the actions of a cycle.                                 *)
(***************************************************************************)
\* the process of the cycle is over; the lease is released
EndCycle ==
    /\ pc' = "idle" /\ work' = NoWork /\ held' = NoRow /\ result' = "none"
    /\ overridden' = FALSE

GoTo(step) == pc' = step /\ UNCHANGED <<work, held, result>>

\* An illegal transition raises; what the transaction wrote is rolled back.
Raise == EndCycle /\ UNCHANGED <<posts, tailors, runs, reviews, sent, op, interruptions>>

\* One transaction: posting_status := to and the selected run moves.
Outcome(to, row) ==
    \/ /\ MayBecome(runs[work.run].status, row.status)
       /\ posting' = to
       /\ runs' = WithRun(work.run, row.status, row.stage)
       /\ held' = row
       /\ pc' = "check"
       /\ UNCHANGED <<jdLinked, tailors, reviews, sent, work, result, aside>>
    \/ ~MayBecome(runs[work.run].status, row.status) /\ Raise

\* The run moves in Advance, whatever happens until then.
Later(row) ==
    /\ held' = row
    /\ pc' = "advance"
    /\ UNCHANGED <<posts, tailors, runs, reviews, sent, work, result, aside>>

\* Two transactions: posting_status := to now, the run moves in Advance.
PostingFirst(to, row) ==
    /\ posting' = to
    /\ held' = row
    /\ pc' = "advance"
    /\ UNCHANGED <<jdLinked, tailors, runs, reviews, sent, work, result, aside>>

Executing(action) == pc = "execute" /\ work.action = action

-----------------------------------------------------------------------------
(***************************************************************************)
(* The cycle begins: quarantine, selection, validation.                    *)
(***************************************************************************)
Begin ==
    /\ pc = "idle"
    /\ IF Unapproved /\ OutreachSide # {}
       THEN posting' = ReturnStatus /\ GoTo("retire")
       ELSE posting' = posting /\ GoTo("select")
    /\ UNCHANGED <<jdLinked, tailors, runs, reviews, sent, aside>>

\* one transaction per run; escalated runs are left as they are
RetireStale ==
    /\ pc = "retire"
    /\ \E r \in OutreachSide \cap OpenRuns : runs' = WithRun(r, "failed", "resume_tailoring")
    /\ UNCHANGED <<posts, tailors, reviews, sent, cycle, aside>>

Suppress ==
    /\ pc = "retire"
    /\ OutreachSide \cap OpenRuns = {}
    /\ incidents' = [incidents EXCEPT !["progression"] = "none"]
    /\ GoTo("select")
    /\ UNCHANGED <<posts, tailors, runs, packets, sent, aside>>

Pick(selected) ==
    /\ work' = selected
    /\ pc' = "validate"
    /\ UNCHANGED <<posts, tailors, runs, reviews, sent, held, result, aside>>

NoIncident == \A i \in IncidentTypes : incidents[i] # "open"

SelectIncident ==
    /\ pc = "select"
    /\ ~NoIncident
    /\ Pick([NoWork EXCEPT !.action = "escalate_incident"])

\* ROLE_TARGETED_PIPELINE_STAGE_ACTIONS; sending also resumes a feedback run
ActionsAt(stage) ==
    CASE stage = "lead_handoff" -> {"checkpoint"}
      [] stage = "delivery_feedback" -> {"sending", "delivery_feedback"}
      [] OTHER -> {stage} \cap StageActions

SelectRun ==
    /\ pc = "select"
    /\ NoIncident
    /\ \E r \in OpenRuns : \E a \in ActionsAt(runs[r].stage) :
           Pick([action |-> a, run |-> r, stage |-> runs[r].stage])

\* _classify_orphaned_send_stage_recovery, what depends on messages left open
OrphanStages ==
    IF posting \in {"ready_for_outreach", "outreach_in_progress"} THEN {"sending"}
    ELSE IF posting # "completed" THEN {}
    ELSE {"sending"} \cup {s \in {"delivery_feedback"} :
             sent /\ \A r \in Slots : ~(runs[r].status = "completed" /\ runs[r].stage = "completed")}

BootstrapStages ==
    {s \in {"lead_handoff"} : posting \in EligibleForNewRun} \cup OrphanStages

SelectPosting ==
    /\ pc = "select"
    /\ NoIncident
    /\ OpenRuns = {}
    /\ \E s \in BootstrapStages : Pick([action |-> "bootstrap", run |-> 0, stage |-> s])

\* The control gate is closed, or other work or nothing is due.
NothingHere == pc = "select" /\ Raise

\* _validate_selected_work: the run is where the action starts, and the rows
\* the action builds on are there
MayTailor == runs[work.run].stage = "resume_tailoring" /\ jdLinked

MayReview ==
    /\ runs[work.run].stage = "agent_review"
    /\ posting = "resume_review_pending" /\ PendingReview

MaySearch ==
    /\ runs[work.run].stage = "people_search"
    /\ \/ posting = "ready_for_outreach"
       \/ posting = "requires_contacts" /\ tailoring.review = "approved"

MayDiscover ==
    /\ runs[work.run].stage = "email_discovery"
    /\ posting \in {"requires_contacts", "ready_for_outreach"}
    /\ tailoring.review = "approved"

MaySend ==
    /\ runs[work.run].stage \in {"sending", "delivery_feedback"}
    /\ posting \in SendingStatuses
    /\ AnyApproved

MayCollectFeedback ==
    /\ runs[work.run].stage = "delivery_feedback"
    /\ posting = "completed" /\ tailoring.review = "approved" /\ sent

Actionable ==
    /\ runs[work.run].status \in OpenStatuses
    /\ \/ work.action = "checkpoint" /\ runs[work.run].stage = "lead_handoff"
       \/ work.action = "resume_tailoring" /\ MayTailor
       \/ work.action = "agent_review" /\ MayReview
       \/ work.action = "people_search" /\ MaySearch
       \/ work.action = "email_discovery" /\ MayDiscover
       \/ work.action = "sending" /\ MaySend
       \/ work.action = "delivery_feedback" /\ MayCollectFeedback

MayBootstrap ==
    /\ OpenRuns = {}
    /\ work.stage \in BootstrapStages
    /\ work.stage # "lead_handoff" => AnyApproved

Valid ==
    \/ work.action = "escalate_incident"
    \/ work.action = "bootstrap" /\ MayBootstrap
    \/ work.run # 0 /\ Actionable

ValidationPasses ==
    /\ pc = "validate"
    /\ Valid
    /\ GoTo("execute")
    /\ UNCHANGED <<posts, tailors, runs, reviews, sent, aside>>

\* _record_progression_failure, the incident; then the run is escalated
Blame(verdict) ==
    /\ incidents' = [incidents EXCEPT !["progression"] = "open"]
    /\ result' = verdict
    /\ UNCHANGED <<posts, tailors, runs, packets, sent, work, held, aside>>

\* What the prerequisites ask of data the model does not hold: a shortlist or an
\* e-mail search that can go on now, an original that can be sent again now.  The
\* sender is always there (_default_outreach_sender).
MayBeIdle ==
    \/ work.action \in {"people_search", "email_discovery"} /\ posting = "requires_contacts"
    \/ work.action = "sending" /\ runs[work.run].stage = "delivery_feedback"

ValidationFails ==
    /\ pc = "validate"
    /\ ~Valid \/ MayBeIdle
    /\ pc' = IF work.run = 0 THEN "check" ELSE "escalate"
    /\ Blame("blocked")

(***************************************************************************)
(* _execute_selected_work_unit, one action per outcome of an executor.     *)
(***************************************************************************)
EscalateIncident ==
    /\ Executing("escalate_incident")
    /\ \E i \in IncidentTypes :
           incidents[i] = "open" /\ incidents' = [incidents EXCEPT ![i] = "escalated"]
    /\ GoTo("check")
    /\ UNCHANGED <<posts, tailors, runs, packets, sent, aside>>

\* ensure_role_targeted_pipeline_run: the open run, or a new row
Bootstrap ==
    /\ Executing("bootstrap")
    /\ \/ \E r \in OpenRuns :
              held' = Row(runs[r].status, runs[r].stage) /\ runs' = runs
       \/ /\ OpenRuns = {}
          /\ \E r \in Slots :
                 /\ runs[r].status = "none"
                 /\ \A q \in 1 .. r - 1 : runs[q].status # "none"
                 /\ runs' = WithRun(r, "in_progress", work.stage)
          /\ held' = Row("in_progress", work.stage)
    /\ pc' = "check"
    /\ UNCHANGED <<posts, tailors, reviews, sent, work, result, aside>>

\* bound: the posting has had all its runs
OutOfRuns ==
    /\ Executing("bootstrap")
    /\ \A r \in Slots : runs[r].status # "none"
    /\ Raise

Checkpoint ==
    /\ Executing("checkpoint")
    /\ Outcome(posting, Row("in_progress",
           IF posting = "resume_review_pending" /\ PendingReview
           THEN "agent_review" ELSE "resume_tailoring"))

HardIneligible ==
    /\ Executing("resume_tailoring")
    /\ PostingFirst("hard_ineligible", Row("completed", "hard_ineligible"))

\* no jd.md file or no base resume
TailoringBlocked ==
    /\ Executing("resume_tailoring")
    /\ Outcome(posting, IF posting = "hard_ineligible" THEN Row("completed", "hard_ineligible")
                        ELSE Row("escalated", "resume_tailoring"))

\* bootstrap_tailoring_run: an approved run is kept for a posting past the
\* review; a reviewed one is followed by a new one; any other is reused
StartTailoring ==
    /\ Executing("resume_tailoring")
    /\ \/ /\ \/ posting \in Downstream /\ AnyApproved
             \/ tailoring.status # "none" /\ tailoring.review \notin {"approved", "rejected"}
          /\ UNCHANGED tailors
       \/ /\ ~(posting \in Downstream /\ AnyApproved)
          /\ tailoring.status = "none" \/ tailoring.review \in {"approved", "rejected"}
          /\ tailoring' = [status |-> "in_progress", review |-> "not_ready"]
          /\ approvedBefore' = AnyApproved
    /\ posting' = IF posting \in Downstream THEN posting ELSE "tailoring_in_progress"
    /\ GoTo("finalize")
    /\ UNCHANGED <<jdLinked, runs, reviews, sent, aside>>

\* finalize_tailoring_run writes the latest run after the compilation
FinalizeWith(status, review) ==
    /\ tailoring' = [status |-> status, review |-> review]
    /\ UNCHANGED <<posts, approvedBefore, runs, reviews, sent, work, result, aside>>

FinalizePasses ==
    /\ pc = "finalize"
    /\ FinalizeWith("tailored", "resume_review_pending")
    /\ held' = Row("in_progress", "agent_review")
    /\ pc' = "boundary"

\* paused for one retry, escalated when the retry needs revision too
FinalizeNeedsRevision ==
    /\ pc = "finalize"
    /\ FinalizeWith("needs_revision", "not_ready")
    /\ held' = Row(IF runs[work.run].status = "paused" THEN "escalated" ELSE "paused",
                   "resume_tailoring")
    /\ pc' = "advance"

FinalizeFails ==
    /\ pc = "finalize"
    /\ FinalizeWith("failed", "not_ready")
    /\ held' = Row("escalated", "resume_tailoring")
    /\ pc' = "advance"

\* _set_job_posting_status, whatever the status is by now
ReviewBoundary == pc = "boundary" /\ PostingFirst("resume_review_pending", held)

\* record_tailoring_review_decision and _apply_tailoring_review_outcome; only
\* the cycle decides a pending review, so it is still pending since the validation
Approve ==
    /\ Executing("agent_review")
    /\ PendingReview
    /\ tailoring' = [tailoring EXCEPT !.review = "approved"]
    /\ GoTo("handoff")
    /\ UNCHANGED <<posts, approvedBefore, runs, reviews, sent, aside>>

OutreachHandoff ==
    /\ pc = "handoff"
    /\ \/ PostingFirst("requires_contacts", Row("in_progress", "people_search"))
       \/ PostingFirst("ready_for_outreach", Row("in_progress", "sending"))

\* the retry limit of one run: an incident, then the escalation
RunawaySearch ==
    /\ Executing("people_search")
    /\ incidents' = [incidents EXCEPT !["runaway"] = "open"]
    /\ held' = Row("escalated", "people_search")
    /\ pc' = "advance"
    /\ UNCHANGED <<posts, tailors, runs, packets, sent, work, result, aside>>

\* what the executor reads before it calls the provider
StartSearch ==
    /\ Executing("people_search")
    /\ \/ posting = "ready_for_outreach" /\ Outcome(posting, Row("in_progress", "sending"))
       \/ posting = "requires_contacts" /\ Outcome(posting, Row("in_progress", "people_search"))
       \/ /\ posting = "requires_contacts"
          /\ GoTo("search")
          /\ UNCHANGED <<posts, tailors, runs, reviews, sent, aside>>
       \/ posting \notin {"ready_for_outreach", "requires_contacts"} /\ Raise

\* after the provider: cooldown, contacts ready, contacts without email, none
FinishSearch ==
    /\ pc = "search"
    /\ \/ Outcome(posting, Row("in_progress", "people_search"))
       \/ /\ posting = "requires_contacts"
          /\ \/ PostingFirst("ready_for_outreach", Row("in_progress", "sending"))
             \/ Outcome(posting, Row("in_progress", "email_discovery"))
             \/ Outcome(posting, Row("escalated", "people_search"))
       \/ posting = "ready_for_outreach" /\ Outcome(posting, Row("in_progress", "sending"))
       \/ posting \notin {"ready_for_outreach", "requires_contacts"} /\ Raise

StartDiscovery ==
    /\ Executing("email_discovery")
    /\ \/ posting = "ready_for_outreach" /\ Outcome(posting, Row("in_progress", "sending"))
       \/ /\ posting = "requires_contacts"
          /\ GoTo("discover")
          /\ UNCHANGED <<posts, tailors, runs, reviews, sent, aside>>
       \/ posting \notin {"ready_for_outreach", "requires_contacts"} /\ Raise

\* _promote_ready_for_outreach_if_eligible looks at the status again;
\* _force_requires_contacts and _complete_exhausted_email_discovery overwrite it
FinishDiscovery ==
    /\ pc = "discover"
    /\ \/ /\ posting \in {"requires_contacts", "ready_for_outreach"}
          /\ Outcome("ready_for_outreach", Row("in_progress", "sending"))
       \/ posting # "ready_for_outreach" /\ Outcome(posting, Row("in_progress", "sending"))
       \/ \E to \in {posting, "requires_contacts"} :
              Outcome(to, Row("in_progress", "email_discovery"))
       \/ PostingFirst("completed", AfterSent)

\* stale ready or in-progress postings are reconciled first
StartSending ==
    /\ Executing("sending")
    /\ \/ /\ posting \in {"ready_for_outreach", "outreach_in_progress"}
          /\ Outcome("requires_contacts", Row("in_progress", "email_discovery"))
       \/ posting \in {"ready_for_outreach", "outreach_in_progress"} /\ Outcome("completed", AfterSent)
       \/ /\ posting = "ready_for_outreach"
          /\ PostingFirst("requires_contacts", Row("in_progress", "email_discovery"))
       \/ /\ GoTo(IF posting = "ready_for_outreach" THEN "draft" ELSE "send")
          /\ UNCHANGED <<posts, tailors, runs, reviews, sent, aside>>

\* _promote_posting_into_outreach_in_progress, from the row read before
Draft ==
    /\ pc = "draft"
    /\ posting' \in {"ready_for_outreach", "outreach_in_progress"} \cap {posting, "outreach_in_progress"}
    /\ GoTo("send")
    /\ UNCHANGED <<jdLinked, tailors, runs, reviews, sent, aside>>

\* execute_role_targeted_send_set checks the status before it sends
Send ==
    /\ pc = "send"
    /\ posting \in SendingStatuses
    /\ sent' = TRUE
    /\ GoTo("wave")
    /\ UNCHANGED <<posts, tailors, runs, reviews, aside>>

NoSend ==
    /\ pc = "send"
    /\ posting \in SendingStatuses
    /\ GoTo("wave")
    /\ UNCHANGED <<posts, tailors, runs, reviews, sent, aside>>

\* _complete_posting_if_wave_finished: only "completed" is left alone
FinishWave ==
    /\ pc = "wave"
    /\ posting' \in IF posting = "completed" THEN {posting}
                    ELSE {posting, "requires_contacts", "completed"} \cup
                         (IF posting = "outreach_in_progress" THEN {} ELSE {"ready_for_outreach"})
    /\ GoTo("conclude")
    /\ UNCHANGED <<jdLinked, tailors, runs, reviews, sent, aside>>

\* the status is read before the messages and after the wave; the mailbox is
\* polled before the run is moved by what was read
ConcludeSending ==
    /\ pc \in {"send", "conclude"}
    /\ CASE posting = "completed" -> Later(AfterSent)
         [] posting = "requires_contacts" -> Later(Row("in_progress", "email_discovery"))
         [] posting \in {"ready_for_outreach", "outreach_in_progress"} ->
              Later(Row("in_progress", "sending"))
         [] OTHER -> Raise

\* feedback is pending or a send frontier is left; or every message settled
DeliveryFeedback ==
    /\ Executing("delivery_feedback")
    /\ \/ ~sent /\ Raise
       \/ sent /\ Outcome(posting, Row("in_progress", "delivery_feedback"))
       \/ sent /\ Outcome(posting, Row("completed", "completed"))

Advance == pc = "advance" /\ Outcome(posting, held)

(***************************************************************************)
(* _validate_selected_work_result on the pipeline_run in hand and the      *)
(* posting as it is by now.                                                *)
(***************************************************************************)
ResultOfCheckpoint ==
    held.status = "in_progress" /\ held.stage \in {"agent_review", "resume_tailoring"}

ResultOfTailoring ==
    \/ /\ held = Row("in_progress", "agent_review")
       /\ PendingReview
       /\ posting = "resume_review_pending"
    \/ held = Row("completed", "hard_ineligible")
    \/ held = Row("escalated", "resume_tailoring")
    \/ /\ held = Row("paused", "resume_tailoring")
       /\ tailoring = [status |-> "needs_revision", review |-> "not_ready"]

ResultOfReview ==
    /\ tailoring.review = "approved"
    /\ \/ posting = "requires_contacts" /\ held = Row("in_progress", "people_search")
       \/ posting = "ready_for_outreach" /\ held = Row("in_progress", "sending")

ResultOfSearch ==
    \/ /\ posting = "requires_contacts"
       /\ \/ held = Row("escalated", "people_search")
          \/ held.status = "in_progress" /\ held.stage \in {"people_search", "email_discovery"}
    \/ posting = "ready_for_outreach" /\ held = Row("in_progress", "sending")

ResultOfDiscovery ==
    /\ held.status \in {"in_progress", "escalated", "completed"}
    /\ \/ held.stage = "email_discovery"
       \/ held = Row("in_progress", "sending")
       \/ held.status # "escalated" /\ held.stage \in {"delivery_feedback", "completed"}
    /\ \/ posting = "requires_contacts" /\ held.stage = "email_discovery"
       \/ posting = "ready_for_outreach" /\ held = Row("in_progress", "sending")
       \/ posting = "completed" /\ held.stage \in {"delivery_feedback", "completed"}

ResultOfSending ==
    \/ /\ posting \in {"ready_for_outreach", "outreach_in_progress"}
       /\ held = Row("in_progress", "sending")
    \/ posting = "requires_contacts" /\ held = Row("in_progress", "email_discovery")
    \/ posting = "completed" /\ ~sent /\ held.status = "completed"
    \/ posting = "completed" /\ sent /\ held = Row("in_progress", "delivery_feedback")

ResultOfFeedback ==
    /\ posting = "completed" /\ sent
    /\ held \in {Row("in_progress", "delivery_feedback"), Row("completed", "completed")}

ResultOk ==
    \/ work.action = "escalate_incident"
    \/ work.action = "bootstrap" /\ held.stage = work.stage
    \/ work.action = "checkpoint" /\ ResultOfCheckpoint
    \/ work.action = "resume_tailoring" /\ ResultOfTailoring
    \/ work.action = "agent_review" /\ ResultOfReview
    \/ work.action = "people_search" /\ ResultOfSearch
    \/ work.action = "email_discovery" /\ ResultOfDiscovery
    \/ work.action = "sending" /\ ResultOfSending
    \/ work.action = "delivery_feedback" /\ ResultOfFeedback

\* What the validators ask of data the model does not hold: a
\* people_search_result, discovery_result or send_result artifact and a message were
\* ever written; no feedback has come in and no follow-up gone out since the executor
\* looked (the workers for both are other processes).
MayBeRejected ==
    \/ work.action = "people_search" /\ result = "blocked"
    \/ /\ work.action = "email_discovery"
       /\ posting = "requires_contacts" /\ held.status # "escalated"
    \/ work.action = "sending" /\ posting \in {"outreach_in_progress", "completed"}
    \/ work.action = "delivery_feedback"

Accept ==
    /\ pc = "check"
    /\ ResultOk
    /\ result' = "success"
    /\ pc' = "packet"
    /\ UNCHANGED <<posts, tailors, runs, reviews, sent, work, held, aside>>

Reject ==
    /\ pc = "check"
    /\ ~ResultOk \/ MayBeRejected
    /\ pc' = IF work.run = 0 THEN "finish" ELSE "escalate"
    /\ Blame("failed")

\* _record_progression_failure: a run that is not terminal yet is escalated
EscalateRun ==
    /\ pc = "escalate"
    /\ IF work.run \in OpenRuns
       THEN /\ runs' = WithRun(work.run, "escalated", runs[work.run].stage)
            /\ held' = Row("escalated", runs[work.run].stage)
       ELSE /\ runs' = runs
            /\ held' = Row(runs[work.run].status, runs[work.run].stage)
    /\ pc' = "packet"
    /\ UNCHANGED <<posts, tailors, reviews, sent, work, result, aside>>

\* After a failed prerequisite the result of the action is validated too.
AfterPacket == IF result = "blocked" THEN "check" ELSE "finish"

\* generate_expert_review_packet: the row, then the run's review_packet_status
InsertPacket ==
    /\ pc = "packet"
    /\ work.run # 0 /\ PacketDue
    /\ packets' = Inserted(work.run)
    /\ GoTo("mark")
    /\ UNCHANGED <<posts, tailors, runs, incidents, sent, aside>>

NoPacketDue ==
    /\ pc = "packet"
    /\ ~(work.run # 0 /\ PacketDue)
    /\ GoTo(AfterPacket)
    /\ UNCHANGED <<posts, tailors, runs, reviews, sent, aside>>

MarkRun ==
    /\ pc = "mark"
    /\ \/ /\ runs[work.run].packet # "reviewed"
          /\ runs' = [runs EXCEPT ![work.run].packet = "pending_expert_review"]
          /\ GoTo(AfterPacket)
          /\ UNCHANGED <<posts, tailors, reviews, sent, aside>>
       \/ runs[work.run].packet = "reviewed" /\ Raise

Finish == pc = "finish" /\ Raise

(***************************************************************************)
(* The operator: abandon_job_posting, close_review_item,                   *)
(* record_tailoring_review_override.                                       *)
(***************************************************************************)
Hold(step, rs, to) == op' = [step |-> step, runs |-> rs, to |-> to]

Release == op' = NoCommand

UnchangedByOperator == UNCHANGED <<jdLinked, incidents, sent, cycle, interruptions>>

ReadAbandon ==
    /\ op.step = "none"
    /\ posting \in Abandonable \cup {"abandoned"}
    /\ Hold(IF posting = "abandoned" THEN "retire" ELSE "abandon", OpenRuns, "none")
    /\ UNCHANGED <<posting, tailors, runs, packets, overridden>> /\ UnchangedByOperator

AbandonPosting ==
    /\ op.step = "abandon"
    /\ posting' = "abandoned"
    /\ Hold("retire", op.runs, "none")
    /\ UNCHANGED <<tailors, runs, packets, overridden>> /\ UnchangedByOperator

RetireRun ==
    /\ op.step = "retire"
    /\ \/ op.runs = {} /\ runs' = runs /\ Release
       \/ \E r \in op.runs :
              IF MayBecome(runs[r].status, "completed")
              THEN /\ runs' = WithRun(r, "completed", "abandoned")
                   /\ Hold("retire", op.runs \ {r}, "none")
              ELSE runs' = runs /\ Release
    /\ UNCHANGED <<posting, tailors, packets, overridden>> /\ UnchangedByOperator

\* the first commit is in record_override_event
CloseReview ==
    /\ op.step = "none"
    /\ posting \in Abandonable
    /\ \E r \in Slots :
           /\ packets[r] # "none"
           /\ runs[r].status = "escalated"
           /\ Hold("decide", {r}, "none")
    /\ posting' = "closed_by_user"
    /\ UNCHANGED <<tailors, runs, packets, overridden>> /\ UnchangedByOperator

\* record_expert_review_followup_decision
DecideReview ==
    /\ op.step = "decide"
    /\ \E r \in op.runs :
           /\ packets' = [packets EXCEPT ![r] = "reviewed"]
           /\ Hold(IF packets[r] = "reviewed" THEN "complete" ELSE "mark", op.runs, "none")
    /\ UNCHANGED <<posting, tailors, runs, overridden>> /\ UnchangedByOperator

MarkReviewed ==
    /\ op.step = "mark"
    /\ \E r \in op.runs :
           IF runs[r].packet = "not_ready"
           THEN runs' = runs /\ Release
           ELSE /\ runs' = [runs EXCEPT ![r].packet = "reviewed"]
                /\ Hold("complete", op.runs, "none")
    /\ UNCHANGED <<posting, tailors, packets, overridden>> /\ UnchangedByOperator

CompleteReviewed ==
    /\ op.step = "complete"
    /\ \E r \in op.runs :
           IF MayBecome(runs[r].status, "completed")
           THEN runs' = WithRun(r, "completed", "completed")
           ELSE runs' = runs
    /\ Release
    /\ UNCHANGED <<posting, tailors, packets, overridden>> /\ UnchangedByOperator

\* the decision first, then the posting unless it had that status before
OverrideReview ==
    /\ op.step = "none"
    /\ tailoring.status = "tailored"
    /\ \E to \in {"requires_contacts", "ready_for_outreach", "tailoring_in_progress"} :
           /\ \/ tailoring.review = "approved" /\ to = "tailoring_in_progress"
              \/ tailoring.review = "rejected" /\ to # "tailoring_in_progress"
           /\ Hold("override", {}, IF posting = to THEN "none" ELSE to)
    /\ tailoring' = [tailoring EXCEPT
                         !.review = IF @ = "approved" THEN "rejected" ELSE "approved"]
    /\ overridden' = (pc # "idle")
    /\ UNCHANGED <<posting, approvedBefore, runs, packets>> /\ UnchangedByOperator

ApplyOverride ==
    /\ op.step = "override"
    /\ posting' = IF op.to = "none" THEN posting ELSE op.to
    /\ Release
    /\ UNCHANGED <<tailors, runs, packets, overridden>> /\ UnchangedByOperator

(***************************************************************************)
(* A killed process, or an exception from a provider, a file, the network. *)
(***************************************************************************)
InterruptCycle ==
    /\ pc # "idle"
    /\ interruptions < MaxInterruptions
    /\ interruptions' = interruptions + 1
    /\ EndCycle
    /\ UNCHANGED <<posts, tailors, runs, reviews, sent, op>>

InterruptCommand ==
    /\ op.step # "none"
    /\ interruptions < MaxInterruptions
    /\ interruptions' = interruptions + 1
    /\ Release
    /\ UNCHANGED <<posts, tailors, runs, reviews, sent, cycle, overridden>>

-----------------------------------------------------------------------------
Tailor == HardIneligible \/ TailoringBlocked \/ StartTailoring \/ FinalizePasses
            \/ FinalizeNeedsRevision \/ FinalizeFails \/ ReviewBoundary
Review == Approve \/ OutreachHandoff
Discover == RunawaySearch \/ StartSearch \/ FinishSearch \/ StartDiscovery \/ FinishDiscovery
SendOut == StartSending \/ Draft \/ Send \/ NoSend \/ FinishWave \/ ConcludeSending
             \/ DeliveryFeedback
Execute == EscalateIncident \/ Bootstrap \/ OutOfRuns \/ Checkpoint \/ Tailor \/ Review
             \/ Discover \/ SendOut \/ Advance

Proceed == RetireStale \/ Suppress \/ SelectIncident \/ SelectRun \/ SelectPosting
             \/ NothingHere \/ ValidationPasses \/ ValidationFails \/ Execute
             \/ Accept \/ Reject \/ EscalateRun \/ InsertPacket \/ NoPacketDue \/ MarkRun
             \/ Finish

Operate == ReadAbandon \/ AbandonPosting \/ RetireRun \/ CloseReview \/ DecideReview
             \/ MarkReviewed \/ CompleteReviewed \/ OverrideReview \/ ApplyOverride

Next == Begin \/ Proceed \/ Operate \/ InterruptCycle \/ InterruptCommand

Spec == Init /\ [][Next]_vars

\* A started cycle goes on; nothing forces one to start or an operator to act.
FairSpec == Spec /\ WF_vars(Proceed)

-----------------------------------------------------------------------------
Steps == {"idle", "retire", "select", "validate", "execute", "finalize", "boundary",
          "handoff", "search", "discover", "draft", "send", "wave", "conclude",
          "advance", "check", "escalate", "packet", "mark", "finish"}

\* The shape of every variable.
TypeOK ==
    /\ posting \in PostingStatuses
    /\ jdLinked \in BOOLEAN
    /\ tailoring \in [status : {"none", "in_progress", "tailored", "needs_revision", "failed"},
                      review : {"not_ready", "resume_review_pending", "approved", "rejected"}]
    /\ approvedBefore \in BOOLEAN
    /\ runs \in [Slots -> [status : RunStatuses, stage : Stages,
                           packet : {"not_ready", "pending_expert_review", "reviewed"}]]
    /\ packets \in [Slots -> PacketStatuses]
    /\ incidents \in [IncidentTypes -> {"none", "open", "escalated"}]
    /\ sent \in BOOLEAN
    /\ pc \in Steps
    /\ work \in [action : Actions, run : Slots \cup {0}, stage : Stages]
    /\ held \in [status : RunStatuses, stage : Stages]
    /\ result \in {"none", "blocked", "failed", "success"}
    /\ op \in [step : {"none", "abandon", "retire", "decide", "mark", "complete", "override"},
               runs : SUBSET Slots, to : PostingStatuses \cup {"none"}]
    /\ overridden \in BOOLEAN
    /\ interruptions \in 0 .. MaxInterruptions

\* A posting never has two pipeline runs that are not terminal, however
\* selection, orphan recovery, quarantine and operator commands interleave:
\* get_open_pipeline_run_for_posting raises on a second one, and no unique
\* index guards the table.
OneOpenRun == Cardinality({r \in Slots : runs[r].status \in OpenStatuses}) <= 1

\* A terminal run is not revived by a cycle that still holds an older copy of
\* it: completed and failed runs keep their status, and an escalated run is
\* only ever completed (by the expert), although the transition table would
\* let it go back to in_progress.
TerminalRunsStay ==
    [][\A r \in Slots :
           /\ runs[r].status \in {"completed", "failed"} => runs'[r].status = runs[r].status
           /\ runs[r].status = "escalated" => runs'[r].status \in {"escalated", "completed"}]_vars

\* No message leaves for a posting whose newest tailoring run is not approved,
\* although the sending prerequisites accept any earlier approved run: the
\* quarantine at the start of the cycle sees to it, unless the owner overrides
\* the review while the cycle runs.
SendsApproved ==
    [][pc = "send" /\ pc' = "wave" => tailoring.review = "approved" \/ overridden]_vars

\* A run's review_packet_status never runs ahead of the packet row that the
\* expert opens, whichever of the two transactions of the supervisor and of
\* the expert's decision are cut off.
ReviewStatusHasPacket ==
    \A r \in Slots :
        /\ runs[r].packet = "pending_expert_review" => packets[r] # "none"
        /\ runs[r].packet = "reviewed" => packets[r] = "reviewed"

\* Without a crash, every escalated run is put before the expert: its packet
\* is written in the cycle that escalates it, also when that cycle's result
\* is rejected afterwards.
EscalationReachesExpert ==
    \A r \in Slots :
        runs[r].status = "escalated"
            ~> packets[r] # "none" \/ runs[r].status = "completed" \/ interruptions > 0

\* What the requirements ask of a cycle: an action whose prerequisites failed,
\* and whose expected state change therefore never happened, is not recorded
\* as a success (violated: the result validators run all the same).
BlockedIsNotSuccess == [][result = "blocked" => result' # "success"]_vars

\* What the requirements ask of abandoning: the posting is terminal until the
\* owner overrides it (violated: the cycle in flight writes over it).
AbandonedStays ==
    [][posting = "abandoned" => posting' = "abandoned" \/ op.step = "override"]_vars
=============================================================================
