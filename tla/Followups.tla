------------------------------ MODULE Followups ------------------------------
(***************************************************************************)
(* The follow-up worker (run_followup_cycle), a process of its own: it     *)
(* plans the next follow-up of every sent original, looks at each plan     *)
(* that is due, checks the mail thread before drafting and again before    *)
(* sending, and sends at most one follow-up in the thread of the original. *)
(*                                                                         *)
(* plan[c] is the row of sequence followed[c] + 1; rows of earlier         *)
(* sequences are sent.  One cycle runs at a time; its time is frozen when  *)
(* it begins.  Plans are visited in any order (the code: oldest first).    *)
(* "held_auto_send_disabled" is held_for_review for that reason, and       *)
(* "archived" is skipped because the owner archived the posting.           *)
(***************************************************************************)
EXTENDS OutreachSending

VARIABLE fw \* the cycle: step, contact at hand, plans left, dry run, auto-send read

FwIdle == [pc |-> "idle", c |-> Wave[1], todo |-> {}, dry |-> FALSE, auto |-> FALSE]

FwAt(pc) == fw.pc = pc
FwGoto(pc) == [fw EXCEPT !.pc = pc]

unfollowed == <<originals, outbox, mail, clock>>

\* Faulty variants: never used by the specification.
FaultyInspect(c) == IF mail[c] # {} THEN "answered" ELSE "clear"
FaultyUnanswered(c) ==
    IF Len(thread[c]) > followed[c] THEN "already_followed_up" ELSE "clear"
FaultyMayFollow ==
    SelectedQueue(hour, posting # "completed" /\ OriginalSendable("followup"),
                  fw.auto) = "followup"
FaultyCounted == [rollout EXCEPT !.paused = rollout.count + 1 >= RolloutCap]
FaultySequence(c) == followed[c] + 2

WithPlan(c, p) == [plan EXCEPT ![c] = p]
Marked(c, status) == WithPlan(c, [plan[c] EXCEPT !.status = status])

\* _determine_next_sequence
NextSequence(c) == followed[c] + 1

\* _reopen_pre_cutover_archive_skips
Reopened(p) ==
    IF p.status = "archived" THEN [NoPlan EXCEPT !.status = "pending"] ELSE p

\* _materialize_candidate_plans: the next sequence once all before are sent
Materialized(c) ==
    IF msg[c] # "sent" THEN plan[c]
    ELSE IF plan[c].status = "none" /\ followed[c] < MaxSequence
         THEN [NoPlan EXCEPT !.status = "pending"] ELSE Reopened(plan[c])

\* _release_auto_send_disabled_holds
Released(p) ==
    IF p.status = "held_auto_send_disabled" /\ AutoSendAvailable(rollout, RolloutCap)
    THEN [p EXCEPT !.status = "pending"] ELSE p

\* _evaluate_candidate_stop_conditions, what the feedback events decide
StopReason(c) == IF <<c, 0, "bounced">> \in events THEN "bounced" ELSE "none"

\* GmailThreadInspector.inspect_thread: a reply or a bounce in the thread, or more
\* follow-ups than the database knows of
Inspect(c) ==
    IF mail[c] # {} THEN "answered"
    ELSE IF Len(thread[c]) > followed[c] THEN "already_followed_up"
    ELSE "clear"

\* _load_cached_followup_render finds no reusable draft
NeedsDraft(c) == plan[c].draft # "fresh"

\* _evaluate_global_pacing and the shared lane let the follow-up through
MayFollow ==
    /\ clear["followup"]
    /\ SelectedQueue(hour,
                     /\ posting \in {"ready_for_outreach", "outreach_in_progress"}
                     /\ OriginalSendable("followup"),
                     fw.auto) = "followup"

\* _increment_initial_rollout_count
Counted ==
    [rollout EXCEPT !.count = @ + 1,
                    !.paused = @ \/ (~rollout.approved /\ rollout.count + 1 >= RolloutCap)]

-----------------------------------------------------------------------------
StartFollowups(dry) ==
    /\ FwAt("idle")
    /\ LET ready == [c \in Contacts |-> Released(Materialized(c))]
       IN  /\ plan' = ready
           /\ resting' = {c \in resting : plan[c].status = "archived" => ready[c] = plan[c]}
           /\ fw' = [pc |-> "scan", c |-> Wave[1], dry |-> dry,
                     todo |-> {c \in Contacts : /\ ready[c].status \in Loadable
                                                /\ c \notin resting'
                                                /\ phase[c] = "due"},
                     auto |-> AutoSendAvailable(rollout, RolloutCap)]
    /\ Freeze("followup")
    /\ UNCHANGED <<snd, unfollowed, followed, rollout, events, thread, paced, inFlight, gap,
                   history>>

\* A plan is settled or put off without a draft; the loop continues.
Pass(c, p) ==
    /\ plan' = WithPlan(c, p)
    /\ fw' = [fw EXCEPT !.pc = "scan", !.todo = @ \ {c}, !.c = Wave[1]]

\* Stop conditions and the thread check before drafting rule the plan out.
RuleOut(c) ==
    /\ FwAt("scan") /\ c \in fw.todo
    /\ StopReason(c) # "none" \/ Inspect(c) # "clear"
    /\ Pass(c, [plan[c] EXCEPT !.status = "skipped"])
    /\ UNCHANGED <<snd, unfollowed, followed, rollout, resting, events, thread, pacing,
                   history>>

\* The plan is clear to be drafted, or its fresh draft to be used again.
TakeUp(c) ==
    /\ FwAt("scan") /\ c \in fw.todo
    /\ StopReason(c) = "none" /\ Inspect(c) = "clear"
    /\ fw' = [fw EXCEPT !.c = c, !.pc = IF NeedsDraft(c) THEN "drafting" ELSE "deciding"]
    /\ UNCHANGED <<snd, store>>

\* _schedule_retry: the thread cannot be read now, before or after drafting
ThreadCheckFails(c) ==
    /\ \/ FwAt("scan") /\ c \in fw.todo /\ StopReason(c) = "none"
       \/ FwAt("deciding") /\ c = fw.c /\ ~fw.dry /\ fw.auto
    /\ Trouble
    /\ LET again == plan[c].retries + 1 <= MaxRetries
       IN  /\ Pass(c, [plan[c] EXCEPT !.retries = @ + 1,
                                      !.status = IF again THEN "retryable" ELSE "blocked"])
           /\ resting' = IF again THEN resting \cup {c} ELSE resting
    /\ UNCHANGED <<snd, unfollowed, followed, rollout, events, thread, pacing, lost>>

\* _run_followup_codex_payload gives no draft
DraftingFails == FwAt("drafting") /\ Trouble

FollowupDrafted ==
    /\ FwAt("drafting")
    /\ plan' = WithPlan(fw.c, [plan[fw.c] EXCEPT !.draft = "fresh"])
    /\ fw' = FwGoto("deciding")
    /\ UNCHANGED <<snd, unfollowed, followed, rollout, resting, events, thread, pacing,
                   history>>

\* _handle_draft_failure: tried again in the next cycle, at last held
FollowupDraftFails ==
    /\ DraftingFails
    /\ LET again == plan[fw.c].retries + 1 < DraftLimit
       IN  Pass(fw.c, IF again THEN [plan[fw.c] EXCEPT !.status = "retryable",
                                                       !.retries = @ + 1]
                      ELSE [plan[fw.c] EXCEPT !.status = "held_for_review"])
    /\ UNCHANGED <<snd, unfollowed, followed, rollout, resting, events, thread, pacing,
                   lost>>

\* _pause_followup_auto_send_for_codex_outage ends the cycle
DraftingOutage ==
    /\ DraftingFails
    /\ rollout' = [rollout EXCEPT !.paused = TRUE]
    /\ fw' = FwIdle
    /\ Unfreeze("followup")
    /\ UNCHANGED <<snd, unfollowed, plan, followed, resting, events, thread, paced,
                   inFlight, gap, lost>>

-----------------------------------------------------------------------------
\* A dry run, or automatic sending not available: the draft waits for review.
HoldDraft ==
    /\ FwAt("deciding") /\ (fw.dry \/ ~fw.auto)
    /\ Pass(fw.c, [plan[fw.c] EXCEPT !.status = IF fw.dry THEN "dry_run_ready"
                                                ELSE "held_auto_send_disabled"])
    /\ UNCHANGED <<snd, unfollowed, followed, rollout, resting, events, thread, pacing,
                   history>>

\* The thread check before sending finds an answer or a follow-up.
Withdraw ==
    /\ FwAt("deciding") /\ ~fw.dry /\ fw.auto
    /\ Inspect(fw.c) # "clear"
    /\ Pass(fw.c, [plan[fw.c] EXCEPT !.status = "skipped"])
    /\ UNCHANGED <<snd, unfollowed, followed, rollout, resting, events, thread, pacing,
                   history>>

WaitForTurn ==
    /\ FwAt("deciding") /\ ~fw.dry /\ fw.auto
    /\ Inspect(fw.c) = "clear" /\ ~MayFollow
    /\ Pass(fw.c, [plan[fw.c] EXCEPT !.status = "waiting_for_pacing"])
    /\ UNCHANGED <<snd, unfollowed, followed, rollout, resting, events, thread, pacing,
                   history>>

\* Every check passed: the plan is marked agent_reviewed before the call.
CommitToSend ==
    /\ FwAt("deciding") /\ ~fw.dry /\ fw.auto
    /\ Inspect(fw.c) = "clear" /\ MayFollow
    /\ plan' = Marked(fw.c, "agent_reviewed")
    /\ fw' = FwGoto("calling")
    /\ PassCheck("followup")
    /\ UNCHANGED <<snd, unfollowed, followed, rollout, resting, events, thread, history>>

\* Gmail appends the follow-up to the thread; its answer is still on the way.
ThreadGrows ==
    /\ FwAt("calling")
    /\ thread' = [thread EXCEPT ![fw.c] = Append(@, NextSequence(fw.c))]
    /\ fw' = FwGoto("accepted")
    /\ Accept
    /\ UNCHANGED <<snd, unfollowed, plans, events, paced, clear, inFlight, history>>

\* _handle_failed_send: refused, or accepted and the answer lost
FollowupFails(accepted) ==
    /\ FwAt(IF accepted THEN "accepted" ELSE "calling") /\ Trouble
    /\ Miscount(accepted)
    /\ LET again == plan[fw.c].retries + 1 <= MaxRetries
       IN  /\ Pass(fw.c, IF again THEN [plan[fw.c] EXCEPT !.status = "retryable",
                                                          !.retries = @ + 1]
                         ELSE [plan[fw.c] EXCEPT !.status = "blocked"])
           /\ resting' = IF again THEN resting \cup {fw.c} ELSE resting
    /\ Unstamped("followup", accepted)
    /\ UNCHANGED <<snd, unfollowed, followed, rollout, events, thread, clear>>

\* Accepted without a message id.
FollowupAmbiguous ==
    /\ FwAt("accepted") /\ Trouble
    /\ Miscount(TRUE)
    /\ Pass(fw.c, [plan[fw.c] EXCEPT !.status = "ambiguous"])
    /\ Unstamped("followup", TRUE)
    /\ UNCHANGED <<snd, unfollowed, followed, rollout, resting, events, thread, clear>>

\* _persist_successful_followup_send, one transaction; without internalDate the
\* recorded sent_at is the frozen time, and the cycle may be older than the gap
RecordFollowup(backdated) ==
    /\ FwAt("accepted")
    /\ followed' = [followed EXCEPT ![fw.c] = @ + 1]
    /\ plan' = WithPlan(fw.c, NoPlan)
    /\ phase' = [phase EXCEPT ![fw.c] = "fresh"]
    /\ today' = today + 1
    /\ fw' = FwGoto("counting")
    /\ Stamp("followup", backdated)
    /\ UNCHANGED <<snd, posting, link, msg, result, attempts, cooling, aged, outbox, mail,
                   hour, rollout, resting, events, thread, history>>

\* The rollout count is another transaction; then the cycle ends.
CountRollout ==
    /\ FwAt("counting")
    /\ rollout' = Counted
    /\ fw' = FwIdle
    /\ UNCHANGED <<snd, unfollowed, plan, followed, resting, events, thread, pacing, history>>

FollowupsDone ==
    /\ FwAt("scan") /\ fw.todo = {}
    /\ fw' = FwIdle
    /\ Unfreeze("followup")
    /\ UNCHANGED <<snd, unfollowed, plans, events, thread, paced, inFlight, gap, history>>

FollowupsDie ==
    /\ ~FwAt("idle") /\ Trouble
    /\ Miscount(fw.pc \in {"accepted", "counting"})
    /\ fw' = FwIdle
    /\ Unstamped("followup", FwAt("accepted")) /\ Unfreeze("followup")
    /\ UNCHANGED <<snd, unfollowed, plans, events, thread>>

FollowupsNext ==
    \/ \E dry \in BOOLEAN : StartFollowups(dry)
    \/ \E c \in Contacts : RuleOut(c) \/ TakeUp(c) \/ ThreadCheckFails(c)
    \/ FollowupDrafted \/ FollowupDraftFails \/ DraftingOutage
    \/ HoldDraft \/ Withdraw \/ WaitForTurn \/ CommitToSend
    \/ ThreadGrows
    \/ \E accepted \in BOOLEAN : FollowupFails(accepted)
    \/ FollowupAmbiguous
    \/ \E backdated \in BOOLEAN : RecordFollowup(backdated)
    \/ CountRollout \/ FollowupsDone \/ FollowupsDie

FollowupsTypeOK ==
    fw \in [pc : {"idle", "scan", "drafting", "deciding", "calling", "accepted", "counting"},
            c : Contacts, todo : SUBSET Contacts, dry : BOOLEAN, auto : BOOLEAN]

=============================================================================
