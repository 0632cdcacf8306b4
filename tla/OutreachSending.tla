--------------------------- MODULE OutreachSending ---------------------------
(***************************************************************************)
(* The sending action of the supervisor for one posting: reconcile a stale *)
(* send stage, draft the ready contacts, refresh drafts grown old, walk    *)
(* the wave in priority order and send at most one original.               *)
(*                                                                         *)
(* Each action is one transaction, one renderer call or one half of a call *)
(* to the provider; the process may die between any two.  The provider may *)
(* refuse, fail for a moment, or accept and have its answer lost.  Every   *)
(* contact has a usable e-mail address here (EmailDiscovery finds them)    *)
(* and one message, so the remaining send guardrails never fire.           *)
(***************************************************************************)
EXTENDS MessageStore

VARIABLE snd \* the sending cycle: step, contact, the contacts it loaded to draft or
             \* to send, and those of them it has passed

SndIdle == [pc |-> "idle", c |-> Wave[1], wave |-> {}, passed |-> {}]

SndSteps == {"idle", "drafting", "rendering", "refreshing", "rewriting", "wave", "calling",
             "accepted", "observing"}

At(pc) == snd.pc = pc
Goto(pc) == [snd EXCEPT !.pc = pc]

unsent == <<plans, outbox, thread, mail, hour>>

\* Faulty variants: never used by the specification.
FaultyPending(c) == msg[c] = "generated"
FaultyRetryable(c) == result[c] = "transient"

\* the wave: _load_active_role_targeted_wave
InWave(m, l) == {c \in Contacts : l[c] # "shortlisted" /\ m[c] # "none"}

\* evaluate_role_targeted_send_set: contacts an automatic wave may still select
Selected(l) == {c \in Contacts : l[c] = "shortlisted"}

\* _evaluate_retryable_blocked_send_state
Retryable(c) == msg[c] = "blocked" /\ result[c] = "transient"
Exhausted(c) == attempts[c] - 1 >= MaxRetries

\* what _find_next_send_frontier_message and the loop of
\* execute_role_targeted_send_set skip is not pending
Pending(c) == msg[c] = "generated" \/ Retryable(c)

Waiting == {c \in InWave(msg, link) : Pending(c)}

\* the first of some contacts in send priority (_active_wave_sort_key)
FirstOf(cs) ==
    LET places == {i \in Positions : Wave[i] \in cs}
    IN  {Wave[i] : i \in {j \in places : \A k \in places : j <= k}}

Frontier == FirstOf(Waiting)

\* what the running cycle loaded and has not come to: nobody tells it of changes
Ahead == snd.wave \ snd.passed

\* _build_role_targeted_send_pacing_plan at the frozen time of the cycle of q
PacingAllowed(q) == clear[q] /\ today < DailyCap

RetryDue(c) == result[c] = "transient" => ~Exhausted(c) /\ c \notin cooling

\* has_role_targeted_sendable_frontier_now
OriginalSendable(q) ==
    \E c \in Frontier : RetryDue(c) /\ c \notin aged /\ PacingAllowed(q)

\* the loop of execute_role_targeted_send_set reaches sender.send for c
MaySend(c) ==
    /\ RetryDue(c)
    /\ PacingAllowed("original")
    /\ SelectedQueue(hour, TRUE, FollowupQueueReady) = "original"

\* _complete_posting_if_wave_finished, given the new messages and links
WaveFinished(m, l) ==
    InWave(m, l) # {} /\ \A c \in InWave(m, l) : m[c] \in {"sent", "blocked"}

AfterWave(m, l) ==
    IF ~WaveFinished(m, l) THEN posting
    ELSE IF Selected(l) = {} THEN "completed"
    ELSE IF posting \in {"outreach_in_progress", "completed"} THEN posting
    ELSE "ready_for_outreach"

\* _reconcile_stale_role_targeted_sending_reconciliation
Reconciled ==
    IF posting = "completed" \/ Frontier # {} THEN posting
    ELSE IF Selected(link) # {} THEN "ready_for_outreach" ELSE "completed"

-----------------------------------------------------------------------------
\* execute_role_targeted_sending_action begins
StartSending ==
    /\ At("idle") /\ posting \in SendingStatuses
    /\ posting = "completed" => Frontier # {}
    /\ posting' = Reconciled
    /\ snd' = IF posting' = "ready_for_outreach"
              THEN [SndIdle EXCEPT !.pc = "drafting", !.wave = Selected(link)]
              ELSE [SndIdle EXCEPT !.pc = "refreshing"]
    /\ Freeze("original")
    /\ UNCHANGED <<link, msg, result, attempts, today, cooling, aged, unsent, events,
                   phase, paced, inFlight, gap, history>>

\* One contact of generate_role_targeted_send_set_drafts: the posting, with the
\* first, and the contact are promoted before the draft is rendered.
PromoteContact(c) ==
    /\ At("drafting") /\ c \in Ahead
    /\ posting' = IF snd.passed = {} THEN "outreach_in_progress" ELSE posting
    /\ link' = [link EXCEPT ![c] = "outreach_in_progress"]
    /\ snd' = [snd EXCEPT !.pc = "rendering", !.c = c]
    /\ UNCHANGED <<msg, result, attempts, today, cooling, aged, unsent, events, phase,
                   pacing, history>>

\* _persist_rendered_draft, _persist_failed_draft_attempt
StoreDraft(status) ==
    /\ At("rendering")
    /\ msg' = [msg EXCEPT ![snd.c] = status]
    /\ result' = [result EXCEPT ![snd.c] = status]
    /\ snd' = [snd EXCEPT !.pc = "drafting", !.passed = @ \cup {snd.c}]
    /\ UNCHANGED <<posting, link, attempts, today, cooling, aged, unsent, events, phase,
                   pacing, lost>>

\* _run_codex_structured_payload gives no draft: an outage, or text that fails the checks
RendererFails == Trouble

DraftRendered == StoreDraft("generated") /\ UNCHANGED troubles
DraftFails == StoreDraft("failed") /\ RendererFails

DraftsDone ==
    /\ At("drafting") /\ Ahead = {}
    /\ snd' = [SndIdle EXCEPT !.pc = "refreshing"]
    /\ UNCHANGED store

\* _generated_message_requires_refresh, for the messages of the frontier
Stale == IF posting \in SendingStatuses THEN Frontier \cap aged ELSE {}

\* refresh_role_targeted_generated_drafts(stale_only) loads the frontier's draft,
\* has it rendered anew and writes it back, whatever became of the message
LoadStale(c) ==
    /\ At("refreshing") /\ c \in Stale
    /\ snd' = [snd EXCEPT !.pc = "rewriting", !.c = c]
    /\ UNCHANGED store

RefreshDraft ==
    /\ At("rewriting")
    /\ result' = [result EXCEPT ![snd.c] = "generated"]
    /\ aged' = aged \ {snd.c}
    /\ snd' = [SndIdle EXCEPT !.pc = "refreshing"]
    /\ UNCHANGED <<posting, link, msg, attempts, today, cooling, unsent, events, phase,
                   pacing, history>>

\* _persist_blocked_send: the message cannot be sent and is not retried
Block(c, l) ==
    /\ msg' = [msg EXCEPT ![c] = "blocked"]
    /\ result' = [result EXCEPT ![c] = "blocked"]
    /\ attempts' = [attempts EXCEPT ![c] = @ + 1]
    /\ link' = l
    /\ posting' = AfterWave(msg', l)
    /\ aged' = aged \ {c}
    /\ UNCHANGED <<today, cooling, unsent, events, phase>>

RefreshFails ==
    /\ At("rewriting")
    /\ RendererFails
    /\ Block(snd.c, link)
    /\ snd' = [SndIdle EXCEPT !.pc = "refreshing"]
    /\ UNCHANGED <<pacing, lost>>

\* is_role_targeted_sending_actionable_now, then execute_role_targeted_send_set
\* loads the wave once
BeginWave ==
    /\ At("refreshing") /\ Stale = {}
    /\ IF posting \in SendingStatuses /\ OriginalSendable("original")
       THEN snd' = [snd EXCEPT !.pc = "wave", !.wave = Waiting] /\ UNCHANGED clear
       ELSE snd' = SndIdle /\ Unfreeze("original")
    /\ UNCHANGED <<originals, unsent, events, phase, paced, inFlight, gap, history>>

\* The loop comes to the next message and every check lets it through.
Visit(c) ==
    /\ At("wave") /\ c \in FirstOf(Ahead)
    /\ MaySend(c)
    /\ snd' = [snd EXCEPT !.pc = "calling", !.c = c]
    /\ PassCheck("original")
    /\ UNCHANGED <<originals, unsent, events, phase, history>>

\* The loop ends: nothing is left or the next message has to wait.
EndWave ==
    /\ At("wave")
    /\ \A c \in FirstOf(Ahead) : ~MaySend(c)
    /\ snd' = SndIdle
    /\ Unfreeze("original")
    /\ UNCHANGED <<originals, unsent, events, phase, paced, inFlight, gap, history>>

-----------------------------------------------------------------------------
\* Gmail accepts the original; its answer is still on the way.
ProviderAccepts ==
    /\ At("calling")
    /\ outbox' = [outbox EXCEPT ![snd.c] = @ + 1]
    /\ snd' = Goto("accepted")
    /\ Accept
    /\ UNCHANGED <<originals, plans, thread, mail, hour, events, phase, paced, clear, inFlight,
                   history>>

\* _persist_failed_send_attempt: refused for good, or accepted and the answer lost
\* with an error that is not taken for transient; the loop goes on
Rejected(accepted) ==
    /\ At(IF accepted THEN "accepted" ELSE "calling") /\ Trouble
    /\ Doubt(snd.c, accepted)
    /\ msg' = [msg EXCEPT ![snd.c] = "failed"]
    /\ result' = [result EXCEPT ![snd.c] = "failed"]
    /\ aged' = aged \ {snd.c}
    /\ snd' = [snd EXCEPT !.pc = "wave", !.passed = @ \cup {snd.c}]
    /\ Unstamped("original", accepted)
    /\ UNCHANGED <<posting, link, attempts, today, cooling, clear, unsent, events, phase>>

\* A failure taken for transient: refused, or accepted and the answer lost.
\* Dying before send_result.json is written leaves the file of the attempt before:
\* nothing to retry from, or a cooldown that is over.
TransientFailure(accepted, published) ==
    /\ At(IF accepted THEN "accepted" ELSE "calling") /\ Trouble
    /\ Doubt(snd.c, accepted)
    /\ msg' = [msg EXCEPT ![snd.c] = "blocked"]
    /\ result' = IF published THEN [result EXCEPT ![snd.c] = "transient"] ELSE result
    /\ attempts' = IF published THEN [attempts EXCEPT ![snd.c] = @ + 1] ELSE attempts
    /\ cooling' = IF published THEN cooling \cup {snd.c} ELSE cooling
    /\ aged' = aged \ {snd.c}
    /\ snd' = SndIdle
    /\ Unstamped("original", accepted) /\ Unfreeze("original")
    /\ UNCHANGED <<posting, link, today, unsent, events, phase>>

\* Accepted without a message id: the link is exhausted for review.
AnswerWithoutId ==
    /\ At("accepted") /\ Trouble
    /\ Doubt(snd.c, TRUE)
    /\ Block(snd.c, [link EXCEPT ![snd.c] = "exhausted"])
    /\ snd' = SndIdle
    /\ Unstamped("original", TRUE) /\ Unfreeze("original")

\* first transaction of _persist_successful_send
MarkSent(c) ==
    /\ msg' = [msg EXCEPT ![c] = "sent"]
    /\ today' = today + 1
    /\ phase' = [phase EXCEPT ![c] = "fresh"]
    /\ aged' = aged \ {c}
    /\ Stamp("original", FALSE)
    /\ UNCHANGED <<attempts, cooling, unsent, events, lost>>

\* _persist_successful_send
RecordSent ==
    /\ At("accepted")
    /\ MarkSent(snd.c)
    /\ link' = [link EXCEPT ![snd.c] = "outreach_done"]
    /\ result' = [result EXCEPT ![snd.c] = "sent"]
    /\ posting' = AfterWave(msg', link')
    /\ snd' = Goto("observing")
    /\ UNCHANGED troubles

\* The process dies after the first transaction of _persist_successful_send.
RecordDies ==
    /\ At("accepted") /\ Trouble
    /\ MarkSent(snd.c)
    /\ snd' = SndIdle
    /\ UNCHANGED <<link, result, posting>>

\* run_immediate_delivery_feedback_poll of the message just sent: its window is
\* open, so only a bounce can be recorded
ObserveSent ==
    /\ At("observing")
    /\ events' = events \cup {<<c, 0, "bounced">> :
                              c \in {d \in {snd.c} : \E a \in mail[d] : a.kind = "bounced"}}
    /\ snd' = SndIdle
    /\ UNCHANGED <<originals, plans, provider, pacing, clock, history>>

SendingDies ==
    /\ ~At("idle") /\ Trouble
    /\ Doubt(snd.c, At("accepted"))
    /\ snd' = SndIdle
    /\ Unstamped("original", At("accepted")) /\ Unfreeze("original")
    /\ UNCHANGED <<originals, plans, events, provider, clock>>

SendingNext ==
    \/ StartSending \/ DraftsDone \/ BeginWave \/ EndWave
    \/ \E c \in Contacts : PromoteContact(c) \/ LoadStale(c) \/ Visit(c)
    \/ DraftRendered \/ DraftFails \/ RefreshDraft \/ RefreshFails
    \/ ProviderAccepts
    \/ \E accepted, published \in BOOLEAN :
           Rejected(accepted) \/ TransientFailure(accepted, published)
    \/ AnswerWithoutId \/ RecordSent \/ RecordDies \/ ObserveSent
    \/ SendingDies

SendingTypeOK ==
    snd \in [pc : SndSteps, c : Contacts, wave : SUBSET Contacts, passed : SUBSET Contacts]

=============================================================================
