----------------------------- MODULE MessageStore -----------------------------
(***************************************************************************)
(* What the three processes that deal with sent mail share: the database   *)
(* rows and artifacts of one posting's outreach, the mail provider, and    *)
(* the clock.  OutreachSending, Followups and DeliveryFeedback act on it.  *)
(*                                                                         *)
(* Time is kept as what the code compares: whether the inter-send gap, a   *)
(* retry cooldown, an observation window, a follow-up delay, a draft's     *)
(* freshness or a day has run out.  Each clock action is a length of time  *)
(* and makes everything shorter run out with it.                           *)
(***************************************************************************)
EXTENDS Integers, Sequences, FiniteSets, SendLane

CONSTANTS
    Wave,         \* the posting's contacts in send-priority order
    DailyCap,     \* AUTOMATIC_POSTING_DAILY_SEND_CAP (code: 4)
    MaxSequence,  \* FOLLOWUP_MAX_SEQUENCE (code: 3)
    MaxRetries,   \* MAX_AUTOMATIC_TRANSIENT_SEND_RETRIES (code: 3)
    DraftLimit,   \* FOLLOWUP_DRAFT_RETRY_LIMIT (code: 3)
    RolloutCap,   \* FOLLOWUP_INITIAL_AUTO_SEND_CAP (code: 10)
    BlockHours,   \* bound: the hours of the day the clock visits
    MaxTroubles,  \* bound: crashes and failures of providers and renderers
    Answering,    \* bound: the contacts that may answer or bounce, once each
    MaxWave       \* bound: contacts shortlisted while feedback is synced

\* a posting links each contact once (UNIQUE (job_posting_id, contact_id))
ASSUME WaveAssumption ==
    /\ Wave \in Seq(STRING) /\ Len(Wave) > 0
    /\ \A i, j \in 1 .. Len(Wave) : Wave[i] = Wave[j] => i = j
ASSUME LimitsAssumption ==
    /\ DailyCap \in Nat \ {0} /\ MaxSequence \in Nat \ {0}
    /\ MaxRetries \in Nat /\ DraftLimit \in Nat \ {0} /\ RolloutCap \in Nat
    /\ BlockHours \subseteq Hours /\ BlockHours # {}
    /\ MaxTroubles \in Nat /\ MaxWave \in Nat
    /\ Answering \subseteq {Wave[i] : i \in 1 .. Len(Wave)}

Positions == 1 .. Len(Wave)
Contacts == {Wave[i] : i \in Positions}

VARIABLES
    posting,  \* job_postings.posting_status
    link,     \* job_posting_contacts.link_level_status of each contact
    msg,      \* message_status of the contact's original, "none" without a row
    result,   \* send_result.json of the original: its status and reason
    attempts, \* blocked send attempts recorded for the original
    today,    \* rows of the posting with a sent_at of this local day
    plan,     \* outreach_followup_plans row of the next sequence
    followed, \* number of plans sent: sequences 1 .. followed[c]
    rollout,  \* the follow-up control values of agent_control_state
    events,   \* delivery_feedback_events: contact, touch, state
    outbox,   \* provider: accepted originals of each contact
    thread,   \* provider: follow-up sequences accepted in the thread, in order
    mail,     \* provider: what came back: its kind, and the follow-ups before it
    hour,     \* the local hour
    paced,    \* the gap after the latest recorded sent_at has run out
    clear,    \* the same at the frozen time of each sender's cycle
    cooling,  \* originals inside their retry cooldown
    resting,  \* plans whose next_retry_at is ahead
    aged,     \* originals whose draft is past the freshness window
    phase,    \* time since the contact's latest touch with a recorded sent_at
    inFlight, \* history: senders between their pacing check and their record
    gap,      \* history: "closed" inside the gap after an acceptance, "excused"
              \* when the code cannot see that acceptance or did not yet see it
    troubles, \* history: crashes and failures so far
    doubts,   \* history: acceptances of each original that the code lost
    uncounted \* history: accepted follow-ups the rollout count misses

originals == <<posting, link, msg, result, attempts, today, cooling, aged>>
plans == <<plan, followed, rollout, resting>>
provider == <<outbox, thread, mail>>
pacing == <<paced, clear, inFlight, gap>>
clock == <<hour, phase>>
lost == <<doubts, uncounted>>
history == <<troubles, lost>>
store == <<originals, plans, events, provider, pacing, clock, history>>

\* The original is touch 0 and follow-up k is touch k.
Touches == 0 .. MaxSequence
Answers == {"bounced", "replied"}
SendingStatuses == {"ready_for_outreach", "outreach_in_progress", "completed"}
OtherStatuses == {"requires_contacts", "abandoned"}
MessageStatuses == {"none", "generated", "blocked", "failed", "sent"}
Results == {"none", "generated", "transient", "blocked", "failed", "sent"}
LinkStatuses == {"identified", "shortlisted", "outreach_in_progress", "outreach_done", "exhausted"}
PlanStatuses == {"none", "pending", "dry_run_ready", "agent_reviewed", "waiting_for_pacing",
                 "retryable", "skipped", "archived", "blocked", "ambiguous",
                 "held_for_review", "held_auto_send_disabled"}
Phases == {"unsent", "fresh", "observed", "due"}

\* a sent_at of the original is on record, whatever its status became
Stamped(c) == phase[c] # "unsent"

NoPlan == [status |-> "none", retries |-> 0, draft |-> "none"]

\* PREPARED_FOLLOWUP_PLAN_STATUSES, those the lane counts, and those a cycle loads
Prepared == {"dry_run_ready", "agent_reviewed", "waiting_for_pacing", "retryable"}
Sendable == Prepared \ {"dry_run_ready"}
Loadable == Prepared \cup {"pending"}

\* followup_queue_has_sendable_now
FollowupQueueReady ==
    /\ AutoSendAvailable(rollout, RolloutCap)
    /\ \E c \in Contacts : /\ plan[c].status \in Sendable
                           /\ plan[c].draft = "fresh"
                           /\ phase[c] = "due"
                           /\ c \notin resting

\* The provider accepted the original of c and the code never records it.
Doubt(c, accepted) ==
    /\ doubts' = [doubts EXCEPT ![c] = IF accepted THEN @ + 1 ELSE @]
    /\ UNCHANGED uncounted

\* The provider accepted a follow-up and the rollout count will not show it.
Miscount(accepted) ==
    /\ uncounted' = IF accepted THEN uncounted + 1 ELSE uncounted
    /\ UNCHANGED doubts

Trouble == troubles < MaxTroubles /\ troubles' = troubles + 1

StoreInit ==
    /\ posting = "ready_for_outreach"
    /\ \E n \in Positions :
           link = [c \in Contacts |-> IF \E i \in 1 .. n : Wave[i] = c THEN "shortlisted"
                                     ELSE "identified"]
    /\ msg = [c \in Contacts |-> "none"]
    /\ result = [c \in Contacts |-> "none"]
    /\ attempts = [c \in Contacts |-> 0]
    /\ today = 0 /\ cooling = {} /\ aged = {}
    /\ plan = [c \in Contacts |-> NoPlan]
    /\ followed = [c \in Contacts |-> 0]
    /\ rollout = [enabled |-> TRUE, paused |-> FALSE, approved |-> FALSE, count |-> 0]
    /\ resting = {} /\ events = {}
    /\ outbox = [c \in Contacts |-> 0]
    /\ thread = [c \in Contacts |-> <<>>]
    /\ mail = [c \in Contacts |-> {}]
    /\ hour \in BlockHours
    /\ phase = [c \in Contacts |-> "unsent"]
    /\ paced = TRUE /\ clear = [q \in Queues |-> FALSE]
    /\ inFlight = {} /\ gap = "open"
    /\ troubles = 0 /\ uncounted = 0
    /\ doubts = [c \in Contacts |-> 0]

-----------------------------------------------------------------------------
\* A cycle of a sender begins: its current_time is frozen.
Freeze(q) == clear' = [clear EXCEPT ![q] = paced]
Unfreeze(q) == clear' = [clear EXCEPT ![q] = FALSE]

\* The sender found the gap over and its queue selected; it is about to send.
PassCheck(q) ==
    /\ inFlight' = inFlight \cup {q}
    /\ gap' = IF inFlight \subseteq {q} THEN gap ELSE "excused"
    /\ UNCHANGED <<paced, clear>>

\* The provider accepts a mail.
Accept == gap' = IF gap = "excused" THEN "excused" ELSE "closed"

\* The sender's database shows the mail as sent; backdated when the recorded
\* sent_at lies more than the gap before the acceptance.
Stamp(q, backdated) ==
    /\ paced' = backdated
    /\ clear' = [p \in Queues |-> FALSE]
    /\ inFlight' = inFlight \ {q}
    /\ gap' = IF backdated THEN "excused" ELSE gap

\* The sender ends without a recorded acceptance: none, or one it lost.
Unstamped(q, accepted) ==
    /\ inFlight' = inFlight \ {q}
    /\ gap' = IF accepted THEN "excused" ELSE gap
    /\ UNCHANGED paced

-----------------------------------------------------------------------------
\* A contact answers in the thread, or mail to it starts to bounce.
Answer(c, kind) ==
    /\ Stamped(c)
    /\ c \in Answering /\ mail[c] = {}
    /\ mail' = [mail EXCEPT ![c] = {[kind |-> kind, after |-> Len(thread[c])]}]
    /\ UNCHANGED <<originals, plans, events, outbox, thread, pacing, clock, history>>

\* The owner lifts the pause of automatic follow-ups.
LiftPause ==
    /\ rollout.paused
    /\ rollout' = [rollout EXCEPT !.paused = FALSE]
    /\ UNCHANGED <<originals, plan, followed, resting, events, provider, pacing, clock,
                   history>>

\* The gap and the cooldowns run out, with every longer time.
MinutesRunOut ==
    /\ paced' = TRUE /\ cooling' = {} /\ resting' = {}
    /\ gap' = IF inFlight = Queues THEN "excused" ELSE "open"

MinutesPass ==
    /\ MinutesRunOut
    /\ UNCHANGED <<posting, link, msg, result, attempts, today, aged, plan, followed,
                   rollout, events, provider, clear, inFlight, clock, history>>

\* The bounce observation window of every recorded touch closes.
WindowCloses ==
    /\ MinutesRunOut
    /\ phase' = [c \in Contacts |-> IF phase[c] = "fresh" THEN "observed" ELSE phase[c]]
    /\ UNCHANGED <<posting, link, msg, result, attempts, today, aged, plan, followed,
                   rollout, events, provider, clear, inFlight, hour, history>>

\* A two-hour block ends; going back to an earlier hour is the next day.
BlockEnds ==
    /\ hour' \in BlockHours \ {hour}
    /\ today' = IF hour' < hour THEN 0 ELSE today
    /\ UNCHANGED <<posting, link, msg, result, attempts, cooling, aged, plans, events,
                   provider, pacing, phase, history>>

\* The business days before the next follow-up pass, and drafts grow old.
DaysPass ==
    /\ MinutesRunOut
    /\ today' = 0
    /\ hour' \in BlockHours
    /\ phase' = [c \in Contacts |-> IF Stamped(c) THEN "due" ELSE phase[c]]
    /\ aged' = aged \cup {c \in Contacts : msg[c] = "generated"}
    /\ plan' = [c \in Contacts |-> IF plan[c].draft = "fresh"
                                   THEN [plan[c] EXCEPT !.draft = "stale"] ELSE plan[c]]
    /\ UNCHANGED <<posting, link, msg, result, attempts, followed, rollout, events,
                   provider, clear, inFlight, history>>

StoreTypeOK ==
    /\ posting \in SendingStatuses \cup OtherStatuses
    /\ link \in [Contacts -> LinkStatuses]
    /\ msg \in [Contacts -> MessageStatuses]
    /\ result \in [Contacts -> Results]
    /\ attempts \in [Contacts -> Nat] /\ today \in Nat
    /\ plan \in [Contacts -> [status : PlanStatuses, retries : Nat,
                              draft : {"none", "fresh", "stale"}]]
    /\ followed \in [Contacts -> Touches]
    /\ rollout \in [enabled : BOOLEAN, paused : BOOLEAN, approved : BOOLEAN, count : Nat]
    /\ events \subseteq Contacts \X Touches \X {"bounced", "not_bounced"}
    /\ outbox \in [Contacts -> Nat]
    /\ thread \in [Contacts -> Seq(Touches)]
    /\ mail \in [Contacts -> SUBSET [kind : Answers, after : Nat]]
    /\ hour \in BlockHours /\ paced \in BOOLEAN /\ clear \in [Queues -> BOOLEAN]
    /\ inFlight \subseteq Queues /\ gap \in {"open", "closed", "excused"}
    /\ cooling \subseteq Contacts /\ resting \subseteq Contacts /\ aged \subseteq Contacts
    /\ phase \in [Contacts -> Phases]
    /\ troubles \in 0 .. MaxTroubles /\ uncounted \in 0 .. MaxTroubles
    /\ doubts \in [Contacts -> 0 .. MaxTroubles]

=============================================================================
