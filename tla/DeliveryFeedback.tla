--------------------------- MODULE DeliveryFeedback ---------------------------
(***************************************************************************)
(* The delayed feedback sync (sync_delivery_feedback), a process of its    *)
(* own: it reads the recorded messages, polls the mailbox once, records    *)
(* each bounce it can attribute to one message and then a not_bounced      *)
(* outcome for every message whose observation window has closed.  Every   *)
(* event is a transaction of its own.                                      *)
(*                                                                         *)
(* A bounce names only the recipient, so it is attributed when exactly one *)
(* observed message went to that address.                                  *)
(***************************************************************************)
EXTENDS Followups

VARIABLE fb \* the sync: step, messages observed, those closed, recipients whose
            \* bounce was polled, matched messages to come, bounces it recorded

FbIdle == [pc |-> "idle", cands |-> {}, closed |-> {}, seen |-> {}, todo |-> {}, added |-> {}]

unsynced == <<originals, plans, provider, pacing, clock>>

\* Faulty variants: never used by the specification.
FaultyMatched == fb.pc = "matching"

\* GmailMailboxFeedbackObserver.poll: the recipients whose mail has bounced
Bouncing == {c \in Contacts : \E a \in mail[c] : a.kind = "bounced"}

\* _persist_delivery_feedback_event
Logged(m, state) == events \cup {<<m[1], m[2], state>>}

\* _load_observed_outreach_messages, _should_observe_candidate: the original and
\* the follow-ups are rows of their own
Recorded ==
    {m \in Contacts \X Touches : IF m[2] = 0 THEN msg[m[1]] = "sent" ELSE m[2] <= followed[m[1]]}
Observed == {m \in Recorded : <<m[1], m[2], "bounced">> \notin events}

\* the observation window of a later message is the last to close
Closed(m) == m[2] < followed[m[1]] \/ phase[m[1]] # "fresh"

\* _match_feedback_signals: unique recipient
Attributed(cands, seen) ==
    {m \in cands : m[1] \in seen /\ \A n \in cands : n[1] = m[1] => n = m}

\* feedback_states holds what the load read and what this sync added; an event of
\* the same message in the table is looked for only with the same state
Undecided(m) == m \notin fb.added /\ <<m[1], m[2], "not_bounced">> \notin events

-----------------------------------------------------------------------------
\* The messages are read, the mailbox is polled and its signals are matched.
PollMailbox ==
    /\ fb.pc = "idle" /\ Observed # {}
    /\ Cardinality({c \in Contacts : link[c] # "identified"}) <= MaxWave
    /\ fb' = [pc |-> "matching", cands |-> Observed,
              closed |-> {m \in Observed : Closed(m)},
              seen |-> Bouncing, todo |-> Attributed(Observed, Bouncing), added |-> {}]
    /\ UNCHANGED <<snd, fw, store>>

\* _persist_mailbox_feedback_signal: a bounce that is on record by now is not
\* recorded again, and not added to feedback_states
RecordBounce(m) ==
    /\ fb.pc = "matching" /\ m \in fb.todo
    /\ events' = Logged(m, "bounced")
    /\ fb' = [fb EXCEPT !.todo = @ \ {m}, !.added = IF events' = events THEN @ ELSE @ \cup {m}]
    /\ UNCHANGED <<snd, fw, unsynced, history>>

Matched == fb.pc = "matching" /\ fb.todo = {}

\* _persist_not_bounced_outcome_if_due
RecordNotBounced(m) ==
    /\ Matched /\ m \in fb.closed /\ Undecided(m)
    /\ events' = Logged(m, "not_bounced")
    /\ UNCHANGED <<snd, fw, fb, unsynced, history>>

SyncDone ==
    /\ Matched /\ \A m \in fb.closed : ~Undecided(m)
    /\ fb' = FbIdle
    /\ UNCHANGED <<snd, fw, store>>

SyncDies ==
    /\ fb.pc # "idle" /\ Trouble
    /\ fb' = FbIdle
    /\ UNCHANGED <<snd, fw, unsynced, events, lost>>

FeedbackNext ==
    \/ PollMailbox \/ SyncDone \/ SyncDies
    \/ \E m \in Contacts \X Touches : RecordBounce(m) \/ RecordNotBounced(m)

FeedbackTypeOK ==
    fb \in [pc : {"idle", "matching"},
            cands : SUBSET (Contacts \X Touches), closed : SUBSET (Contacts \X Touches),
            seen : SUBSET Contacts,
            todo : SUBSET (Contacts \X Touches), added : SUBSET (Contacts \X Touches)]

=============================================================================
