------------------------------ MODULE Messaging ------------------------------
(***************************************************************************)
(* The three processes around sent mail, on one posting: the sending       *)
(* action of the supervisor, the follow-up worker and the feedback sync,   *)
(* with the contacts, the owner and the clock.  They share nothing but the *)
(* database and the mailbox, and no process excludes another: each of them *)
(* runs under a lock of its own (execute_followup_cycle and                *)
(* execute_delayed_feedback_sync; the supervisor under its lease).         *)
(*                                                                         *)
(* Bounds: a cycle of a sender ends before the block or the day does, the  *)
(* owner acts between follow-up cycles, and feedback is synced for waves   *)
(* of at most MaxWave contacts.                                            *)
(***************************************************************************)
EXTENDS DeliveryFeedback

vars == <<snd, fw, fb, store>>

Init == StoreInit /\ snd = SndIdle /\ fw = FwIdle /\ fb = FbIdle

\* Nobody is in the middle of a sending cycle.
Between == At("idle") /\ FwAt("idle")

Environment ==
    /\ \/ \E c \in Contacts, kind \in Answers : Answer(c, kind)
       \/ (FwAt("idle") /\ LiftPause) \/ MinutesPass \/ WindowCloses
       \/ Between /\ (BlockEnds \/ DaysPass)
    /\ UNCHANGED <<snd, fw, fb>>

Next ==
    \/ SendingNext /\ UNCHANGED <<fw, fb>>
    \/ FollowupsNext /\ UNCHANGED fb
    \/ FeedbackNext
    \/ Environment

Spec == Init /\ [][Next]_vars

-----------------------------------------------------------------------------
TypeOK == StoreTypeOK /\ SendingTypeOK /\ FollowupsTypeOK /\ FeedbackTypeOK

Accepts == outbox' # outbox \/ thread' # thread

\* Two mails are never accepted within the inter-send gap, whichever process
\* sends them, unless both processes had passed their pacing check before
\* either was recorded or an acceptance left no trace to be seen
\* (_build_role_targeted_send_pacing_plan, _evaluate_global_pacing).
SendsSpaced == [][Accepts => gap # "closed"]_vars

\* Automatic follow-ups stop at the rollout cap until the owner approves more:
\* all that were ever accepted stay within it but for those whose count was
\* lost (_increment_initial_rollout_count, followup_auto_send_available).
Sent(c) == Len(thread[c])
RolloutCapped ==
    ~rollout.approved => LET all == UNION {{<<c, k>> : k \in 1 .. Sent(c)} : c \in Contacts}
                         IN  Cardinality(all) <= RolloutCap + uncounted

\* Once an answer or a bounce is in the thread at most one more follow-up is
\* accepted: the one whose last thread check came before it, over all later
\* cycles, retries and crashes (GmailThreadInspector.inspect_thread).
SilentOnceAnswered ==
    \A c \in Contacts : \A a \in mail[c] : Sent(c) - a.after <= 1

\* No original overtakes an earlier one of the wave that is drafted and
\* waiting, or only resting from a failure of the moment
\* (_find_next_send_frontier_message, execute_role_targeted_send_set).
WaveOrder ==
    [][\A i, j \in Positions :
         i < j /\ outbox'[Wave[j]] # outbox[Wave[j]] =>
            /\ msg[Wave[i]] # "generated"
            /\ msg[Wave[i]] = "blocked" => result[Wave[i]] # "transient"]_vars

\* When the mailbox showed a bounce that can only be that of one message, the
\* message is not recorded as not bounced unless the bounce is on record, too, and
\* decides what its address is good for: two processes record bounces, and neither
\* learns what the other has recorded since it read (_match_feedback_signals,
\* _persist_mailbox_feedback_signal, _persist_not_bounced_outcome_if_due).
NotBouncedTruthful ==
    [][\A m \in fb.cands :
         /\ <<m[1], m[2], "not_bounced">> \in events' \ events
         /\ m \in Attributed(fb.cands, fb.seen)
         => <<m[1], m[2], "bounced">> \in events]_vars

\* A contact receives the original, then the follow-ups in order and each of
\* them once; the original comes again only for a lost acceptance.
Ledger == INSTANCE TouchLedger
    WITH People <- Contacts, MaxTouches <- MaxSequence,
         received <- [c \in Contacts |-> [k \in 1 .. outbox[c] |-> 0] \o thread[c]],
         spare <- [c \in Contacts |->
                     doubts[c] - (IF outbox[c] = 0 THEN 0 ELSE outbox[c] - 1)]

KeepsLedger == Ledger!LedgerSpec

=============================================================================
