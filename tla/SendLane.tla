------------------------------- MODULE SendLane -------------------------------
(***************************************************************************)
(* The rules two independent senders share: the supervisor, which sends    *)
(* original outreach, and the follow-up worker.  The local day is cut into *)
(* blocks of two hours that prefer the two queues in turn; a sender asks   *)
(* whose turn it is and gives way when the answer is the other queue.      *)
(*                                                                         *)
(* Pure functions of what the caller has read: nothing here takes a lock.  *)
(***************************************************************************)
EXTENDS Integers

Hours == 0 .. 23
Queues == {"original", "followup"}

\* shared_send_window: two-hour blocks, the first of the day for follow-ups
BlockStart(h) == (h \div 2) * 2

PreferredQueue(h) == IF (BlockStart(h) \div 2) % 2 = 0 THEN "followup" ELSE "original"

OtherQueue(q) == IF q = "followup" THEN "original" ELSE "followup"

\* decide_shared_send_turn: the preferred queue, else the other, else nobody
Available(q, originalReady, followupReady) ==
    IF q = "original" THEN originalReady ELSE followupReady

SelectedQueue(h, originalReady, followupReady) ==
    IF Available(PreferredQueue(h), originalReady, followupReady)
    THEN PreferredQueue(h)
    ELSE IF Available(OtherQueue(PreferredQueue(h)), originalReady, followupReady)
         THEN OtherQueue(PreferredQueue(h))
         ELSE "none"

\* SharedSendTurnDecision.queue_wait_reason
QueueWaits(q, selected) == selected \in Queues /\ selected # q

\* next_preferred_window_start: hours from the start of the current block to
\* the first later block that prefers q (13 candidates are tried)
NextPreferredOffset(h, q) ==
    IF PreferredQueue((BlockStart(h) + 2) % 24) = q THEN 2 ELSE 4

\* followup_auto_send_available, on the four rollout control values
AutoSendAvailable(c, cap) ==
    /\ c.enabled
    /\ ~c.paused
    /\ c.approved \/ c.count < cap

=============================================================================
