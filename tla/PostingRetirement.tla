--------------------------- MODULE PostingRetirement ---------------------------
(***************************************************************************)
(* The two commands by which the owner takes old postings out of the       *)
(* queues: archive_postings_created_before_cutover ("archive") and         *)
(* retire_stale_role_targeted_send_backlog ("backlog").  Both read rows of *)
(* Messaging and write them back by id, in transactions of their own and   *)
(* without looking at them again.  Nothing keeps the three processes out   *)
(* meanwhile: the backlog command tests no pause, and the archive only     *)
(* that the agent is paused, not that a cycle begun before has ended.      *)
(*                                                                         *)
(* Bound: the owner gives one command at a time.                           *)
(***************************************************************************)
EXTENDS Messaging

VARIABLES
    own,     \* the owner's command: its kind and step, the posting's status it
             \* read, and the rows it selected: contact and touch
    retired, \* history: contacts whose original a command took out
    held     \* history: those of them a cycle had loaded before, and has still to
             \* come to or has brought back

all == <<vars, own, retired, held>>
taken == <<retired, held>>

OwnIdle == [kind |-> "archive", step |-> "idle", was |-> "completed", rows |-> {}]
OwnSteps == {"idle", "abandon", "select", "give_up", "select_plans", "skip_plans", "demote"}

OwnIs(step) == own.step = step
OwnGoto(step) == [own EXCEPT !.step = step]

\* ABANDONABLE_POSTING_STATUSES, as far as a posting with messages has them
Abandonable == {"requires_contacts", "ready_for_outreach", "outreach_in_progress"}

\* FOLLOWUP_PLAN_TERMINAL_STATUSES; a sent plan is not a plan here any more
Settled == {"none", "skipped", "archived"}

\* ARCHIVABLE_UNSENT_MESSAGE_STATUSES; the backlog takes in failed ones
Retirable(kind) == {"generated", "blocked"} \cup IF kind = "archive" THEN {} ELSE {"failed"}
Unsent(kind) == {c \in Contacts : ~Stamped(c) /\ msg[c] \in Retirable(kind)}

\* what the running cycle sends from: loaded, and not come to
InHand == IF snd.pc \in {"wave", "calling", "accepted"} THEN Ahead ELSE {}

Chosen == {c \in Contacts : <<c, 0>> \in own.rows}

unretired == <<events, provider, pacing, clock, lost, snd, fw, fb>>

-----------------------------------------------------------------------------
\* The postings are read; the backlog wants one that may be sent from and still
\* has an unsent original.
ReadPosting(kind) ==
    /\ OwnIs("idle")
    /\ kind = "backlog" => posting \in SendingStatuses /\ Unsent(kind) # {}
    /\ own' = [kind |-> kind, step |-> IF kind = "archive" THEN "abandon" ELSE "select",
               was |-> posting, rows |-> {}]
    /\ UNCHANGED <<vars, taken>>

\* The archive abandons the posting by the status read before, or only stamps it.
AbandonPosting ==
    /\ OwnIs("abandon")
    /\ posting' = IF own.was \in Abandonable THEN "abandoned" ELSE posting
    /\ own' = OwnGoto("select")
    /\ UNCHANGED <<link, msg, result, attempts, today, cooling, aged, plans, troubles,
                   taken, unretired>>

\* The archive selects every unsent original, the backlog those drafted before the
\* cutoff, and goes on to the next posting when there is none.
SelectMessages(cs) ==
    /\ OwnIs("select")
    /\ IF own.kind = "archive" THEN cs = Unsent("archive") ELSE cs \subseteq Unsent("backlog")
    /\ own' = IF own.kind = "backlog" /\ cs = {} THEN OwnIdle
              ELSE [own EXCEPT !.step = "give_up", !.rows = {<<c, 0>> : c \in cs}]
    /\ UNCHANGED <<vars, taken>>

\* The originals selected are set to failed by id, whatever they have become.
GiveUp ==
    /\ OwnIs("give_up")
    /\ msg' = [c \in Contacts |-> IF c \in Chosen THEN "failed" ELSE msg[c]]
    /\ aged' = aged \ Chosen
    /\ retired' = retired \cup Chosen
    /\ held' = (held \ Chosen) \cup (Chosen \cap InHand)
    /\ own' = IF own.kind = "archive" THEN OwnGoto("select_plans")
              ELSE IF own.was = "completed" THEN OwnIdle
              ELSE OwnGoto("demote")
    /\ UNCHANGED <<posting, link, result, attempts, today, cooling, plans, troubles, unretired>>

\* The backlog command has the posting look for other contacts.
Demote ==
    /\ OwnIs("demote")
    /\ posting' = "requires_contacts"
    /\ own' = OwnIdle
    /\ UNCHANGED <<link, msg, result, attempts, today, cooling, aged, plans, troubles,
                   taken, unretired>>

SelectPlans ==
    /\ OwnIs("select_plans")
    /\ own' = [own EXCEPT !.step = "skip_plans",
                          !.rows = {<<c, NextSequence(c)>> :
                                    c \in {d \in Contacts : plan[d].status \notin Settled}}]
    /\ UNCHANGED <<vars, taken>>

\* The plans selected are set to skipped by id.  The row of a follow-up recorded
\* meanwhile is not sent any more then, and _has_existing_followup_evidence rules
\* out it and the plans after it.
Skipped(c) ==
    IF <<c, NextSequence(c)>> \in own.rows THEN [plan[c] EXCEPT !.status = "archived"]
    ELSE IF /\ followed[c] < MaxSequence
            /\ \E k \in 1 .. followed[c] : <<c, k>> \in own.rows
         THEN [plan[c] EXCEPT !.status = "skipped"]
    ELSE plan[c]

SkipPlans ==
    /\ OwnIs("skip_plans")
    /\ plan' = [c \in Contacts |-> Skipped(c)]
    /\ own' = OwnIdle
    /\ UNCHANGED <<originals, followed, rollout, resting, troubles, taken, unretired>>

CommandDies ==
    /\ ~OwnIs("idle") /\ Trouble
    /\ own' = OwnIdle
    /\ UNCHANGED <<originals, plans, taken, unretired>>

\* People search and discovery, actions of the supervisor as sending is, find
\* contacts for a demoted posting (_promote_posting_ready_for_outreach_if_eligible).
ContactsFound(cs) ==
    /\ At("idle") /\ posting = "requires_contacts"
    /\ cs \subseteq {c \in Contacts : link[c] = "identified"} /\ cs # {}
    /\ link' = [c \in Contacts |-> IF c \in cs THEN "shortlisted" ELSE link[c]]
    /\ posting' = "ready_for_outreach"
    /\ UNCHANGED <<own, taken, msg, result, attempts, today, cooling, aged, plans, troubles,
                   unretired>>

-----------------------------------------------------------------------------
RetirementInit == Init /\ own = OwnIdle /\ retired = {} /\ held = {}

Commands ==
    \/ \E kind \in {"archive", "backlog"} : ReadPosting(kind)
    \/ AbandonPosting \/ GiveUp \/ Demote \/ SelectPlans \/ SkipPlans \/ CommandDies
    \/ \E cs \in SUBSET Contacts : SelectMessages(cs) \/ ContactsFound(cs)

\* Held no longer: the cycle is past the original and has not brought it back.
LetGo == held' = {c \in held : c \in InHand' \/ Pending(c)'}

RetirementNext ==
    \/ Next /\ LetGo /\ UNCHANGED <<own, retired>>
    \/ Commands

RetirementSpec == RetirementInit /\ [][RetirementNext]_all

-----------------------------------------------------------------------------
RetirementTypeOK ==
    /\ TypeOK
    /\ own \in [kind : {"archive", "backlog"}, step : OwnSteps,
                was : SendingStatuses \cup OtherStatuses, rows : SUBSET (Contacts \X Nat)]
    /\ held \subseteq retired /\ retired \subseteq Contacts

\* An original a command took out is never accepted by the provider later, also
\* when the posting comes back with new contacts, a retry was due, or its draft was
\* being written anew (prd/spec.md: "retire unsent posting-linked drafts so they
\* cannot later resume").  The one exception is a cycle that had loaded the original
\* before: it sends it, or fails for the moment and so brings it back.
RetiredStaysUnsent == [][\A c \in retired \ held : outbox'[c] = outbox[c]]_all

=============================================================================
