---------------------------- MODULE MessagingProofs ----------------------------
(***************************************************************************)
(* Proofs about Messaging with the owner's commands (PostingRetirement): the *)
(* sending action, the follow-up worker, the feedback sync and the commands *)
(* on one message store, for any wave, caps, pacing and number of troubles. *)
(*                                                                         *)
(* The argument. Each process's actions come in three kinds of lemma: what *)
(* it leaves alone (...Frame), that it keeps the types (...Mail, ...Times, *)
(* ...Losses, ...Keep), and what it does to the messages (...Messages).    *)
(* MessagingInv joins them: a plan exists for sent messages with follow-ups *)
(* to go (PlanInv); a message says sent or, taken out too late, failed once *)
(* its sent_at is on record (RowInv); what the sending action has loaded   *)
(* and not come to is unsent, and nobody pending before one of it is       *)
(* missing (HandInv); a retired message no cycle has loaded is not pending *)
(* (OutInv).  On it rest three more invariants:                            *)
(*   GapInv     the mark of an open attempt is the attempt, and after an   *)
(*              acceptance no queue has a check that passed before it;     *)
(*   ThreadInv, SilentInv   a thread is the sequences 1, 2, ... recorded or *)
(*              about to be, and runs at most one past an answer;          *)
(*   CapInv     the follow-ups in all threads are those counted, missed by *)
(*              the count, or about to be counted.                         *)
(***************************************************************************)
EXTENDS PostingRetirement, FiniteSetTheorems, SequenceTheorems, TLAPS

-----------------------------------------------------------------------------
(***************************************************************************)
(* The types, in the parts that one process writes.  Counters that the     *)
(* model bounds by MaxTroubles are bounded here by the troubles so far.    *)
(***************************************************************************)
OriginalTypes ==
    /\ posting \in SendingStatuses \cup OtherStatuses
    /\ link \in [Contacts -> LinkStatuses]
    /\ msg \in [Contacts -> MessageStatuses]
    /\ result \in [Contacts -> Results]
    /\ attempts \in [Contacts -> Nat] /\ today \in Nat
    /\ cooling \subseteq Contacts /\ aged \subseteq Contacts

FollowTypes ==
    /\ plan \in [Contacts -> [status : PlanStatuses, retries : Nat,
                              draft : {"none", "fresh", "stale"}]]
    /\ followed \in [Contacts -> Touches]
    /\ rollout \in [enabled : BOOLEAN, paused : BOOLEAN, approved : BOOLEAN, count : Nat]
    /\ resting \subseteq Contacts

MailTypes ==
    /\ events \subseteq Contacts \X Touches \X {"bounced", "not_bounced"}
    /\ outbox \in [Contacts -> Nat]
    /\ thread \in [Contacts -> Seq(Touches)]
    /\ mail \in [Contacts -> SUBSET [kind : Answers, after : Nat]]

TimeTypes ==
    /\ hour \in BlockHours /\ phase \in [Contacts -> Phases]
    /\ paced \in BOOLEAN /\ clear \in [Queues -> BOOLEAN]
    /\ inFlight \subseteq Queues /\ gap \in {"open", "closed", "excused"}

LossTypes ==
    /\ troubles \in 0 .. MaxTroubles /\ uncounted \in 0 .. troubles
    /\ doubts \in [Contacts -> 0 .. troubles]

CommandTypes ==
    /\ own \in [kind : {"archive", "backlog"}, step : OwnSteps,
                was : SendingStatuses \cup OtherStatuses, rows : SUBSET (Contacts \X Nat)]
    /\ held \subseteq retired /\ retired \subseteq Contacts

StoreTypes == OriginalTypes /\ FollowTypes /\ MailTypes /\ TimeTypes /\ LossTypes

LEMMA StoreTypesSuffice == StoreTypes => StoreTypeOK
<1> SUFFICES ASSUME StoreTypes PROVE StoreTypeOK
    OBVIOUS
<1>1. troubles \in 0 .. MaxTroubles /\ uncounted \in 0 .. MaxTroubles
    BY LimitsAssumption DEF StoreTypes, LossTypes
<1>2. 0 .. troubles \subseteq 0 .. MaxTroubles
    BY <1>1, LimitsAssumption
<1>3. doubts \in [Contacts -> 0 .. MaxTroubles]
    BY <1>2 DEF StoreTypes, LossTypes
<1> QED
    BY <1>1, <1>3 DEF StoreTypes, OriginalTypes, FollowTypes, MailTypes, TimeTypes, StoreTypeOK

(* What the assumptions on the wave and the limits give.                   *)
LEMMA WaveFacts ==
    /\ Len(Wave) \in Nat /\ Wave[1] \in Contacts
    /\ \A i \in Positions : Wave[i] \in Contacts
    /\ Touches \subseteq Nat /\ 0 \in Touches
  BY WaveAssumption, LimitsAssumption DEF Positions, Contacts, Touches

SndType ==
    [pc : SndSteps, c : Contacts, wave : SUBSET Contacts, passed : SUBSET Contacts]

FbType ==
    [pc : {"idle", "matching"},
     cands : SUBSET (Contacts \X Touches), closed : SUBSET (Contacts \X Touches),
     seen : SUBSET Contacts,
     todo : SUBSET (Contacts \X Touches), added : SUBSET (Contacts \X Touches)]

(* A process between two cycles.                                           *)
LEMMA IdleTypes ==
    /\ SndIdle \in SndType
    /\ FwIdle \in [pc : {"idle", "scan", "drafting", "deciding", "calling", "accepted",
                         "counting"},
                   c : Contacts, todo : SUBSET Contacts, dry : BOOLEAN, auto : BOOLEAN]
    /\ FbIdle \in FbType
  BY WaveFacts DEF SndIdle, SndSteps, SndType, FwIdle, FbIdle, FbType

(* The steps the sending action moves to.                                  *)
LEMMA SndMoves ==
  ASSUME snd \in SndType
  PROVE  /\ SndIdle \in SndType
         /\ \A pc \in SndSteps : Goto(pc) \in SndType /\ [SndIdle EXCEPT !.pc = pc] \in SndType
         /\ \A pc \in SndSteps : \A w \in SUBSET Contacts :
               /\ [SndIdle EXCEPT !.pc = pc, !.wave = w] \in SndType
               /\ [snd EXCEPT !.pc = pc, !.wave = w] \in SndType
         /\ \A pc \in SndSteps : [snd EXCEPT !.pc = pc, !.passed = @ \cup {snd.c}] \in SndType
  BY WaveFacts DEF SndType, SndIdle, SndSteps, Goto

(* What a frontier is made of.                                             *)
LEMMA FirstOfIn ==
  ASSUME NEW cs, NEW c \in FirstOf(cs)
  PROVE  c \in cs /\ c \in Contacts
  BY WaveFacts DEF FirstOf

LEMMA SendingHand ==
  ASSUME SendingTypeOK, SendingNext
  PROVE  SendingTypeOK'
<1> SUFFICES snd' \in SndType
    BY DEF SendingTypeOK, SndType
<1>0. snd \in SndType /\ snd.c \in Contacts
    BY DEF SendingTypeOK, SndType
<1>a. SndIdle \in SndType /\ \A pc \in SndSteps : [SndIdle EXCEPT !.pc = pc] \in SndType
    BY <1>0, SndMoves
<1>b. \A pc \in SndSteps : \A w \in SUBSET Contacts :
               /\ [SndIdle EXCEPT !.pc = pc, !.wave = w] \in SndType
               /\ [snd EXCEPT !.pc = pc, !.wave = w] \in SndType
    BY <1>0, SndMoves
<1>c. \A pc \in SndSteps : /\ Goto(pc) \in SndType
                          /\ [snd EXCEPT !.pc = pc, !.passed = @ \cup {snd.c}] \in SndType
    BY <1>0, SndMoves
<1> USE DEF SndSteps
<1>1. ASSUME NEW c \in Contacts, PromoteContact(c) \/ LoadStale(c) \/ Visit(c)
      PROVE  snd' \in SndType
  <2>1. PICK pc \in {"rendering", "rewriting", "calling"} :
           snd' = [snd EXCEPT !.pc = pc, !.c = c]
      BY <1>1 DEF PromoteContact, LoadStale, Visit
  <2>2. [snd EXCEPT !.pc = pc, !.c = c] \in SndType
      BY <1>0 DEF SndType
  <2> QED
      BY <2>1, <2>2
<1>2. CASE StartSending \/ BeginWave
  <2>1. Selected(link) \in SUBSET Contacts /\ Waiting \in SUBSET Contacts
      BY DEF Selected, Waiting, InWave
  <2> QED
      BY <1>a, <1>b, <1>2, <2>1 DEF StartSending, BeginWave
<1>3. CASE DraftsDone \/ EndWave \/ RefreshDraft \/ RefreshFails
    BY <1>a, <1>3 DEF DraftsDone, EndWave, RefreshDraft, RefreshFails
<1>4. CASE DraftRendered \/ DraftFails \/ ProviderAccepts
    BY <1>c, <1>4 DEF DraftRendered, DraftFails, StoreDraft, ProviderAccepts
<1>5. CASE AnswerWithoutId \/ RecordSent \/ RecordDies \/ ObserveSent \/ SendingDies
    BY <1>a, <1>c, <1>5 DEF AnswerWithoutId, RecordSent, RecordDies, ObserveSent, SendingDies
<1>6. ASSUME NEW accepted \in BOOLEAN, NEW published \in BOOLEAN,
             Rejected(accepted) \/ TransientFailure(accepted, published)
      PROVE  snd' \in SndType
    BY <1>a, <1>c, <1>6 DEF Rejected, TransientFailure
<1> QED
    BY <1>1, <1>2, <1>3, <1>4, <1>5, <1>6 DEF SendingNext

(* The status a posting gets after the wave.                               *)
LEMMA AfterWaveType ==
  ASSUME posting \in SendingStatuses \cup OtherStatuses, NEW m, NEW l
  PROVE  AfterWave(m, l) \in SendingStatuses \cup OtherStatuses
  BY DEF AfterWave, SendingStatuses

LEMMA SendingRows ==
  ASSUME OriginalTypes, SendingTypeOK, SendingNext
  PROVE  OriginalTypes'
<1> USE DEF OriginalTypes, MessageStatuses, Results, LinkStatuses
<1>0. snd.c \in Contacts
    BY DEF SendingTypeOK
<1>1. CASE StartSending
    BY <1>1 DEF StartSending, Reconciled, SendingStatuses
<1>2. ASSUME NEW c \in Contacts, PromoteContact(c)
      PROVE  OriginalTypes'
    BY <1>2 DEF PromoteContact, SendingStatuses
<1>3. CASE DraftRendered \/ DraftFails
    BY <1>0, <1>3 DEF DraftRendered, DraftFails, StoreDraft
<1>4. CASE RefreshDraft
    BY <1>0, <1>4 DEF RefreshDraft
<1>5. ASSUME NEW l \in [Contacts -> LinkStatuses], Block(snd.c, l)
      PROVE  OriginalTypes'
    BY <1>0, <1>5, AfterWaveType DEF Block
<1>6. CASE RefreshFails
    BY <1>5, <1>6 DEF RefreshFails
<1>7. CASE AnswerWithoutId
    BY <1>0, <1>5, <1>7 DEF AnswerWithoutId
<1>8. ASSUME NEW accepted \in BOOLEAN, Rejected(accepted)
      PROVE  OriginalTypes'
    BY <1>0, <1>8 DEF Rejected
<1>9. ASSUME NEW accepted \in BOOLEAN, NEW published \in BOOLEAN,
             TransientFailure(accepted, published)
      PROVE  OriginalTypes'
    BY <1>0, <1>9 DEF TransientFailure
<1>10. CASE RecordSent
    BY <1>0, <1>10, AfterWaveType DEF RecordSent, MarkSent
<1>11. CASE RecordDies
    BY <1>0, <1>11 DEF RecordDies, MarkSent
<1>12. CASE DraftsDone \/ BeginWave \/ EndWave \/ ProviderAccepts \/ ObserveSent \/ SendingDies
    BY <1>12 DEF DraftsDone, BeginWave, EndWave, ProviderAccepts, ObserveSent, SendingDies,
                 originals, store
<1>13. ASSUME NEW c \in Contacts, LoadStale(c) \/ Visit(c)
       PROVE  OriginalTypes'
    BY <1>13 DEF LoadStale, Visit, originals, store
<1> QED
    BY <1>1, <1>2, <1>3, <1>4, <1>6, <1>7, <1>8, <1>9, <1>10, <1>11, <1>12, <1>13
    DEF SendingNext

(* What the sending action leaves alone.                                   *)
LEMMA SendingFrame ==
  ASSUME SendingNext
  PROVE  UNCHANGED <<plan, followed, rollout, resting, thread, mail, hour, uncounted>>
<1> USE DEF store, originals, plans, provider, pacing, clock, history, lost, unsent
<1>1. ASSUME NEW c \in Contacts, PromoteContact(c) \/ LoadStale(c) \/ Visit(c)
      PROVE  UNCHANGED <<unsent, thread, mail, hour, uncounted>>
    BY <1>1 DEF PromoteContact, LoadStale, Visit
<1>2. CASE StartSending \/ DraftsDone \/ BeginWave \/ EndWave
    BY <1>2 DEF StartSending, DraftsDone, BeginWave, EndWave
<1>3. CASE DraftRendered \/ DraftFails \/ RefreshDraft \/ RefreshFails
    BY <1>3 DEF DraftRendered, DraftFails, StoreDraft, RefreshDraft, RefreshFails, Block
<1>4. CASE ProviderAccepts \/ AnswerWithoutId
    BY <1>4 DEF ProviderAccepts, AnswerWithoutId, Block, Doubt
<1>5. ASSUME NEW accepted \in BOOLEAN, NEW published \in BOOLEAN,
             Rejected(accepted) \/ TransientFailure(accepted, published)
      PROVE  UNCHANGED <<unsent, thread, mail, hour, uncounted>>
    BY <1>5 DEF Rejected, TransientFailure, Doubt
<1>6. CASE RecordSent \/ RecordDies \/ ObserveSent \/ SendingDies
    BY <1>6 DEF RecordSent, RecordDies, MarkSent, ObserveSent, SendingDies, Doubt
<1> QED
    BY <1>1, <1>2, <1>3, <1>4, <1>5, <1>6 DEF SendingNext

(* It keeps the types of the mail, the clock and the losses.               *)
LEMMA SendingMail ==
  ASSUME MailTypes, SendingTypeOK, SendingNext
  PROVE  MailTypes'
<1> USE DEF store, originals, plans, provider, pacing, clock, history, lost, unsent
<1>0. snd.c \in Contacts
    BY DEF SendingTypeOK
<1>a. ASSUME UNCHANGED <<events, outbox, thread, mail>> PROVE MailTypes'
    BY <1>a DEF MailTypes
<1>1. ASSUME NEW c \in Contacts, PromoteContact(c) \/ LoadStale(c) \/ Visit(c)
      PROVE  MailTypes'
    BY <1>1, <1>a DEF PromoteContact, LoadStale, Visit
<1>2. CASE StartSending \/ DraftsDone \/ BeginWave \/ EndWave
    BY <1>2, <1>a DEF StartSending, DraftsDone, BeginWave, EndWave
<1>3. CASE DraftRendered \/ DraftFails \/ RefreshDraft \/ RefreshFails \/ AnswerWithoutId
    BY <1>3, <1>a DEF DraftRendered, DraftFails, StoreDraft, RefreshDraft, RefreshFails,
                      AnswerWithoutId, Block
<1>4. ASSUME NEW accepted \in BOOLEAN, NEW published \in BOOLEAN,
             Rejected(accepted) \/ TransientFailure(accepted, published)
      PROVE  MailTypes'
    BY <1>4, <1>a DEF Rejected, TransientFailure
<1>5. CASE RecordSent \/ RecordDies \/ SendingDies
    BY <1>5, <1>a DEF RecordSent, RecordDies, MarkSent, SendingDies
<1>6. CASE ProviderAccepts
    BY <1>0, <1>6 DEF ProviderAccepts, MailTypes
<1>7. CASE ObserveSent
  <2>1. events' \subseteq Contacts \X Touches \X {"bounced", "not_bounced"}
      BY <1>0, <1>7, WaveFacts DEF ObserveSent, MailTypes
  <2> QED
      BY <1>7, <2>1 DEF ObserveSent, MailTypes
<1> QED
    BY <1>1, <1>2, <1>3, <1>4, <1>5, <1>6, <1>7 DEF SendingNext

(* The pacing operations keep their types.                                 *)
LEMMA PacingKept ==
  ASSUME TimeTypes, UNCHANGED <<hour, phase>>, NEW q \in Queues, NEW b, NEW late \in BOOLEAN,
         \/ Freeze(q) /\ UNCHANGED <<paced, inFlight, gap>>
         \/ Unfreeze(q) /\ UNCHANGED <<paced, inFlight, gap>>
         \/ PassCheck(q)
         \/ Accept /\ UNCHANGED <<paced, clear, inFlight>>
         \/ Stamp(q, late)
         \/ Unstamped(q, b) /\ UNCHANGED clear
         \/ Unstamped(q, b) /\ Unfreeze(q)
         \/ UNCHANGED pacing
  PROVE  TimeTypes'
  BY DEF TimeTypes, Freeze, Unfreeze, PassCheck, Accept, Stamp, Unstamped, pacing

LEMMA SendingTimes ==
  ASSUME TimeTypes, SendingTypeOK, SendingNext
  PROVE  TimeTypes'
<1> USE SendingFrame DEF store, originals, plans, provider, clock, history, lost, unsent, Queues
<1>1. ASSUME NEW c \in Contacts, PromoteContact(c) \/ LoadStale(c) \/ Visit(c)
      PROVE  TimeTypes'
    BY <1>1, PacingKept DEF PromoteContact, LoadStale, Visit, pacing
<1>2. CASE StartSending \/ DraftsDone \/ BeginWave \/ EndWave
    BY <1>2, PacingKept DEF StartSending, DraftsDone, BeginWave, EndWave, pacing
<1>3. CASE DraftRendered \/ DraftFails \/ RefreshDraft \/ RefreshFails
    BY <1>3, PacingKept DEF DraftRendered, DraftFails, StoreDraft, RefreshDraft, RefreshFails,
                            Block, pacing
<1>4. CASE AnswerWithoutId \/ ProviderAccepts
    BY <1>4, PacingKept DEF AnswerWithoutId, Block, ProviderAccepts
<1>5. ASSUME NEW accepted \in BOOLEAN, NEW published \in BOOLEAN,
             Rejected(accepted) \/ TransientFailure(accepted, published)
      PROVE  TimeTypes'
    BY <1>5, PacingKept DEF Rejected, TransientFailure
<1>6. CASE RecordSent \/ RecordDies
  <2>1. Stamp("original", FALSE) /\ UNCHANGED hour /\ phase' = [phase EXCEPT ![snd.c] = "fresh"]
      BY <1>6 DEF RecordSent, RecordDies, MarkSent
  <2> QED
      BY <2>1 DEF Stamp, TimeTypes, Phases
<1>7. CASE SendingDies \/ ObserveSent
    BY <1>7, PacingKept DEF SendingDies, ObserveSent
<1> QED
    BY <1>1, <1>2, <1>3, <1>4, <1>5, <1>6, <1>7 DEF SendingNext

(* What was lost is at most one acceptance for each trouble.               *)
LEMMA LossKept ==
  ASSUME LossTypes, NEW c \in Contacts, NEW b,
         \/ UNCHANGED history
         \/ Trouble /\ (UNCHANGED lost \/ Doubt(c, b) \/ Miscount(b))
  PROVE  LossTypes'
<1>1. CASE UNCHANGED history
    BY <1>1 DEF LossTypes, history, lost
<1>2. CASE Trouble /\ (UNCHANGED lost \/ Doubt(c, b) \/ Miscount(b))
  <2>1. troubles' \in 0 .. MaxTroubles /\ troubles' = troubles + 1 /\ troubles \in Nat
      BY <1>2, LimitsAssumption DEF LossTypes, Trouble
  <2>2. uncounted' \in 0 .. troubles'
      BY <1>2, <2>1 DEF LossTypes, lost, Doubt, Miscount
  <2>3. doubts' \in [Contacts -> 0 .. troubles']
      BY <1>2, <2>1 DEF LossTypes, lost, Doubt, Miscount
  <2> QED
      BY <2>1, <2>2, <2>3 DEF LossTypes
<1> QED
    BY <1>1, <1>2

LEMMA SendingLosses ==
  ASSUME LossTypes, SendingTypeOK, SendingNext
  PROVE  LossTypes'
<1> USE DEF store
<1>0. snd.c \in Contacts
    BY DEF SendingTypeOK
<1>a. ASSUME UNCHANGED <<troubles, lost>> PROVE LossTypes'
    BY <1>0, <1>a, LossKept DEF history
<1>1. ASSUME NEW c \in Contacts, PromoteContact(c) \/ LoadStale(c) \/ Visit(c)
      PROVE  LossTypes'
    BY <1>1, LossKept DEF PromoteContact, LoadStale, Visit
<1>2. CASE StartSending \/ DraftsDone \/ BeginWave \/ EndWave
    BY <1>2, <1>0, LossKept DEF StartSending, DraftsDone, BeginWave, EndWave
<1>3. CASE DraftRendered \/ DraftFails \/ RefreshDraft \/ RefreshFails
    BY <1>3, <1>0, <1>a, LossKept DEF DraftRendered, DraftFails, StoreDraft, RefreshDraft,
       RefreshFails, RendererFails
<1>4. CASE AnswerWithoutId \/ ProviderAccepts
    BY <1>4, <1>0, LossKept DEF AnswerWithoutId, ProviderAccepts
<1>5. ASSUME NEW accepted \in BOOLEAN, NEW published \in BOOLEAN,
             Rejected(accepted) \/ TransientFailure(accepted, published)
      PROVE  LossTypes'
    BY <1>5, <1>0, LossKept DEF Rejected, TransientFailure
<1>6. CASE RecordSent \/ RecordDies \/ SendingDies
    BY <1>6, <1>0, LossKept, <1>a DEF RecordSent, RecordDies, MarkSent, SendingDies
<1>7. CASE ObserveSent
    BY <1>7, <1>0, LossKept DEF ObserveSent
<1> QED
    BY <1>1, <1>2, <1>3, <1>4, <1>5, <1>6, <1>7 DEF SendingNext

-----------------------------------------------------------------------------
(***************************************************************************)
(* The follow-up worker.  A plan exists for a contact whose original is    *)
(* stamped and who has follow-ups to come; the loop walks contacts with    *)
(* plans.                                                                  *)
(***************************************************************************)
OnItsWay == {"drafting", "deciding", "calling", "accepted"}

PlanInv ==
    /\ \A c \in Contacts : plan[c].status # "none" => followed[c] < MaxSequence /\ Stamped(c)
    /\ fw.pc \in OnItsWay \cup {"scan"} => \A c \in fw.todo : plan[c].status # "none"
    /\ fw.pc \in OnItsWay => fw.c \in fw.todo

PlanType ==
    [status : PlanStatuses, retries : Nat, draft : {"none", "fresh", "stale"}]

FwType ==
    [pc : {"idle", "scan", "drafting", "deciding", "calling", "accepted", "counting"},
     c : Contacts, todo : SUBSET Contacts, dry : BOOLEAN, auto : BOOLEAN]

FollowState == FollowTypes /\ fw \in FwType /\ PlanInv

StaysStamped == \A c \in Contacts : Stamped(c) => Stamped(c)'
SentStamped == \A c \in Contacts : msg[c] = "sent" => Stamped(c)

(* The steps the worker moves to.                                          *)
LEMMA FwMoves ==
  ASSUME fw \in FwType
  PROVE  /\ FwIdle \in FwType /\ FwIdle.pc = "idle"
         /\ \A pc \in {"deciding", "calling", "accepted", "counting"} :
               /\ FwGoto(pc) \in FwType
               /\ FwGoto(pc).pc = pc /\ FwGoto(pc).c = fw.c /\ FwGoto(pc).todo = fw.todo
               /\ FwGoto(pc).auto = fw.auto
  BY WaveFacts DEF FwType, FwIdle, FwGoto

(* What the worker leaves alone.                                           *)
LEMMA FollowupsFrame ==
  ASSUME FollowupsNext
  PROVE  /\ UNCHANGED <<snd, posting, link, msg, result, attempts, cooling, aged, outbox, mail,
                        hour, events, doubts>>
         /\ \/ UNCHANGED <<today, phase>>
            \/ /\ today' = today + 1 /\ phase' = [phase EXCEPT ![fw.c] = "fresh"]
               /\ \E backdated \in BOOLEAN : RecordFollowup(backdated)
<1> USE DEF store, originals, plans, provider, clock, history, lost, unfollowed
<1>1. ASSUME NEW dry \in BOOLEAN, StartFollowups(dry)
      PROVE  UNCHANGED <<snd, unfollowed, events, lost>>
    BY <1>1 DEF StartFollowups
<1>2. ASSUME NEW c \in Contacts, RuleOut(c) \/ TakeUp(c) \/ ThreadCheckFails(c)
      PROVE  UNCHANGED <<snd, unfollowed, events, lost>>
    BY <1>2 DEF RuleOut, TakeUp, ThreadCheckFails
<1>3. CASE \/ FollowupDrafted \/ FollowupDraftFails \/ DraftingOutage
           \/ HoldDraft \/ Withdraw \/ WaitForTurn \/ CommitToSend \/ ThreadGrows
    BY <1>3 DEF FollowupDrafted, FollowupDraftFails, DraftingOutage, HoldDraft, Withdraw,
                WaitForTurn, CommitToSend, ThreadGrows
<1>4. ASSUME NEW accepted \in BOOLEAN, FollowupFails(accepted)
      PROVE  UNCHANGED <<snd, unfollowed, events, doubts>>
    BY <1>4 DEF FollowupFails, Miscount
<1>5. CASE FollowupAmbiguous \/ CountRollout \/ FollowupsDone \/ FollowupsDie
    BY <1>5 DEF FollowupAmbiguous, CountRollout, FollowupsDone, FollowupsDie, Miscount
<1>6. ASSUME NEW backdated \in BOOLEAN, RecordFollowup(backdated)
      PROVE  /\ UNCHANGED <<snd, posting, link, msg, result, attempts, cooling, aged, outbox,
                            mail, hour, events, doubts>>
             /\ today' = today + 1 /\ phase' = [phase EXCEPT ![fw.c] = "fresh"]
    BY <1>6 DEF RecordFollowup
<1> QED
    BY <1>1, <1>2, <1>3, <1>4, <1>5, <1>6 DEF FollowupsNext

(* Passing on to the next contact, with a new row for the last.            *)
LEMMA PassKeeps ==
  ASSUME FollowState, fw.pc \in OnItsWay \cup {"scan"}, NEW c \in fw.todo, NEW p \in PlanType,
         p.status # "none", Pass(c, p), UNCHANGED followed, StaysStamped
  PROVE  plan' \in [Contacts -> PlanType] /\ fw' \in FwType /\ PlanInv'
<1>1. c \in Contacts /\ plan \in [Contacts -> PlanType]
    BY DEF FollowState, FollowTypes, FwType, PlanType
<1>2. plan' = [plan EXCEPT ![c] = p] /\ plan' \in [Contacts -> PlanType]
    BY <1>1 DEF Pass, WithPlan
<1>3. fw' \in FwType /\ fw'.pc = "scan" /\ fw'.todo = fw.todo \ {c}
    BY WaveFacts DEF FollowState, FwType, Pass
<1>4. plan[c].status # "none"
    BY DEF FollowState, PlanInv
<1> QED
    BY <1>1, <1>2, <1>3, <1>4 DEF FollowState, PlanInv, FwType, OnItsWay, StaysStamped

(* The rows of a contact with a plan just made, and without one.           *)
LEMMA NewPlan ==
    [NoPlan EXCEPT !.status = "pending"] \in PlanType
    /\ [NoPlan EXCEPT !.status = "pending"].status = "pending"
    /\ NoPlan \in PlanType /\ NoPlan.status = "none"
  BY DEF NoPlan, PlanType, PlanStatuses

(* What the start of a cycle makes of a row.                               *)
LEMMA ReadiedRow ==
  ASSUME FollowTypes, PlanInv, SentStamped, NEW c \in Contacts
  PROVE  LET row == Released(Materialized(c))
         IN  /\ row \in PlanType
             /\ row.status # "none" => followed[c] < MaxSequence /\ Stamped(c)
<1>1. plan[c] \in PlanType /\ followed[c] \in Touches
    BY DEF FollowTypes, PlanType
<1>2. followed[c] # MaxSequence => followed[c] < MaxSequence
    BY <1>1, LimitsAssumption DEF Touches
<1> DEFINE row == Materialized(c)
<1>3. row \in PlanType /\ (row.status # "none" => followed[c] < MaxSequence /\ Stamped(c))
    BY <1>1, <1>2, NewPlan DEF Materialized, Reopened, PlanInv, SentStamped
<1> HIDE DEF row
<1>4. [row EXCEPT !.status = "pending"] \in PlanType
    BY <1>3 DEF PlanType, PlanStatuses
<1> QED
    BY <1>3, <1>4 DEF Released, row

(* The start of a cycle makes and releases plans.                          *)
LEMMA StartKeeps ==
  ASSUME FollowState, SentStamped, NEW dry \in BOOLEAN, StartFollowups(dry)
  PROVE  FollowState'
<1> DEFINE ready == [c \in Contacts |-> Released(Materialized(c))]
           todo == {c \in Contacts : /\ ready[c].status \in Loadable
                                     /\ c \notin resting'
                                     /\ phase[c] = "due"}
           auto == AutoSendAvailable(rollout, RolloutCap)
<1>1. /\ plan' = ready /\ resting' \subseteq resting
      /\ fw' = [pc |-> "scan", c |-> Wave[1], dry |-> dry, todo |-> todo, auto |-> auto]
      /\ UNCHANGED <<followed, rollout, phase>>
    BY DEF StartFollowups, unfollowed, clock
<1>2. auto \in BOOLEAN
    BY DEF AutoSendAvailable, FollowState, FollowTypes
<1>3. ready \in [Contacts -> PlanType]
    BY ReadiedRow DEF FollowState
<1>4. \A c \in Contacts : ready[c].status # "none" => followed[c] < MaxSequence /\ Stamped(c)
    BY ReadiedRow DEF FollowState
<1>5. \A c \in todo : ready[c].status # "none"
    BY DEF Loadable, Prepared
<1>6. todo \subseteq Contacts
    OBVIOUS
<1> HIDE DEF ready, todo, auto
<1>7. FollowTypes'
    BY <1>1, <1>3 DEF FollowState, FollowTypes, PlanType
<1>8. fw' \in FwType
    BY <1>1, <1>2, <1>6, WaveFacts DEF FwType
<1>9. PlanInv'
    BY <1>1, <1>4, <1>5 DEF PlanInv, OnItsWay, Stamped
<1> QED
    BY <1>7, <1>8, <1>9 DEF FollowState

(* The rows that a plan of the loop is replaced by.                        *)
LEMMA RowMoves ==
  ASSUME NEW p \in PlanType, NEW status \in PlanStatuses
  PROVE  /\ [p EXCEPT !.status = status] \in PlanType
         /\ [p EXCEPT !.status = status].status = status
         /\ [p EXCEPT !.status = status, !.retries = @ + 1] \in PlanType
         /\ [p EXCEPT !.status = status, !.retries = @ + 1].status = status
         /\ [p EXCEPT !.retries = @ + 1, !.status = status] \in PlanType
         /\ [p EXCEPT !.retries = @ + 1, !.status = status].status = status
         /\ [p EXCEPT !.draft = "fresh"] \in PlanType
         /\ [p EXCEPT !.draft = "fresh"].status = p.status
<1>1. [p EXCEPT !.status = status] \in PlanType /\ [p EXCEPT !.status = status].status = status
    BY DEF PlanType
<1>2. p.retries + 1 \in Nat
    BY DEF PlanType
<1>3. /\ [p EXCEPT !.status = status, !.retries = @ + 1] \in PlanType
      /\ [p EXCEPT !.status = status, !.retries = @ + 1].status = status
      /\ [p EXCEPT !.retries = @ + 1, !.status = status] \in PlanType
      /\ [p EXCEPT !.retries = @ + 1, !.status = status].status = status
  <2> DEFINE n == p.retries + 1
  <2>0. n \in Nat
      BY <1>2
  <2> HIDE DEF n
  <2>1. /\ [p EXCEPT !.status = status, !.retries = n] \in PlanType
        /\ [p EXCEPT !.status = status, !.retries = n].status = status
      BY <2>0 DEF PlanType
  <2>2. /\ [p EXCEPT !.retries = n, !.status = status] \in PlanType
        /\ [p EXCEPT !.retries = n, !.status = status].status = status
      BY <2>0 DEF PlanType
  <2> QED
      BY <2>1, <2>2 DEF n
<1>4. /\ [p EXCEPT !.draft = "fresh"] \in PlanType
      /\ [p EXCEPT !.draft = "fresh"].status = p.status
    BY DEF PlanType
<1> QED
    BY <1>1, <1>2, <1>3, <1>4

(* The worker keeps the types of the plans, and PlanInv.                   *)
LEMMA FollowupsKeep ==
  ASSUME FollowState, FollowupsNext, SentStamped, StaysStamped
  PROVE  FollowState'
<1> USE DEF PlanStatuses
<1>0. /\ plan \in [Contacts -> PlanType] /\ fw \in FwType
      /\ \A c \in fw.todo : c \in Contacts /\ plan[c] \in PlanType
      /\ fw.c \in Contacts
    BY DEF FollowState, FollowTypes, PlanType, FwType
<1>a. ASSUME UNCHANGED <<followed, rollout>>, resting' \subseteq Contacts,
             NEW c \in fw.todo, NEW p \in PlanType, p.status # "none",
             fw.pc \in OnItsWay \cup {"scan"}, Pass(c, p)
      PROVE  FollowState'
    BY <1>a, PassKeeps DEF FollowState, FollowTypes, PlanType
<1>b. ASSUME UNCHANGED plans, fw' = FwIdle PROVE FollowState'
    BY <1>0, <1>b, FwMoves DEF FollowState, FollowTypes, PlanInv, plans, OnItsWay, StaysStamped
<1>c. resting \subseteq Contacts
    BY DEF FollowState, FollowTypes
<1>d. ASSUME fw.pc \in OnItsWay PROVE fw.c \in fw.todo /\ fw.pc \in OnItsWay \cup {"scan"}
    BY <1>d DEF FollowState, PlanInv
<1>1. ASSUME NEW dry \in BOOLEAN, StartFollowups(dry) PROVE FollowState'
    BY <1>1, StartKeeps
<1>2. ASSUME NEW c \in Contacts, RuleOut(c) PROVE FollowState'
    BY <1>0, <1>2, <1>a, <1>c, RowMoves DEF RuleOut, FwAt
<1>3. ASSUME NEW c \in Contacts, TakeUp(c) PROVE FollowState'
  <2>1. UNCHANGED plans
      BY <1>3 DEF TakeUp, store
  <2>2. fw' \in FwType /\ fw'.pc \in OnItsWay /\ fw'.c = c /\ fw'.todo = fw.todo
        /\ c \in fw.todo /\ fw.pc = "scan"
      BY <1>0, <1>3 DEF TakeUp, FwType, OnItsWay, FwAt
  <2> QED
      BY <2>1, <2>2 DEF FollowState, FollowTypes, PlanInv, plans, StaysStamped
<1>4. ASSUME NEW c \in Contacts, ThreadCheckFails(c) PROVE FollowState'
  <2>1. c \in fw.todo /\ fw.pc \in OnItsWay \cup {"scan"}
      BY <1>4, <1>d DEF ThreadCheckFails, FwAt, OnItsWay
  <2>2. PICK status \in {"retryable", "blocked"} :
           Pass(c, [plan[c] EXCEPT !.retries = @ + 1, !.status = status])
      BY <1>4 DEF ThreadCheckFails
  <2> DEFINE old == plan[c]
             p == [old EXCEPT !.retries = @ + 1, !.status = status]
  <2>3. old \in PlanType /\ status \in PlanStatuses /\ Pass(c, p) /\ status # "none"
      BY <1>0, <2>1, <2>2
  <2>4. resting' \subseteq Contacts /\ UNCHANGED <<followed, rollout>>
      BY <1>4, <1>c DEF ThreadCheckFails
  <2> HIDE DEF old
  <2>5. p \in PlanType /\ p.status # "none"
    <3> HIDE DEF PlanStatuses
    <3>1. [old EXCEPT !.retries = @ + 1, !.status = status] \in PlanType
        BY <2>3, RowMoves, Zenon
    <3>2. [old EXCEPT !.retries = @ + 1, !.status = status].status = status
        BY <2>3, RowMoves, Zenon
    <3> QED
        BY <2>3, <3>1, <3>2
  <2> HIDE DEF p
  <2> QED
      BY <1>a, <2>1, <2>3, <2>4, <2>5
<1>5. CASE FollowupDrafted
  <2>1. /\ plan' = [plan EXCEPT ![fw.c] = [plan[fw.c] EXCEPT !.draft = "fresh"]]
        /\ UNCHANGED <<followed, rollout, resting>> /\ fw.pc = "drafting"
        /\ fw' = FwGoto("deciding")
      BY <1>5 DEF FollowupDrafted, WithPlan, FwAt
  <2>2. plan' \in [Contacts -> PlanType]
        /\ \A c \in Contacts : plan'[c].status = plan[c].status
    <3> DEFINE old == plan[fw.c]
               new == [old EXCEPT !.draft = "fresh"]
    <3>0. old \in PlanType
        BY <1>0
    <3> HIDE DEF old
    <3>1. new \in PlanType /\ new.status = old.status
        BY <3>0 DEF PlanType
    <3> USE DEF old
    <3> HIDE DEF new
    <3>2. plan' = [plan EXCEPT ![fw.c] = new]
        BY <2>1 DEF new
    <3> QED
        BY <1>0, <3>1, <3>2
  <2> QED
      BY <1>0, <2>1, <2>2, FwMoves DEF FollowState, FollowTypes, PlanInv, PlanType, OnItsWay,
         StaysStamped
<1>6. CASE FollowupDraftFails
  <2>1. fw.pc \in OnItsWay /\ Trouble
      BY <1>6 DEF FollowupDraftFails, DraftingFails, FwAt, OnItsWay
  <2> DEFINE old == plan[fw.c]
             p == IF old.retries + 1 < DraftLimit
                  THEN [old EXCEPT !.status = "retryable", !.retries = @ + 1]
                  ELSE [old EXCEPT !.status = "held_for_review"]
  <2>2. p \in PlanType /\ p.status # "none"
    <3>1. old \in PlanType
        BY <1>0
    <3> HIDE DEF old
    <3>2. CASE old.retries + 1 < DraftLimit
        BY <3>1, <3>2, RowMoves
    <3>3. CASE ~(old.retries + 1 < DraftLimit)
        BY <3>1, <3>3, RowMoves
    <3> QED
        BY <3>2, <3>3
  <2>3. Pass(fw.c, p) /\ UNCHANGED <<resting, followed, rollout>>
      BY <1>6 DEF FollowupDraftFails
  <2> QED
      BY <1>a, <1>c, <1>d, <2>1, <2>2, <2>3
<1>7. CASE DraftingOutage
    BY <1>0, <1>7, FwMoves DEF DraftingOutage, FollowState, FollowTypes, PlanInv, OnItsWay,
       StaysStamped
<1>8. CASE HoldDraft \/ Withdraw \/ WaitForTurn
  <2>1. fw.pc \in OnItsWay /\ UNCHANGED <<resting, followed, rollout>>
      BY <1>8 DEF HoldDraft, Withdraw, WaitForTurn, FwAt, OnItsWay
  <2>2. \E status \in {"dry_run_ready", "held_auto_send_disabled", "skipped",
                       "waiting_for_pacing"} :
           Pass(fw.c, [plan[fw.c] EXCEPT !.status = status])
      BY <1>8 DEF HoldDraft, Withdraw, WaitForTurn
  <2> DEFINE old == plan[fw.c]
  <2>3. old \in PlanType
      BY <1>0
  <2>4. PICK status \in {"dry_run_ready", "held_auto_send_disabled", "skipped",
                         "waiting_for_pacing"} :
           Pass(fw.c, [old EXCEPT !.status = status])
      BY <2>2
  <2> HIDE DEF old
  <2> DEFINE p == [old EXCEPT !.status = status]
  <2>5. p \in PlanType /\ p.status # "none"
      BY <2>3, <2>4 DEF PlanType
  <2> QED
      BY <1>a, <1>c, <1>d, <2>1, <2>4, <2>5
<1>9. CASE CommitToSend
  <2>1. /\ plan' = [plan EXCEPT ![fw.c] = [plan[fw.c] EXCEPT !.status = "agent_reviewed"]]
        /\ UNCHANGED <<followed, rollout, resting>> /\ fw.pc = "deciding"
        /\ fw' = FwGoto("calling")
      BY <1>9 DEF CommitToSend, Marked, WithPlan, FwAt
  <2>2. plan' \in [Contacts -> PlanType]
        /\ \A c \in Contacts : plan'[c].status # "none" <=> plan[c].status # "none"
    <3> DEFINE old == plan[fw.c]
               new == [old EXCEPT !.status = "agent_reviewed"]
    <3>0. old \in PlanType
        BY <1>0
    <3> HIDE DEF old
    <3>1. new \in PlanType /\ new.status # "none"
        BY <3>0 DEF PlanType
    <3> USE DEF old
    <3>2. plan[fw.c].status # "none"
        BY <1>d, <2>1 DEF FollowState, PlanInv, OnItsWay
    <3> HIDE DEF new
    <3>3. plan' = [plan EXCEPT ![fw.c] = new]
        BY <2>1 DEF new
    <3> QED
        BY <1>0, <3>1, <3>2, <3>3
  <2> QED
      BY <1>0, <2>1, <2>2, FwMoves DEF FollowState, FollowTypes, PlanInv, PlanType, OnItsWay,
         StaysStamped
<1>10. CASE ThreadGrows
  <2>1. UNCHANGED plans /\ fw.pc = "calling" /\ fw' = FwGoto("accepted")
      BY <1>10 DEF ThreadGrows, FwAt
  <2> QED
      BY <1>0, <2>1, FwMoves DEF FollowState, FollowTypes, PlanInv, OnItsWay, plans, StaysStamped
<1>11. ASSUME NEW accepted \in BOOLEAN, FollowupFails(accepted) PROVE FollowState'
  <2>1. fw.pc \in OnItsWay
      BY <1>11 DEF FollowupFails, FwAt, OnItsWay
  <2> DEFINE old == plan[fw.c]
             p == IF old.retries + 1 <= MaxRetries
                  THEN [old EXCEPT !.status = "retryable", !.retries = @ + 1]
                  ELSE [old EXCEPT !.status = "blocked"]
  <2>2. p \in PlanType /\ p.status # "none"
    <3>1. old \in PlanType
        BY <1>0
    <3> HIDE DEF old
    <3>2. CASE old.retries + 1 <= MaxRetries
        BY <3>1, <3>2, RowMoves
    <3>3. CASE ~(old.retries + 1 <= MaxRetries)
        BY <3>1, <3>3, RowMoves
    <3> QED
        BY <3>2, <3>3
  <2>3. Pass(fw.c, p) /\ UNCHANGED <<followed, rollout>> /\ resting' \subseteq Contacts
      BY <1>0, <1>11, <1>c DEF FollowupFails
  <2> QED
      BY <1>a, <1>c, <1>d, <2>1, <2>2, <2>3
<1>12. CASE FollowupAmbiguous
  <2>1. fw.pc \in OnItsWay /\ UNCHANGED <<resting, followed, rollout>>
        /\ Pass(fw.c, [plan[fw.c] EXCEPT !.status = "ambiguous"])
      BY <1>12 DEF FollowupAmbiguous, FwAt, OnItsWay
  <2> QED
      BY <1>0, <1>a, <1>c, <1>d, <2>1, RowMoves
<1>13. ASSUME NEW backdated \in BOOLEAN, RecordFollowup(backdated) PROVE FollowState'
  <2>1. /\ plan' = [plan EXCEPT ![fw.c] = NoPlan]
        /\ followed' = [followed EXCEPT ![fw.c] = @ + 1]
        /\ UNCHANGED <<rollout, resting>> /\ fw.pc = "accepted"
        /\ fw' = FwGoto("counting")
      BY <1>13 DEF RecordFollowup, WithPlan, FwAt
  <2>2. plan' \in [Contacts -> PlanType] /\ plan'[fw.c].status = "none"
        /\ \A c \in Contacts \ {fw.c} : plan'[c] = plan[c] /\ followed'[c] = followed[c]
      BY <1>0, <2>1, NewPlan DEF FollowState, FollowTypes
  <2>3. followed[fw.c] < MaxSequence /\ followed[fw.c] \in Touches
      BY <1>0, <1>d, <2>1 DEF FollowState, FollowTypes, PlanInv, OnItsWay
  <2>4. followed[fw.c] + 1 \in Touches
      BY <2>3, LimitsAssumption DEF Touches
  <2>5. followed' \in [Contacts -> Touches]
      BY <1>0, <2>1, <2>4 DEF FollowState, FollowTypes
  <2>6. PlanInv'
      BY <1>0, <2>1, <2>2, FwMoves DEF FollowState, PlanInv, OnItsWay, StaysStamped
  <2> QED
      BY <1>0, <2>1, <2>2, <2>5, <2>6, FwMoves DEF FollowState, FollowTypes, PlanType
<1>14. CASE CountRollout
  <2>1. UNCHANGED <<plan, followed, resting>> /\ fw' = FwIdle
      BY <1>14 DEF CountRollout
  <2>2. rollout' \in [enabled : BOOLEAN, paused : BOOLEAN, approved : BOOLEAN, count : Nat]
    <3> DEFINE count == rollout.count + 1
               stop == rollout.paused \/ (~rollout.approved /\ rollout.count + 1 >= RolloutCap)
    <3>1. rollout \in [enabled : BOOLEAN, paused : BOOLEAN, approved : BOOLEAN, count : Nat]
        BY DEF FollowState, FollowTypes
    <3>2. count \in Nat /\ stop \in BOOLEAN
        BY <3>1
    <3>3. rollout' = [rollout EXCEPT !.count = count, !.paused = stop]
        BY <1>14 DEF CountRollout, Counted
    <3> HIDE DEF count, stop
    <3> QED
        BY <3>1, <3>2, <3>3
  <2> QED
      BY <1>0, <2>1, <2>2, FwMoves DEF FollowState, FollowTypes, PlanInv, OnItsWay,
         StaysStamped
<1>15. CASE FollowupsDone \/ FollowupsDie
    BY <1>15, <1>b DEF FollowupsDone, FollowupsDie
<1> QED
    BY <1>1, <1>2, <1>3, <1>4, <1>5, <1>6, <1>7, <1>8, <1>9, <1>10, <1>11, <1>12, <1>13, <1>14,
       <1>15 DEF FollowupsNext

(* It stamps only what is stamped: the contact it sends to has a plan.      *)
LEMMA FollowupsStamp ==
  ASSUME FollowState, TimeTypes, FollowupsNext
  PROVE  \A c \in Contacts : Stamped(c)' <=> Stamped(c)
<1>1. CASE UNCHANGED phase
    BY <1>1 DEF Stamped
<1>2. CASE \E backdated \in BOOLEAN : RecordFollowup(backdated)
  <2>1. fw.pc = "accepted" /\ phase' = [phase EXCEPT ![fw.c] = "fresh"]
      BY <1>2 DEF RecordFollowup, FwAt
  <2>2. fw.c \in Contacts /\ Stamped(fw.c)
      BY <2>1 DEF FollowState, PlanInv, FwType, OnItsWay
  <2> QED
      BY <2>1, <2>2 DEF Stamped, TimeTypes
<1> QED
    BY <1>1, <1>2, FollowupsFrame

(* A thread grows only by the next sequence of the contact being called.   *)
LEMMA FollowupsThread ==
  ASSUME FollowState, FollowupsNext, thread \in [Contacts -> Seq(Touches)]
  PROVE  \/ UNCHANGED thread
         \/ /\ fw.pc = "calling" /\ fw' = FwGoto("accepted")
            /\ fw.c \in Contacts /\ NextSequence(fw.c) \in Touches
            /\ thread' = [thread EXCEPT ![fw.c] = Append(@, NextSequence(fw.c))]
            /\ UNCHANGED <<plans, uncounted>>
<1> USE DEF store, provider, history, lost
<1>1. ASSUME NEW dry \in BOOLEAN, StartFollowups(dry) PROVE UNCHANGED thread
    BY <1>1 DEF StartFollowups
<1>2. ASSUME NEW c \in Contacts, RuleOut(c) \/ TakeUp(c) \/ ThreadCheckFails(c)
      PROVE  UNCHANGED thread
    BY <1>2 DEF RuleOut, TakeUp, ThreadCheckFails
<1>3. CASE \/ FollowupDrafted \/ FollowupDraftFails \/ DraftingOutage
           \/ HoldDraft \/ Withdraw \/ WaitForTurn \/ CommitToSend
    BY <1>3 DEF FollowupDrafted, FollowupDraftFails, DraftingOutage, HoldDraft, Withdraw,
                WaitForTurn, CommitToSend
<1>4. ASSUME NEW accepted \in BOOLEAN, FollowupFails(accepted) PROVE UNCHANGED thread
    BY <1>4 DEF FollowupFails
<1>5. CASE FollowupAmbiguous \/ CountRollout \/ FollowupsDone \/ FollowupsDie
    BY <1>5 DEF FollowupAmbiguous, CountRollout, FollowupsDone, FollowupsDie
<1>6. ASSUME NEW backdated \in BOOLEAN, RecordFollowup(backdated) PROVE UNCHANGED thread
    BY <1>6 DEF RecordFollowup
<1>7. CASE ThreadGrows
  <2>1. fw.pc = "calling" /\ fw.c \in Contacts /\ fw.c \in fw.todo
      BY <1>7 DEF ThreadGrows, FwAt, FollowState, FwType, PlanInv, OnItsWay
  <2>2. followed[fw.c] < MaxSequence /\ followed[fw.c] \in Touches
      BY <2>1 DEF FollowState, FollowTypes, PlanInv, OnItsWay
  <2>3. NextSequence(fw.c) \in Touches
      BY <2>2, LimitsAssumption DEF NextSequence, Touches
  <2> QED
      BY <1>7, <2>1, <2>3 DEF ThreadGrows
<1> QED
    BY <1>1, <1>2, <1>3, <1>4, <1>5, <1>6, <1>7 DEF FollowupsNext

(* The worker keeps the types of the mail, the clock and the losses.       *)
LEMMA FollowupsMail ==
  ASSUME FollowState, MailTypes, FollowupsNext
  PROVE  MailTypes'
<1>0. UNCHANGED <<events, outbox, mail>>
    BY FollowupsFrame
<1>1. thread \in [Contacts -> Seq(Touches)]
    BY DEF MailTypes
<1>2. CASE UNCHANGED thread
    BY <1>0, <1>2 DEF MailTypes
<1>3. CASE ~UNCHANGED thread
  <2>1. thread' = [thread EXCEPT ![fw.c] = Append(@, NextSequence(fw.c))]
        /\ fw.c \in Contacts /\ NextSequence(fw.c) \in Touches
      BY <1>1, <1>3, FollowupsThread
  <2>2. Append(thread[fw.c], NextSequence(fw.c)) \in Seq(Touches)
      BY <1>1, <2>1
  <2>3. thread' \in [Contacts -> Seq(Touches)]
      BY <1>1, <2>1, <2>2
  <2> QED
      BY <1>0, <2>3 DEF MailTypes
<1> QED
    BY <1>2, <1>3

LEMMA FollowupsTimes ==
  ASSUME FollowState, TimeTypes, FollowupsNext
  PROVE  TimeTypes'
<1> USE FollowupsFrame DEF store, clock, history, lost, unfollowed, Queues
<1>0. fw.c \in Contacts
    BY DEF FollowState, FwType
<1>1. ASSUME NEW dry \in BOOLEAN, StartFollowups(dry) PROVE TimeTypes'
    BY <1>1, PacingKept DEF StartFollowups
<1>2. ASSUME NEW c \in Contacts, RuleOut(c) \/ TakeUp(c) \/ ThreadCheckFails(c)
      PROVE  TimeTypes'
    BY <1>2, PacingKept DEF RuleOut, TakeUp, ThreadCheckFails
<1>3. CASE FollowupDrafted \/ FollowupDraftFails \/ HoldDraft \/ Withdraw \/ WaitForTurn
    BY <1>3, PacingKept DEF FollowupDrafted, FollowupDraftFails, HoldDraft, Withdraw, WaitForTurn
<1>4. CASE CommitToSend \/ ThreadGrows \/ DraftingOutage
    BY <1>4, PacingKept DEF CommitToSend, ThreadGrows, DraftingOutage
<1>5. ASSUME NEW accepted \in BOOLEAN, FollowupFails(accepted) PROVE TimeTypes'
    BY <1>5, PacingKept DEF FollowupFails
<1>6. CASE FollowupAmbiguous \/ CountRollout
    BY <1>6, PacingKept DEF FollowupAmbiguous, CountRollout
<1>7. CASE FollowupsDone \/ FollowupsDie
    BY <1>7, PacingKept DEF FollowupsDone, FollowupsDie
<1>8. ASSUME NEW backdated \in BOOLEAN, RecordFollowup(backdated) PROVE TimeTypes'
  <2>1. Stamp("followup", backdated) /\ UNCHANGED hour
        /\ phase' = [phase EXCEPT ![fw.c] = "fresh"]
      BY <1>8 DEF RecordFollowup
  <2> QED
      BY <1>0, <2>1 DEF Stamp, TimeTypes, Phases
<1> QED
    BY <1>1, <1>2, <1>3, <1>4, <1>5, <1>6, <1>7, <1>8 DEF FollowupsNext

LEMMA FollowupsLosses ==
  ASSUME FollowState, LossTypes, FollowupsNext
  PROVE  LossTypes'
<1> USE DEF store
<1>0. fw.c \in Contacts
    BY DEF FollowState, FwType
<1>1. ASSUME NEW dry \in BOOLEAN, StartFollowups(dry) PROVE LossTypes'
    BY <1>0, <1>1, LossKept DEF StartFollowups
<1>2. ASSUME NEW c \in Contacts, RuleOut(c) \/ TakeUp(c) \/ ThreadCheckFails(c)
      PROVE  LossTypes'
    BY <1>2, LossKept DEF RuleOut, TakeUp, ThreadCheckFails
<1>3. CASE \/ FollowupDrafted \/ FollowupDraftFails \/ HoldDraft \/ Withdraw \/ WaitForTurn
           \/ CommitToSend \/ ThreadGrows \/ DraftingOutage
    BY <1>0, <1>3, LossKept DEF FollowupDrafted, FollowupDraftFails, DraftingFails, HoldDraft,
       Withdraw, WaitForTurn, CommitToSend, ThreadGrows, DraftingOutage
<1>4. ASSUME NEW accepted \in BOOLEAN, FollowupFails(accepted) PROVE LossTypes'
    BY <1>0, <1>4, LossKept DEF FollowupFails
<1>5. CASE FollowupAmbiguous \/ CountRollout \/ FollowupsDone \/ FollowupsDie
    BY <1>0, <1>5, LossKept DEF FollowupAmbiguous, CountRollout, FollowupsDone, FollowupsDie
<1>6. ASSUME NEW backdated \in BOOLEAN, RecordFollowup(backdated) PROVE LossTypes'
    BY <1>0, <1>6, LossKept DEF RecordFollowup
<1> QED
    BY <1>1, <1>2, <1>3, <1>4, <1>5, <1>6 DEF FollowupsNext

-----------------------------------------------------------------------------
(***************************************************************************)
(* The feedback sync writes events, and nothing else of the store.         *)
(***************************************************************************)
LEMMA FeedbackFrame ==
  ASSUME FeedbackNext
  PROVE  /\ UNCHANGED <<snd, fw, originals, plans, provider, pacing, clock, lost>>
         /\ UNCHANGED troubles \/ Trouble
<1>1. CASE PollMailbox \/ SyncDone \/ SyncDies
    BY <1>1 DEF PollMailbox, SyncDone, SyncDies, store, unsynced, history
<1>2. ASSUME NEW m \in Contacts \X Touches, RecordBounce(m) \/ RecordNotBounced(m)
      PROVE  UNCHANGED <<snd, fw, unsynced, history>>
    BY <1>2 DEF RecordBounce, RecordNotBounced
<1> QED
    BY <1>1, <1>2 DEF FeedbackNext, unsynced, history

LEMMA FeedbackKeeps ==
  ASSUME FeedbackTypeOK, MailTypes, FeedbackNext
  PROVE  FeedbackTypeOK' /\ MailTypes'
<1> USE IdleTypes
<1>0. UNCHANGED <<outbox, thread, mail>>
    BY FeedbackFrame DEF provider
<1>1. CASE PollMailbox
  <2>1. Observed \in SUBSET (Contacts \X Touches) /\ Bouncing \in SUBSET Contacts
      BY DEF Observed, Recorded, Bouncing
  <2>2. {m \in Observed : Closed(m)} \in SUBSET (Contacts \X Touches)
        /\ Attributed(Observed, Bouncing) \in SUBSET (Contacts \X Touches)
      BY <2>1 DEF Attributed
  <2>3. fb' \in FbType
      BY <1>1, <2>1, <2>2 DEF PollMailbox, FbType
  <2> QED
      BY <1>0, <1>1, <2>3 DEF PollMailbox, FeedbackTypeOK, FbType, MailTypes, store
<1>2. CASE SyncDone \/ SyncDies
    BY <1>0, <1>2 DEF SyncDone, SyncDies, FeedbackTypeOK, FbType, MailTypes, store
<1>3. ASSUME NEW m \in Contacts \X Touches, RecordBounce(m) \/ RecordNotBounced(m)
      PROVE  FeedbackTypeOK' /\ MailTypes'
  <2>1. events' \subseteq Contacts \X Touches \X {"bounced", "not_bounced"}
      BY <1>3 DEF RecordBounce, RecordNotBounced, Logged, MailTypes
  <2>2. FeedbackTypeOK'
    <3>1. CASE RecordNotBounced(m)
        BY <3>1 DEF RecordNotBounced, FeedbackTypeOK
    <3>2. CASE RecordBounce(m)
      <4>1. PICK a \in SUBSET (Contacts \X Touches) :
               fb' = [fb EXCEPT !.todo = @ \ {m}, !.added = a]
          BY <3>2 DEF RecordBounce, FeedbackTypeOK
      <4> QED
          BY <4>1 DEF FeedbackTypeOK
    <3> QED
        BY <1>3, <3>1, <3>2
  <2> QED
      BY <1>0, <2>1, <2>2 DEF MailTypes
<1> QED
    BY <1>1, <1>2, <1>3 DEF FeedbackNext

-----------------------------------------------------------------------------
(***************************************************************************)
(* Answers, time and the owner's commands.                                 *)
(***************************************************************************)
LEMMA EnvironmentFrame ==
  ASSUME Environment
  PROVE  UNCHANGED <<snd, fw, fb, posting, link, msg, result, attempts, followed, events,
                     outbox, thread, clear, inFlight, history>>
<1> USE DEF originals, plans, provider, pacing, clock, history
<1>1. ASSUME NEW c \in Contacts, NEW kind \in Answers, Answer(c, kind), UNCHANGED <<snd, fw, fb>>
      PROVE  UNCHANGED <<snd, fw, fb, posting, link, msg, result, attempts, followed, events,
                         outbox, thread, clear, inFlight, history>>
    BY <1>1 DEF Answer
<1>2. CASE LiftPause /\ UNCHANGED <<snd, fw, fb>>
    BY <1>2 DEF LiftPause
<1>3. CASE (MinutesPass \/ WindowCloses \/ BlockEnds \/ DaysPass) /\ UNCHANGED <<snd, fw, fb>>
    BY <1>3 DEF MinutesPass, WindowCloses, BlockEnds, DaysPass
<1> QED
    BY <1>1, <1>2, <1>3 DEF Environment

(* Time moves on for what is stamped.                                      *)
LEMMA EnvironmentStamp ==
  ASSUME TimeTypes, Environment
  PROVE  \A c \in Contacts : Stamped(c)' <=> Stamped(c)
<1>1. ASSUME NEW c \in Contacts, NEW kind \in Answers, Answer(c, kind)
      PROVE  UNCHANGED phase
    BY <1>1 DEF Answer, clock
<1>2. CASE LiftPause \/ MinutesPass \/ BlockEnds
    BY <1>2 DEF LiftPause, MinutesPass, BlockEnds, clock, Stamped
<1>3. CASE WindowCloses \/ DaysPass
    BY <1>3 DEF WindowCloses, DaysPass, Stamped
<1> QED
    BY <1>1, <1>2, <1>3 DEF Environment, Stamped

LEMMA EnvironmentKeeps ==
  ASSUME StoreTypes, fw \in FwType, PlanInv, Environment
  PROVE  StoreTypes' /\ PlanInv'
<1> USE EnvironmentFrame, EnvironmentStamp DEF StoreTypes
<1>a. LossTypes'
    BY DEF StoreTypes, LossTypes, history, lost
<1>1. ASSUME NEW c \in Contacts, NEW kind \in Answers, Answer(c, kind)
      PROVE  StoreTypes' /\ PlanInv'
  <2>1. UNCHANGED <<originals, plans, pacing, clock>>
        /\ mail' = [mail EXCEPT ![c] = {[kind |-> kind, after |-> Len(thread[c])]}]
      BY <1>1 DEF Answer
  <2>2. Len(thread[c]) \in Nat
      BY LenProperties DEF StoreTypes, MailTypes
  <2>3. [kind |-> kind, after |-> Len(thread[c])] \in [kind : Answers, after : Nat]
      BY <2>2
  <2>4. mail' \in [Contacts -> SUBSET [kind : Answers, after : Nat]]
      BY <2>1, <2>3 DEF StoreTypes, MailTypes
  <2>5. OriginalTypes' /\ FollowTypes' /\ TimeTypes'
      BY <2>1 DEF StoreTypes, OriginalTypes, FollowTypes, TimeTypes, originals, plans, pacing,
                  clock
  <2>6. MailTypes'
      BY <2>4 DEF StoreTypes, MailTypes
  <2> QED
      BY <1>a, <2>1, <2>5, <2>6 DEF StoreTypes, PlanInv, plans
<1>2. CASE LiftPause
  <2>1. OriginalTypes' /\ MailTypes' /\ TimeTypes'
      BY <1>2 DEF LiftPause, StoreTypes, OriginalTypes, MailTypes, TimeTypes, originals,
                  provider, pacing, clock
  <2>2. FollowTypes' /\ PlanInv'
      BY <1>2 DEF LiftPause, StoreTypes, FollowTypes, PlanInv
  <2> QED
      BY <1>a, <2>1, <2>2 DEF StoreTypes
<1>3. CASE MinutesPass \/ WindowCloses
  <2>1. MailTypes' /\ FollowTypes' /\ PlanInv'
      BY <1>3 DEF MinutesPass, WindowCloses, MinutesRunOut, StoreTypes, MailTypes, FollowTypes,
                  PlanInv, provider
  <2>2. OriginalTypes'
      BY <1>3 DEF MinutesPass, WindowCloses, MinutesRunOut, StoreTypes, OriginalTypes
  <2>3. TimeTypes'
      BY <1>3 DEF MinutesPass, WindowCloses, MinutesRunOut, StoreTypes, TimeTypes, clock, Phases
  <2> QED
      BY <1>a, <2>1, <2>2, <2>3 DEF StoreTypes
<1>4. CASE BlockEnds
  <2>1. MailTypes' /\ FollowTypes' /\ PlanInv'
      BY <1>4 DEF BlockEnds, StoreTypes, MailTypes, FollowTypes, PlanInv, provider, plans
  <2>2. OriginalTypes' /\ TimeTypes'
      BY <1>4 DEF BlockEnds, StoreTypes, OriginalTypes, TimeTypes, pacing
  <2> QED
      BY <1>a, <2>1, <2>2 DEF StoreTypes
<1>5. CASE DaysPass
  <2>1. MailTypes'
      BY <1>5 DEF DaysPass, StoreTypes, MailTypes, provider
  <2>2. OriginalTypes' /\ TimeTypes'
      BY <1>5 DEF DaysPass, MinutesRunOut, StoreTypes, OriginalTypes, TimeTypes, Phases
  <2> DEFINE row(c) == IF plan[c].draft = "fresh"
                       THEN [plan[c] EXCEPT !.draft = "stale"] ELSE plan[c]
  <2>3. ASSUME NEW c \in Contacts PROVE row(c) \in PlanType /\ row(c).status = plan[c].status
    <3> DEFINE old == plan[c]
    <3>1. old \in PlanType
        BY DEF StoreTypes, FollowTypes, PlanType
    <3> HIDE DEF old
    <3>2. [old EXCEPT !.draft = "stale"] \in PlanType
          /\ [old EXCEPT !.draft = "stale"].status = old.status
        BY <3>1 DEF PlanType
    <3> QED
        BY <3>1, <3>2 DEF old
  <2>4. plan' = [c \in Contacts |-> row(c)] /\ resting' = {} /\ UNCHANGED <<followed, rollout>>
      BY <1>5 DEF DaysPass, MinutesRunOut
  <2> HIDE DEF row
  <2>5. FollowTypes' /\ PlanInv'
      BY <2>3, <2>4 DEF StoreTypes, FollowTypes, PlanInv, PlanType, FwType
  <2> QED
      BY <1>a, <2>1, <2>2, <2>5 DEF StoreTypes
<1> QED
    BY <1>1, <1>2, <1>3, <1>4, <1>5 DEF Environment

LEMMA CommandsFrame ==
  ASSUME Commands
  PROVE  /\ UNCHANGED <<unretired, result, attempts, today, cooling, followed, rollout, resting>>
         /\ UNCHANGED troubles \/ Trouble
<1> USE DEF originals, plans, unretired, vars, store, history, taken
<1>1. ASSUME NEW kind \in {"archive", "backlog"}, ReadPosting(kind)
      PROVE  UNCHANGED vars
    BY <1>1 DEF ReadPosting
<1>2. CASE AbandonPosting \/ GiveUp \/ Demote
    BY <1>2 DEF AbandonPosting, GiveUp, Demote
<1>3. CASE SelectPlans \/ SkipPlans \/ CommandDies
    BY <1>3 DEF SelectPlans, SkipPlans, CommandDies
<1>4. ASSUME NEW cs \in SUBSET Contacts, SelectMessages(cs) \/ ContactsFound(cs)
      PROVE  UNCHANGED <<unretired, result, attempts, today, cooling, plans, troubles>>
    BY <1>4 DEF SelectMessages, ContactsFound
<1> QED
    BY <1>1, <1>2, <1>3, <1>4 DEF Commands

(* What a command carries: originals that exist, and plans of stamped      *)
(* contacts.                                                               *)
OwnInv ==
    /\ OwnIs("give_up") => \A c \in Chosen : msg[c] # "none"
    /\ OwnIs("skip_plans") => \A r \in own.rows : Stamped(r[1]) /\ r[2] <= MaxSequence

OwnType ==
    [kind : {"archive", "backlog"}, step : OwnSteps,
     was : SendingStatuses \cup OtherStatuses, rows : SUBSET (Contacts \X Nat)]

LEMMA OwnMoves ==
  ASSUME own \in OwnType
  PROVE  /\ OwnIdle \in OwnType /\ OwnIdle.step = "idle"
         /\ \A s \in OwnSteps : OwnGoto(s) \in OwnType /\ OwnGoto(s).step = s
         /\ \A s \in OwnSteps : \A r \in SUBSET (Contacts \X Nat) :
               /\ [own EXCEPT !.step = s, !.rows = r] \in OwnType
               /\ [own EXCEPT !.step = s, !.rows = r].step = s
               /\ [own EXCEPT !.step = s, !.rows = r].rows = r
  BY DEF OwnType, OwnIdle, OwnGoto, OwnSteps, SendingStatuses

(* The row a plan becomes when a command writes the plans it selected.     *)
LEMMA SkippedRow ==
  ASSUME FollowTypes, PlanInv, OwnInv, CommandTypes, OwnIs("skip_plans"), NEW c \in Contacts
  PROVE  /\ Skipped(c) \in PlanType
         /\ plan[c].status # "none" => Skipped(c).status # "none"
         /\ Skipped(c).status # "none" => followed[c] < MaxSequence /\ Stamped(c)
<1> DEFINE old == plan[c]
<1>1. old \in PlanType /\ followed[c] \in Nat /\ MaxSequence \in Nat
    BY WaveFacts, LimitsAssumption DEF FollowTypes, PlanType, Touches
<1>2. old.status # "none" => followed[c] < MaxSequence /\ Stamped(c)
    BY DEF PlanInv
<1> HIDE DEF old
<1>3. \A s \in {"archived", "skipped"} :
         [old EXCEPT !.status = s] \in PlanType /\ [old EXCEPT !.status = s].status = s
    BY <1>1 DEF PlanType, PlanStatuses
<1>4. CASE <<c, NextSequence(c)>> \in own.rows
  <2>1. Stamped(c) /\ followed[c] < MaxSequence
      BY <1>1, <1>4 DEF OwnInv, NextSequence
  <2> QED
      BY <1>3, <1>4, <2>1 DEF Skipped, old
<1>5. CASE /\ <<c, NextSequence(c)>> \notin own.rows
           /\ followed[c] < MaxSequence
           /\ \E k \in 1 .. followed[c] : <<c, k>> \in own.rows
  <2>1. Stamped(c)
      BY <1>5 DEF OwnInv
  <2> QED
      BY <1>3, <1>5, <2>1 DEF Skipped, old
<1>6. CASE /\ <<c, NextSequence(c)>> \notin own.rows
           /\ ~(/\ followed[c] < MaxSequence
                /\ \E k \in 1 .. followed[c] : <<c, k>> \in own.rows)
    BY <1>1, <1>2, <1>6 DEF Skipped, old
<1> QED
    BY <1>4, <1>5, <1>6

LEMMA CommandsKeep ==
  ASSUME StoreTypes, fw \in FwType, PlanInv, OwnInv, CommandTypes, Commands
  PROVE  StoreTypes' /\ PlanInv' /\ CommandTypes'
<1> USE CommandsFrame
<1>0. own \in OwnType /\ \A c \in Contacts : Stamped(c)' <=> Stamped(c)
    BY DEF CommandTypes, OwnType, Stamped, unretired, clock
<1>a. MailTypes' /\ TimeTypes'
    BY DEF StoreTypes, MailTypes, TimeTypes, unretired, provider, pacing, clock
<1>b. LossTypes'
    BY LossKept, WaveFacts DEF StoreTypes, unretired, history
<1>c. ASSUME UNCHANGED plan PROVE FollowTypes' /\ PlanInv'
    BY <1>0, <1>c DEF StoreTypes, FollowTypes, PlanInv, unretired
<1>d. ASSUME UNCHANGED <<plan, retired, held>>, OriginalTypes', own' \in OwnType
      PROVE  StoreTypes' /\ PlanInv' /\ CommandTypes'
    BY <1>a, <1>b, <1>c, <1>d DEF StoreTypes, CommandTypes, OwnType
<1>e. ASSUME UNCHANGED <<posting, link, msg, aged>> PROVE OriginalTypes'
    BY <1>e DEF StoreTypes, OriginalTypes
<1>1. ASSUME NEW kind \in {"archive", "backlog"}, ReadPosting(kind)
      PROVE  StoreTypes' /\ PlanInv' /\ CommandTypes'
  <2>1. UNCHANGED <<plan, retired, held, posting, link, msg, aged>>
      BY <1>1 DEF ReadPosting, taken, vars, store, originals, plans
  <2>2. own' \in OwnType
      BY <1>1 DEF ReadPosting, OwnType, OwnSteps, StoreTypes, OriginalTypes
  <2> QED
      BY <1>d, <1>e, <2>1, <2>2
<1>2. CASE AbandonPosting \/ Demote
  <2>1. OriginalTypes' /\ UNCHANGED <<plan, retired, held>>
      BY <1>2 DEF AbandonPosting, Demote, StoreTypes, OriginalTypes, OtherStatuses, plans, taken
  <2>2. own' \in OwnType
    <3>1. OwnIdle \in OwnType /\ OwnGoto("select") \in OwnType
        BY <1>0, OwnMoves DEF OwnSteps
    <3> QED
        BY <1>2, <3>1 DEF AbandonPosting, Demote
  <2> QED
      BY <1>d, <2>1, <2>2
<1>3. ASSUME NEW cs \in SUBSET Contacts, SelectMessages(cs)
      PROVE  StoreTypes' /\ PlanInv' /\ CommandTypes'
  <2>1. UNCHANGED <<plan, retired, held, posting, link, msg, aged>>
      BY <1>3 DEF SelectMessages, taken, vars, store, originals, plans
  <2>2. {<<c, 0>> : c \in cs} \in SUBSET (Contacts \X Nat)
      OBVIOUS
  <2>3. own' = OwnIdle \/ own' = [own EXCEPT !.step = "give_up", !.rows = {<<c, 0>> : c \in cs}]
      BY <1>3 DEF SelectMessages
  <2> DEFINE rows == {<<c, 0>> : c \in cs}
  <2> HIDE DEF rows
  <2>4. OwnIdle \in OwnType /\ [own EXCEPT !.step = "give_up", !.rows = rows] \in OwnType
      BY <1>0, <2>2, OwnMoves DEF OwnSteps, rows
  <2>5. own' \in OwnType
      BY <2>3, <2>4 DEF rows
  <2> QED
      BY <1>d, <1>e, <2>1, <2>5
<1>4. CASE GiveUp
  <2>1. Chosen \subseteq Contacts
      BY DEF Chosen
  <2>2. OriginalTypes' /\ FollowTypes' /\ PlanInv'
      BY <1>c, <1>4 DEF GiveUp, StoreTypes, OriginalTypes, MessageStatuses, plans
  <2>3. own' \in OwnType
    <3>1. OwnIdle \in OwnType /\ OwnGoto("select_plans") \in OwnType /\ OwnGoto("demote") \in OwnType
        BY <1>0, OwnMoves DEF OwnSteps
    <3> QED
        BY <1>4, <3>1 DEF GiveUp
  <2>4. held' \subseteq retired' /\ retired' \subseteq Contacts
      BY <1>4, <2>1 DEF GiveUp, CommandTypes
  <2> QED
      BY <1>a, <1>b, <2>2, <2>3, <2>4 DEF StoreTypes, CommandTypes, OwnType
<1>5. CASE SelectPlans
  <2> DEFINE rows == {<<c, NextSequence(c)>> :
                      c \in {d \in Contacts : plan[d].status \notin Settled}}
  <2>1. UNCHANGED <<plan, retired, held, posting, link, msg, aged>>
        /\ own' = [own EXCEPT !.step = "skip_plans", !.rows = rows]
      BY <1>5 DEF SelectPlans, taken, vars, store, originals, plans
  <2>2. rows \in SUBSET (Contacts \X Nat)
    <3>1. ASSUME NEW c \in Contacts PROVE NextSequence(c) \in Nat
      <4>1. followed[c] \in Nat
          BY WaveFacts DEF StoreTypes, FollowTypes
      <4> QED
          BY <4>1 DEF NextSequence
    <3> QED
        BY <3>1
  <2> HIDE DEF rows
  <2>3. own' \in OwnType
      BY <1>0, <2>1, <2>2, OwnMoves DEF OwnSteps
  <2> QED
      BY <1>d, <1>e, <2>1, <2>3
<1>6. CASE SkipPlans
  <2>1. plan' = [c \in Contacts |-> Skipped(c)] /\ UNCHANGED <<originals, retired, held>>
        /\ own' = OwnIdle /\ OwnIs("skip_plans")
      BY <1>6 DEF SkipPlans, taken
  <2>2. ASSUME NEW c \in Contacts
        PROVE  /\ Skipped(c) \in PlanType
               /\ plan[c].status # "none" => Skipped(c).status # "none"
               /\ Skipped(c).status # "none" => followed[c] < MaxSequence /\ Stamped(c)
      BY <2>1, SkippedRow DEF StoreTypes
  <2>3. FollowTypes' /\ PlanInv'
    <3>1. plan' \in [Contacts -> PlanType]
        BY <2>1, <2>2
    <3>2. ASSUME NEW c \in Contacts
          PROVE  /\ plan'[c].status # "none" => followed[c] < MaxSequence /\ Stamped(c)
                 /\ plan[c].status # "none" => plan'[c].status # "none"
        BY <2>1, <2>2
    <3>3. PlanInv'
        BY <1>0, <3>2 DEF PlanInv, FwType, unretired
    <3> QED
        BY <3>1, <3>3 DEF StoreTypes, FollowTypes, PlanType
  <2>4. OriginalTypes'
      BY <1>e, <2>1 DEF originals
  <2>5. own' \in OwnType
      BY <1>0, <2>1, OwnMoves
  <2> QED
      BY <1>a, <1>b, <2>1, <2>3, <2>4, <2>5 DEF StoreTypes, CommandTypes, OwnType
<1>7. CASE CommandDies
  <2>1. UNCHANGED <<plan, retired, held, posting, link, msg, aged>> /\ own' = OwnIdle
      BY <1>7 DEF CommandDies, taken, originals, plans
  <2> QED
      BY <1>0, <1>d, <1>e, <2>1, OwnMoves
<1>8. ASSUME NEW cs \in SUBSET Contacts, ContactsFound(cs)
      PROVE  StoreTypes' /\ PlanInv' /\ CommandTypes'
  <2>1. OriginalTypes' /\ UNCHANGED <<plan, retired, held, own>>
      BY <1>8 DEF ContactsFound, StoreTypes, OriginalTypes, SendingStatuses, LinkStatuses, plans,
                  taken
  <2> QED
      BY <1>0, <1>d, <2>1
<1> QED
    BY <1>1, <1>2, <1>3, <1>4, <1>5, <1>6, <1>7, <1>8 DEF Commands

-----------------------------------------------------------------------------
(***************************************************************************)
(* The messages.  RowInv: a contact not yet drafted has no message, and a  *)
(* message is sent, or taken out when it was, once a sent_at is on record. *)
(* HandInv: the sending action has loaded what is not sent, and whoever is *)
(* pending before one of the wave it walks is in that wave, too.  OutInv:  *)
(* a message that a command took out, and no cycle had loaded, is neither  *)
(* pending nor loaded.                                                     *)
(***************************************************************************)
Sending == {"calling", "accepted"}
Walking == {"wave"} \cup Sending

RowInv ==
    \A c \in Contacts :
        /\ link[c] \in {"identified", "shortlisted"} => msg[c] = "none"
        /\ msg[c] = "sent" => Stamped(c)
        /\ Stamped(c) => msg[c] \in {"sent", "failed"}

HandInv ==
    /\ snd.pc \in {"drafting", "rendering"} => \A c \in Ahead : msg[c] = "none"
    /\ snd.pc = "rendering" => snd.c \in Ahead /\ link[snd.c] = "outreach_in_progress"
    /\ snd.pc = "refreshing" => snd.passed = {}
    /\ snd.pc = "rewriting" => ~Stamped(snd.c) /\ msg[snd.c] # "none"
    /\ snd.pc \in Walking =>
         /\ \A c \in Ahead : ~Stamped(c) /\ msg[c] # "none"
         /\ \A i, j \in Positions :
               i < j /\ Wave[j] \in Ahead /\ Pending(Wave[i]) => Wave[i] \in Ahead
    /\ snd.pc \in Sending => snd.c \in FirstOf(Ahead)

OutInv ==
    /\ \A c \in retired : msg[c] # "none"
    /\ \A c \in retired \ held : c \notin InHand /\ ~Pending(c)

(* What a step of anybody but a command leaves true of the messages.       *)
Kept ==
    \A c \in Contacts :
        /\ msg[c] # "none" => msg'[c] # "none"
        /\ Pending(c)' => Pending(c) \/ c \in InHand \/ msg[c] = "none"
        /\ c \in InHand' => c \in InHand \/ Pending(c)
        /\ Stamped(c) => Stamped(c)'

SameStamps == \A c \in Contacts : Stamped(c)' <=> Stamped(c)

Sound == OriginalTypes /\ TimeTypes /\ SendingTypeOK /\ RowInv /\ HandInv

LEMMA HandFacts ==
  ASSUME SendingTypeOK
  PROVE  /\ snd.c \in Contacts /\ snd.wave \subseteq Contacts /\ snd.passed \subseteq Contacts
         /\ Ahead \subseteq Contacts /\ InHand \subseteq Contacts
  BY DEF SendingTypeOK, Ahead, InHand

(* What waits is unsent, and everybody pending waits.                      *)
LEMMA WaitingFacts ==
  ASSUME RowInv
  PROVE  /\ Waiting \subseteq Contacts /\ Frontier \subseteq Waiting
         /\ \A c \in Waiting : Pending(c) /\ msg[c] # "none" /\ ~Stamped(c)
         /\ \A c \in Contacts : Pending(c) => c \in Waiting
<1>1. \A c \in Contacts : Pending(c) => msg[c] \in {"generated", "blocked"}
    BY DEF Pending, Retryable
<1>2. Waiting \subseteq Contacts /\ \A c \in Waiting : Pending(c)
    BY DEF Waiting, InWave
<1>3. Frontier \subseteq Waiting
    BY FirstOfIn DEF Frontier
<1> QED
    BY <1>1, <1>2, <1>3 DEF RowInv, Waiting, InWave

(* A step of somebody else, or of the sending action at no message.        *)
LEMMA QuietRows ==
  ASSUME RowInv, UNCHANGED <<msg, link, result>>, SameStamps,
         \A c \in Contacts : c \in InHand' => c \in InHand \/ Pending(c)
  PROVE  RowInv' /\ Kept /\ \A c \in Contacts : Pending(c)' <=> Pending(c)
<1>1. \A c \in Contacts : Pending(c)' <=> Pending(c)
    BY DEF Pending, Retryable
<1> QED
    BY <1>1 DEF RowInv, Kept, SameStamps

(* A step that changes one message.                                        *)
LEMMA OneRow ==
  ASSUME OriginalTypes, TimeTypes, RowInv, NEW c \in Contacts, NEW m \in MessageStatuses,
         m # "none", msg' = [msg EXCEPT ![c] = m],
         \A d \in Contacts \ {c} : link'[d] = link[d] /\ result'[d] = result[d],
         link'[c] \notin {"identified", "shortlisted"},
         \/ phase' = phase /\ ~Stamped(c) /\ m # "sent"
         \/ phase' = [phase EXCEPT ![c] = "fresh"] /\ m = "sent",
         c \in InHand \/ msg[c] = "none" \/ ~Pending(c)',
         InHand' \subseteq InHand
  PROVE  RowInv' /\ Kept /\ \A d \in Contacts \ {c} : Pending(d)' <=> Pending(d)
<1>1. msg'[c] = m /\ \A d \in Contacts \ {c} : msg'[d] = msg[d]
    BY DEF OriginalTypes
<1>2. \A d \in Contacts \ {c} : (Pending(d)' <=> Pending(d)) /\ (Stamped(d)' <=> Stamped(d))
    BY <1>1 DEF Pending, Retryable, Stamped, TimeTypes
<1>3. (Stamped(c)' <=> m = "sent") /\ (Stamped(c) => m = "sent")
    BY DEF Stamped, TimeTypes
<1>4. ASSUME NEW d \in Contacts
      PROVE  /\ link'[d] \in {"identified", "shortlisted"} => msg'[d] = "none"
             /\ msg'[d] = "sent" => Stamped(d)'
             /\ Stamped(d)' => msg'[d] \in {"sent", "failed"}
    BY <1>1, <1>2, <1>3 DEF RowInv
<1>5. ASSUME NEW d \in Contacts
      PROVE  /\ msg[d] # "none" => msg'[d] # "none"
             /\ Pending(d)' => Pending(d) \/ d \in InHand \/ msg[d] = "none"
             /\ d \in InHand' => d \in InHand \/ Pending(d)
             /\ Stamped(d) => Stamped(d)'
    BY <1>1, <1>2, <1>3
<1> QED
    BY <1>2, <1>4, <1>5 DEF RowInv, Kept

(* Nothing is asked of the sending action between two loops.               *)
LEMMA HandEmpty ==
  ASSUME snd'.pc \in {"idle", "observing"}
  PROVE  HandInv' /\ InHand' = {}
  BY DEF HandInv, InHand, Walking, Sending

(* Nor of what it does not do itself.                                      *)
LEMMA HandKept ==
  ASSUME SendingTypeOK, HandInv, UNCHANGED snd, link' = link \/ snd.pc = "idle",
         \A c \in Contacts : /\ msg'[c] = "none" <=> msg[c] = "none"
                             /\ Pending(c)' => Pending(c)
                             /\ Stamped(c)' <=> Stamped(c)
  PROVE  HandInv' /\ InHand' = InHand
<1>1. Ahead' = Ahead /\ InHand' = InHand
    BY DEF Ahead, InHand
<1>2. FirstOf(Ahead)' = FirstOf(Ahead)
    BY <1>1 DEF FirstOf
<1> QED
    BY <1>1, <1>2, HandFacts, WaveFacts DEF HandInv, Walking, Sending

(* The fields of the sending action after a move.                          *)
LEMMA SndFields ==
  ASSUME SendingTypeOK
  PROVE  /\ SndIdle.pc = "idle" /\ SndIdle.passed = {}
         /\ \A pc \in SndSteps :
               /\ Goto(pc).pc = pc /\ Goto(pc).c = snd.c /\ Goto(pc).wave = snd.wave
               /\ Goto(pc).passed = snd.passed
               /\ [SndIdle EXCEPT !.pc = pc].pc = pc /\ [SndIdle EXCEPT !.pc = pc].passed = {}
  BY DEF SendingTypeOK, SndIdle, Goto, SndSteps

(* The sending action drafts: what it loaded has no message yet.           *)
LEMMA DraftingMessages ==
  ASSUME Sound,
         \/ StartSending \/ DraftsDone \/ DraftRendered \/ DraftFails
         \/ \E c \in Contacts : PromoteContact(c)
  PROVE  RowInv' /\ HandInv' /\ Kept
<1> USE DEF Sound, At
<1>0. SendingTypeOK /\ snd.c \in Contacts /\ Ahead \subseteq Contacts
    BY HandFacts
<1>1. CASE StartSending
  <2>1. UNCHANGED <<msg, link, result, phase>>
      BY <1>1 DEF StartSending
  <2>2. \/ /\ snd'.pc = "drafting" /\ snd'.wave = Selected(link)
        \/ /\ snd'.pc = "refreshing" /\ snd'.passed = {}
      BY <1>1 DEF StartSending, SndIdle
  <2>3. InHand' = {} /\ \A c \in Ahead' : snd'.pc = "drafting" => c \in Selected(link)
      BY <2>2 DEF InHand, Ahead
  <2>4. \A c \in Selected(link) : msg'[c] = "none"
      BY <2>1 DEF Selected, RowInv
  <2>5. HandInv'
      BY <2>2, <2>3, <2>4 DEF HandInv, Walking, Sending
  <2> QED
      BY <2>1, <2>3, <2>5, QuietRows DEF SameStamps, Stamped
<1>2. CASE DraftsDone
  <2>1. UNCHANGED <<msg, link, result, phase>> /\ snd' = [SndIdle EXCEPT !.pc = "refreshing"]
      BY <1>2 DEF DraftsDone, store, originals, clock
  <2>2. snd'.pc = "refreshing" /\ snd'.passed = {}
      BY <2>1 DEF SndIdle
  <2>3. InHand' = {} /\ HandInv'
      BY <2>2 DEF InHand, HandInv, Walking, Sending
  <2> QED
      BY <2>1, <2>3, QuietRows DEF SameStamps, Stamped
<1>3. ASSUME NEW c \in Contacts, PromoteContact(c)
      PROVE  RowInv' /\ HandInv' /\ Kept
  <2>1. /\ snd.pc = "drafting" /\ c \in Ahead /\ UNCHANGED <<msg, result, phase>>
        /\ link' = [link EXCEPT ![c] = "outreach_in_progress"]
        /\ snd' = [snd EXCEPT !.pc = "rendering", !.c = c]
      BY <1>3 DEF PromoteContact
  <2>2. snd'.pc = "rendering" /\ snd'.c = c /\ Ahead' = Ahead /\ InHand' = {}
      BY <2>1 DEF SendingTypeOK, Ahead, InHand
  <2>3. link'[c] = "outreach_in_progress" /\ \A d \in Contacts \ {c} : link'[d] = link[d]
      BY <2>1 DEF OriginalTypes
  <2>4. HandInv'
      BY <2>1, <2>2, <2>3 DEF HandInv, Walking, Sending
  <2>5. SameStamps /\ \A d \in Contacts : Pending(d)' <=> Pending(d)
      BY <2>1 DEF SameStamps, Stamped, Pending, Retryable
  <2>6. RowInv'
      BY <2>1, <2>3, <2>5 DEF RowInv, SameStamps
  <2> QED
      BY <2>1, <2>2, <2>4, <2>5, <2>6 DEF Kept, SameStamps
<1>4. CASE DraftRendered \/ DraftFails
  <2>1. PICK status \in {"generated", "failed"} : StoreDraft(status)
      BY <1>4 DEF DraftRendered, DraftFails
  <2>2. /\ snd.pc = "rendering" /\ UNCHANGED <<link, phase>>
        /\ msg' = [msg EXCEPT ![snd.c] = status]
        /\ result' = [result EXCEPT ![snd.c] = status]
        /\ snd' = [snd EXCEPT !.pc = "drafting", !.passed = @ \cup {snd.c}]
      BY <2>1 DEF StoreDraft
  <2>3. snd'.pc = "drafting" /\ Ahead' = Ahead \ {snd.c} /\ InHand' = {}
      BY <2>2 DEF SendingTypeOK, Ahead, InHand
  <2>4. msg[snd.c] = "none" /\ link[snd.c] = "outreach_in_progress" /\ ~Stamped(snd.c)
      BY <1>0, <2>2 DEF HandInv, RowInv
  <2>5. HandInv'
      BY <1>0, <2>2, <2>3 DEF HandInv, Walking, Sending, OriginalTypes
  <2>6. /\ status \in MessageStatuses /\ status # "none" /\ status # "sent"
        /\ \A d \in Contacts \ {snd.c} : link'[d] = link[d] /\ result'[d] = result[d]
        /\ link'[snd.c] \notin {"identified", "shortlisted"} /\ InHand' \subseteq InHand
      BY <2>2, <2>3, <2>4 DEF MessageStatuses, OriginalTypes
  <2> QED
      BY <1>0, <2>2, <2>4, <2>5, <2>6, OneRow
<1> QED
    BY <1>1, <1>2, <1>3, <1>4

(* It writes the frontier's drafts anew: they are not sent.                *)
LEMMA RefreshingMessages ==
  ASSUME Sound, RefreshDraft \/ RefreshFails \/ \E c \in Contacts : LoadStale(c)
  PROVE  RowInv' /\ HandInv' /\ Kept
<1> USE DEF Sound, At
<1>0. SendingTypeOK /\ snd.c \in Contacts
    BY HandFacts
<1>1. ASSUME NEW c \in Contacts, LoadStale(c)
      PROVE  RowInv' /\ HandInv' /\ Kept
  <2>1. /\ UNCHANGED <<msg, link, result, phase>> /\ c \in Frontier
        /\ snd' = [snd EXCEPT !.pc = "rewriting", !.c = c]
      BY <1>1 DEF LoadStale, Stale, store, originals, clock
  <2>2. snd'.pc = "rewriting" /\ snd'.c = c /\ InHand' = {}
      BY <2>1 DEF SendingTypeOK, InHand
  <2>3. ~Stamped(c)' /\ msg'[c] # "none"
      BY <2>1, WaitingFacts DEF Stamped
  <2>4. HandInv'
      BY <2>2, <2>3 DEF HandInv, Walking, Sending
  <2> QED
      BY <2>1, <2>2, <2>4, QuietRows DEF SameStamps, Stamped
<1>2. CASE RefreshDraft
  <2>1. /\ UNCHANGED <<msg, link, phase>> /\ snd' = [SndIdle EXCEPT !.pc = "refreshing"]
        /\ result' = [result EXCEPT ![snd.c] = "generated"]
      BY <1>2 DEF RefreshDraft
  <2>2. snd'.pc = "refreshing" /\ snd'.passed = {} /\ InHand' = {}
      BY <2>1 DEF SndIdle, InHand
  <2>3. HandInv'
      BY <2>2 DEF HandInv, Walking, Sending
  <2>4. SameStamps /\ \A d \in Contacts : Pending(d)' => Pending(d)
      BY <1>0, <2>1 DEF SameStamps, Stamped, Pending, Retryable, OriginalTypes
  <2> QED
      BY <2>1, <2>2, <2>3, <2>4 DEF RowInv, Kept, SameStamps
<1>3. CASE RefreshFails
  <2>1. /\ UNCHANGED <<link, phase>> /\ snd' = [SndIdle EXCEPT !.pc = "refreshing"]
        /\ msg' = [msg EXCEPT ![snd.c] = "blocked"] /\ snd.pc = "rewriting"
        /\ result' = [result EXCEPT ![snd.c] = "blocked"]
      BY <1>3 DEF RefreshFails, Block
  <2>2. snd'.pc = "refreshing" /\ snd'.passed = {} /\ InHand' = {}
      BY <2>1 DEF SndIdle, InHand
  <2>3. HandInv'
      BY <2>2 DEF HandInv, Walking, Sending
  <2>4. ~Stamped(snd.c) /\ link'[snd.c] \notin {"identified", "shortlisted"}
      BY <1>0, <2>1 DEF HandInv, RowInv
  <2>5. PICK c \in Contacts : c = snd.c
      BY <1>0
  <2>6. msg'[c] = "blocked" /\ result'[c] = "blocked"
        /\ \A d \in Contacts \ {c} : link'[d] = link[d] /\ result'[d] = result[d]
      BY <2>1, <2>5 DEF OriginalTypes
  <2>7. ~Pending(c)' /\ "blocked" \in MessageStatuses /\ InHand' \subseteq InHand
      BY <2>2, <2>6 DEF Pending, Retryable, MessageStatuses
  <2> QED
      BY <2>1, <2>3, <2>4, <2>5, <2>6, <2>7, OneRow
<1> QED
    BY <1>1, <1>2, <1>3

(* It walks the wave, and ends its cycle.                                  *)
LEMMA WalkingMessages ==
  ASSUME Sound,
         \/ BeginWave \/ EndWave \/ ProviderAccepts \/ ObserveSent \/ SendingDies
         \/ \E c \in Contacts : Visit(c)
  PROVE  RowInv' /\ HandInv' /\ Kept
<1> USE DEF Sound, At
<1>0. SendingTypeOK /\ snd.c \in Contacts /\ UNCHANGED <<msg, link, result, phase>>
    BY HandFacts DEF BeginWave, EndWave, ProviderAccepts, ObserveSent, SendingDies, Visit,
       originals, clock
<1>1. SameStamps /\ \A c \in Contacts : Pending(c)' <=> Pending(c)
    BY <1>0 DEF SameStamps, Stamped, Pending, Retryable
<1>2. ASSUME \A c \in Contacts : c \in InHand' => c \in InHand \/ Pending(c)
      PROVE  RowInv' /\ Kept
    BY <1>0, <1>1, <1>2, QuietRows
<1>3. CASE EndWave \/ ObserveSent \/ SendingDies \/ snd' = SndIdle
  <2>1. snd'.pc = "idle"
      BY <1>3 DEF EndWave, ObserveSent, SendingDies, SndIdle
  <2> QED
      BY <1>2, <2>1, HandEmpty
<1>4. CASE snd' = [snd EXCEPT !.pc = "wave", !.wave = Waiting] /\ snd.pc = "refreshing"
  <2>1. snd'.pc = "wave" /\ Ahead' = Waiting /\ InHand' = Waiting
      BY <1>4 DEF SendingTypeOK, Ahead, InHand, HandInv
  <2>2. \A c \in Waiting : c \in Contacts /\ Pending(c) /\ msg[c] # "none" /\ ~Stamped(c)
      BY WaitingFacts
  <2>3. \A c \in Ahead' : ~Stamped(c)' /\ msg'[c] # "none"
      BY <1>0, <1>1, <2>1, <2>2 DEF SameStamps
  <2>4. \A i \in Positions : Pending(Wave[i])' => Wave[i] \in Ahead'
      BY <1>1, <2>1, WaitingFacts, WaveFacts
  <2>5. HandInv'
      BY <2>1, <2>3, <2>4 DEF HandInv, Walking, Sending
  <2> QED
      BY <1>2, <2>1, <2>2, <2>5
<1>5. ASSUME snd.pc \in {"wave", "calling"}, snd'.pc \in {"calling", "accepted"},
             Ahead' = Ahead, snd'.c \in FirstOf(Ahead)
      PROVE  RowInv' /\ HandInv' /\ Kept
  <2>1. InHand' = InHand
      BY <1>5 DEF InHand
  <2>2. FirstOf(Ahead)' = FirstOf(Ahead)
      BY <1>5 DEF FirstOf
  <2>3. \A c \in Ahead' : ~Stamped(c)' /\ msg'[c] # "none"
      BY <1>0, <1>1, <1>5, HandFacts DEF HandInv, Walking, Sending, SameStamps
  <2>4. \A i, j \in Positions :
           i < j /\ Wave[j] \in Ahead' /\ Pending(Wave[i])' => Wave[i] \in Ahead'
      BY <1>1, <1>5, WaveFacts DEF HandInv, Walking, Sending
  <2>5. HandInv'
      BY <1>5, <2>2, <2>3, <2>4 DEF HandInv, Walking, Sending
  <2> QED
      BY <1>2, <2>1, <2>5
<1>6. ASSUME NEW c \in Contacts, Visit(c)
      PROVE  RowInv' /\ HandInv' /\ Kept
  <2>1. /\ snd.pc = "wave" /\ c \in FirstOf(Ahead)
        /\ snd' = [snd EXCEPT !.pc = "calling", !.c = c]
      BY <1>6 DEF Visit
  <2>2. snd'.pc = "calling" /\ snd'.c = c /\ Ahead' = Ahead
      BY <2>1 DEF SendingTypeOK, Ahead
  <2> QED
      BY <1>5, <2>1, <2>2
<1>7. CASE ProviderAccepts
  <2>1. snd.pc = "calling" /\ snd' = Goto("accepted")
      BY <1>7 DEF ProviderAccepts
  <2>2. snd'.pc = "accepted" /\ snd'.c = snd.c /\ Ahead' = Ahead
      BY <2>1 DEF SendingTypeOK, Ahead, Goto
  <2>3. snd.c \in FirstOf(Ahead)
      BY <2>1 DEF HandInv, Sending
  <2> QED
      BY <1>5, <2>1, <2>2, <2>3
<1>8. CASE BeginWave
    BY <1>3, <1>4, <1>8 DEF BeginWave
<1> QED
    BY <1>3, <1>6, <1>7, <1>8

(* The end of a call changes the message in hand, which is not sent.       *)
LEMMA CallMessages ==
  ASSUME Sound,
         \/ \E accepted, published \in BOOLEAN :
               Rejected(accepted) \/ TransientFailure(accepted, published)
         \/ AnswerWithoutId \/ RecordSent \/ RecordDies
  PROVE  RowInv' /\ HandInv' /\ Kept
<1> USE DEF Sound, At
<1>0. /\ snd.pc \in Sending /\ SendingTypeOK /\ snd.c \in Contacts
      /\ msg \in [Contacts -> MessageStatuses] /\ result \in [Contacts -> Results]
      /\ link \in [Contacts -> LinkStatuses]
    BY HandFacts DEF Rejected, TransientFailure, AnswerWithoutId, RecordSent, RecordDies,
       Sending, OriginalTypes
<1>1. snd.c \in Ahead /\ snd.c \in InHand /\ InHand = Ahead /\ ~Stamped(snd.c)
      /\ link[snd.c] \notin {"identified", "shortlisted"}
    BY <1>0, FirstOfIn DEF HandInv, Walking, Sending, InHand, RowInv
<1> USE DEF MessageStatuses
<1>2. ASSUME NEW accepted \in BOOLEAN, Rejected(accepted)
      PROVE  RowInv' /\ HandInv' /\ Kept
  <2>1. /\ UNCHANGED <<link, phase>> /\ msg' = [msg EXCEPT ![snd.c] = "failed"]
        /\ result' = [result EXCEPT ![snd.c] = "failed"]
        /\ snd' = [snd EXCEPT !.pc = "wave", !.passed = @ \cup {snd.c}]
      BY <1>2 DEF Rejected
  <2>2. snd'.pc = "wave" /\ Ahead' = Ahead \ {snd.c} /\ InHand' = Ahead \ {snd.c}
      BY <2>1 DEF SendingTypeOK, Ahead, InHand
  <2>3. RowInv' /\ Kept /\ \A d \in Contacts \ {snd.c} : Pending(d)' <=> Pending(d)
    <3>1. \A d \in Contacts \ {snd.c} : link'[d] = link[d] /\ result'[d] = result[d]
        BY <1>0, <2>1
    <3> QED
        BY <1>0, <1>1, <2>1, <2>2, <3>1, OneRow
  <2>4. /\ \A i \in Positions : Pending(Wave[i])' => Wave[i] # snd.c
        /\ \A c \in Ahead' : msg'[c] = msg[c] /\ (Stamped(c)' <=> Stamped(c))
      BY <1>0, <2>1, <2>2, HandFacts DEF Pending, Retryable, Stamped
  <2>5. \A c \in Ahead' : ~Stamped(c)' /\ msg'[c] # "none"
      BY <1>0, <2>2, <2>4 DEF HandInv, Walking
  <2>6. ASSUME NEW i \in Positions, NEW j \in Positions,
               i < j, Wave[j] \in Ahead', Pending(Wave[i])'
        PROVE  Wave[i] \in Ahead'
    <3>1. Wave[i] # snd.c /\ Wave[i] \in Contacts
        BY <2>4, <2>6, WaveFacts
    <3>2. Pending(Wave[i]) /\ Wave[j] \in Ahead
        BY <2>2, <2>3, <2>6, <3>1
    <3>3. Wave[i] \in Ahead
        BY <1>0, <2>6, <3>2 DEF HandInv, Walking
    <3> QED
        BY <2>2, <3>1, <3>3
  <2>7. HandInv'
      BY <2>2, <2>5, <2>6 DEF HandInv, Walking, Sending
  <2> QED
      BY <2>3, <2>7
<1>3. ASSUME NEW m \in {"blocked", "sent"}, msg' = [msg EXCEPT ![snd.c] = m],
             snd'.pc \in {"idle", "observing"},
             \A d \in Contacts \ {snd.c} : link'[d] = link[d] /\ result'[d] = result[d],
             link'[snd.c] \notin {"identified", "shortlisted"},
             \/ phase' = phase /\ m # "sent"
             \/ phase' = [phase EXCEPT ![snd.c] = "fresh"] /\ m = "sent"
      PROVE  RowInv' /\ HandInv' /\ Kept
  <2>1. HandInv' /\ InHand' \subseteq InHand
      BY <1>3, HandEmpty
  <2> QED
      BY <1>0, <1>1, <1>3, <2>1, OneRow
<1>4. ASSUME NEW accepted \in BOOLEAN, NEW published \in BOOLEAN,
             TransientFailure(accepted, published)
      PROVE  RowInv' /\ HandInv' /\ Kept
  <2>1. /\ UNCHANGED <<link, phase>> /\ msg' = [msg EXCEPT ![snd.c] = "blocked"]
        /\ snd' = SndIdle /\ (result' = [result EXCEPT ![snd.c] = "transient"] \/ result' = result)
      BY <1>4 DEF TransientFailure
  <2>2. snd'.pc = "idle" /\ \A d \in Contacts \ {snd.c} : link'[d] = link[d] /\ result'[d] = result[d]
      BY <1>0, <2>1 DEF SndIdle
  <2> QED
      BY <1>1, <1>3, <2>1, <2>2
<1>5. CASE AnswerWithoutId
  <2>1. /\ UNCHANGED phase /\ msg' = [msg EXCEPT ![snd.c] = "blocked"] /\ snd' = SndIdle
        /\ link' = [link EXCEPT ![snd.c] = "exhausted"]
        /\ result' = [result EXCEPT ![snd.c] = "blocked"]
      BY <1>5 DEF AnswerWithoutId, Block
  <2>2. snd'.pc = "idle" /\ link'[snd.c] \notin {"identified", "shortlisted"}
        /\ \A d \in Contacts \ {snd.c} : link'[d] = link[d] /\ result'[d] = result[d]
      BY <1>0, <2>1 DEF SndIdle
  <2> QED
      BY <1>3, <2>1, <2>2
<1>6. CASE RecordSent
  <2>1. /\ phase' = [phase EXCEPT ![snd.c] = "fresh"] /\ msg' = [msg EXCEPT ![snd.c] = "sent"]
        /\ snd' = Goto("observing") /\ link' = [link EXCEPT ![snd.c] = "outreach_done"]
        /\ result' = [result EXCEPT ![snd.c] = "sent"]
      BY <1>6 DEF RecordSent, MarkSent
  <2>2. snd'.pc = "observing" /\ link'[snd.c] \notin {"identified", "shortlisted"}
        /\ \A d \in Contacts \ {snd.c} : link'[d] = link[d] /\ result'[d] = result[d]
      BY <1>0, <2>1, SndFields DEF SndSteps
  <2> QED
      BY <1>3, <2>1, <2>2
<1>7. CASE RecordDies
  <2>1. /\ phase' = [phase EXCEPT ![snd.c] = "fresh"] /\ msg' = [msg EXCEPT ![snd.c] = "sent"]
        /\ snd' = SndIdle /\ UNCHANGED <<link, result>>
      BY <1>7 DEF RecordDies, MarkSent
  <2>2. snd'.pc = "idle"
      BY <2>1 DEF SndIdle
  <2> QED
      BY <1>1, <1>3, <2>1, <2>2
<1> QED
    BY <1>2, <1>4, <1>5, <1>6, <1>7

LEMMA SendingMessages ==
  ASSUME Sound, SendingNext
  PROVE  RowInv' /\ HandInv' /\ Kept
<1>1. CASE \/ StartSending \/ DraftsDone \/ DraftRendered \/ DraftFails
           \/ \E c \in Contacts : PromoteContact(c)
    BY <1>1, DraftingMessages
<1>2. CASE RefreshDraft \/ RefreshFails \/ \E c \in Contacts : LoadStale(c)
    BY <1>2, RefreshingMessages
<1>3. CASE \/ BeginWave \/ EndWave \/ ProviderAccepts \/ ObserveSent \/ SendingDies
           \/ \E c \in Contacts : Visit(c)
    BY <1>3, WalkingMessages
<1>4. CASE \/ \E accepted, published \in BOOLEAN :
                 Rejected(accepted) \/ TransientFailure(accepted, published)
           \/ AnswerWithoutId \/ RecordSent \/ RecordDies
    BY <1>4, CallMessages
<1> QED
    BY <1>1, <1>2, <1>3, <1>4 DEF SendingNext

(* The other processes and the environment write no message.               *)
LEMMA OthersMessages ==
  ASSUME Sound, UNCHANGED <<snd, msg, link, result>>, SameStamps
  PROVE  /\ RowInv' /\ HandInv' /\ Kept
         /\ InHand' = InHand /\ \A c \in Contacts : Pending(c)' <=> Pending(c)
<1>1. InHand' = InHand
    BY DEF InHand, Ahead
<1>2. RowInv' /\ Kept /\ \A c \in Contacts : Pending(c)' <=> Pending(c)
    BY <1>1, QuietRows DEF Sound
<1>3. HandInv'
    BY <1>2, HandKept DEF Sound, SameStamps
<1> QED
    BY <1>1, <1>2, <1>3

(* What was taken out stays so until a command is given.                   *)
LEMMA OutKept ==
  ASSUME OutInv, OwnInv, CommandTypes, Kept, LetGo, UNCHANGED <<own, retired>>
  PROVE  OutInv' /\ OwnInv' /\ CommandTypes'
<1>1. held' \subseteq held /\ CommandTypes'
    BY DEF LetGo, CommandTypes
<1>2. retired \subseteq Contacts /\ \A r \in own.rows : r[1] \in Contacts
    BY DEF CommandTypes
<1>3. \A c \in retired' : msg'[c] # "none"
    BY <1>2 DEF OutInv, Kept
<1>4. ASSUME NEW c \in retired' \ held' PROVE c \notin InHand' /\ ~Pending(c)'
  <2>0. c \in Contacts /\ c \in retired /\ msg[c] # "none"
      BY <1>2, <1>4 DEF OutInv
  <2>1. CASE c \in held
      BY <1>4, <2>1 DEF LetGo
  <2>2. CASE c \notin held
    <3>1. c \notin InHand /\ ~Pending(c)
        BY <2>0, <2>2 DEF OutInv
    <3> QED
        BY <2>0, <3>1 DEF Kept
  <2> QED
      BY <2>1, <2>2
<1>5. OwnInv'
  <2>1. Chosen' = Chosen /\ Chosen \subseteq Contacts
      BY DEF Chosen
  <2> QED
      BY <1>2, <2>1 DEF OwnInv, OwnIs, Kept
<1> QED
    BY <1>1, <1>3, <1>4, <1>5 DEF OutInv

(* The commands write messages back as failed, and find contacts between   *)
(* two sending cycles.                                                     *)
LEMMA CommandsMessages ==
  ASSUME Sound, StoreTypes, PlanInv, OutInv, OwnInv, CommandTypes, Commands
  PROVE  RowInv' /\ HandInv' /\ OutInv' /\ OwnInv'
<1> USE DEF Sound
<1>0. UNCHANGED <<snd, result, phase>> /\ SameStamps
    BY CommandsFrame DEF unretired, clock, SameStamps, Stamped
<1>o. own \in OwnType /\ retired \subseteq Contacts /\ Chosen \subseteq Contacts
    BY DEF CommandTypes, OwnType, Chosen
<1>a. ASSUME UNCHANGED <<msg, link, retired, held>>
      PROVE  RowInv' /\ HandInv' /\ OutInv'
  <2>1. /\ RowInv' /\ HandInv'
        /\ InHand' = InHand /\ \A c \in Contacts : Pending(c)' <=> Pending(c)
      BY <1>0, <1>a, OthersMessages
  <2> QED
      BY <1>o, <1>a, <2>1 DEF OutInv
<1>b. ASSUME own'.step \notin {"give_up", "skip_plans"} PROVE OwnInv'
    BY <1>b DEF OwnInv, OwnIs
<1>1. ASSUME NEW kind \in {"archive", "backlog"}, ReadPosting(kind)
      PROVE  RowInv' /\ HandInv' /\ OutInv' /\ OwnInv'
  <2>1. UNCHANGED <<msg, link, retired, held>> /\ own'.step \in {"abandon", "select"}
      BY <1>1 DEF ReadPosting, taken, vars, store, originals
  <2> QED
      BY <1>a, <1>b, <2>1
<1>2. CASE AbandonPosting \/ Demote \/ SkipPlans \/ CommandDies
  <2>1. UNCHANGED <<msg, link, retired, held>> /\ (own' = OwnIdle \/ own' = OwnGoto("select"))
      BY <1>2 DEF AbandonPosting, Demote, SkipPlans, CommandDies, taken, originals
  <2>2. own'.step \in {"idle", "select"}
      BY <2>1 DEF OwnIdle, OwnGoto, OwnType, CommandTypes
  <2> QED
      BY <1>a, <1>b, <2>1, <2>2
<1>3. ASSUME NEW cs \in SUBSET Contacts, SelectMessages(cs)
      PROVE  RowInv' /\ HandInv' /\ OutInv' /\ OwnInv'
  <2>1. UNCHANGED <<msg, link, retired, held>>
      BY <1>3 DEF SelectMessages, taken, vars, store, originals
  <2>2. \A c \in cs : msg[c] # "none"
      BY <1>3 DEF SelectMessages, Unsent, Retirable
  <2>3. OwnInv'
    <3>1. CASE own' = OwnIdle
        BY <1>b, <3>1 DEF OwnIdle
    <3>2. CASE own' = [own EXCEPT !.step = "give_up", !.rows = {<<c, 0>> : c \in cs}]
      <4>1. own'.step = "give_up" /\ own'.rows = {<<c, 0>> : c \in cs}
          BY <1>o, <3>2 DEF OwnType
      <4>2. Chosen' \subseteq cs
          BY <4>1 DEF Chosen
      <4> QED
          BY <2>1, <2>2, <4>1, <4>2 DEF OwnInv, OwnIs
    <3> QED
        BY <1>3, <3>1, <3>2 DEF SelectMessages
  <2> QED
      BY <1>a, <2>1, <2>3
<1>4. CASE GiveUp
  <2>1. /\ msg' = [c \in Contacts |-> IF c \in Chosen THEN "failed" ELSE msg[c]]
        /\ retired' = retired \cup Chosen /\ UNCHANGED link
        /\ held' = (held \ Chosen) \cup (Chosen \cap InHand)
        /\ \A c \in Chosen : msg[c] # "none"
      BY <1>4 DEF GiveUp, OwnInv
  <2>2. ASSUME NEW c \in Contacts
        PROVE  /\ msg'[c] = "none" <=> msg[c] = "none"
               /\ Pending(c)' => Pending(c) /\ c \notin Chosen
               /\ msg'[c] \in {msg[c], "failed"}
      BY <1>0, <2>1 DEF Pending, Retryable
  <2>3. HandInv' /\ InHand' = InHand
      BY <1>0, <2>1, <2>2, HandKept DEF SameStamps
  <2>4. RowInv'
      BY <1>0, <2>1, <2>2 DEF RowInv, SameStamps
  <2>5. OutInv'
      BY <1>o, <2>1, <2>2, <2>3 DEF OutInv
  <2>6. own' = OwnIdle \/ own' = OwnGoto("select_plans") \/ own' = OwnGoto("demote")
      BY <1>4 DEF GiveUp
  <2>7. own'.step \in {"idle", "select_plans", "demote"}
      BY <1>o, <2>6 DEF OwnIdle, OwnGoto, OwnType
  <2> QED
      BY <1>b, <2>3, <2>4, <2>5, <2>7
<1>5. CASE SelectPlans
  <2> DEFINE rows == {<<c, NextSequence(c)>> :
                      c \in {d \in Contacts : plan[d].status \notin Settled}}
  <2>1. UNCHANGED <<msg, link, retired, held>>
        /\ own' = [own EXCEPT !.step = "skip_plans", !.rows = rows]
      BY <1>5 DEF SelectPlans, taken, vars, store, originals
  <2>2. ASSUME NEW r \in rows PROVE Stamped(r[1]) /\ r[2] <= MaxSequence /\ r[1] \in Contacts
    <3>1. PICK c \in Contacts : r = <<c, NextSequence(c)>> /\ plan[c].status \notin Settled
        OBVIOUS
    <3>2. followed[c] < MaxSequence /\ Stamped(c) /\ followed[c] \in Nat
        BY <3>1, WaveFacts DEF PlanInv, Settled, StoreTypes, FollowTypes
    <3> QED
        BY <3>1, <3>2, LimitsAssumption DEF NextSequence
  <2> HIDE DEF rows
  <2>3. own'.step = "skip_plans" /\ own'.rows = rows
      BY <1>o, <2>1 DEF OwnType
  <2>4. OwnInv'
      BY <1>0, <2>2, <2>3 DEF OwnInv, OwnIs, SameStamps
  <2> QED
      BY <1>a, <2>1, <2>4
<1>6. ASSUME NEW cs \in SUBSET Contacts, ContactsFound(cs)
      PROVE  RowInv' /\ HandInv' /\ OutInv' /\ OwnInv'
  <2>1. /\ UNCHANGED <<msg, retired, held, own>> /\ snd.pc = "idle"
        /\ \A c \in Contacts : link'[c] \in {"identified", "shortlisted"} =>
                               link[c] \in {"identified", "shortlisted"}
      BY <1>6 DEF ContactsFound, taken, At
  <2>2. \A c \in Contacts : Pending(c)' <=> Pending(c)
      BY <1>0, <2>1 DEF Pending, Retryable
  <2>3. HandInv' /\ InHand' = InHand
      BY <1>0, <2>1, <2>2, HandKept DEF SameStamps
  <2>4. RowInv'
      BY <1>0, <2>1 DEF RowInv, SameStamps
  <2>5. OutInv'
      BY <1>o, <2>1, <2>2, <2>3 DEF OutInv
  <2>6. OwnInv'
    <3>1. \A r \in own.rows : r[1] \in Contacts
        BY DEF CommandTypes
    <3> QED
        BY <1>0, <2>1, <3>1 DEF OwnInv, OwnIs, Chosen, SameStamps
  <2> QED
      BY <2>3, <2>4, <2>5, <2>6
<1> QED
    BY <1>1, <1>2, <1>3, <1>4, <1>5, <1>6 DEF Commands

-----------------------------------------------------------------------------
(***************************************************************************)
(* The first inductive invariant: types, the plans, the messages, what a   *)
(* command carries and what it took out.                                   *)
(***************************************************************************)
MessagingInv ==
    /\ StoreTypes /\ SendingTypeOK /\ fw \in FwType /\ FeedbackTypeOK /\ CommandTypes
    /\ PlanInv
    /\ RowInv /\ HandInv
    /\ OutInv /\ OwnInv

LEMMA MessagingInit == RetirementInit => MessagingInv
<1> SUFFICES ASSUME RetirementInit PROVE MessagingInv
    OBVIOUS
<1> USE IdleTypes, WaveFacts, LimitsAssumption DEF RetirementInit, Init, StoreInit
<1>1. link \in [Contacts -> {"identified", "shortlisted"}]
    OBVIOUS
<1>2. OriginalTypes
    BY <1>1 DEF OriginalTypes, SendingStatuses, LinkStatuses, MessageStatuses, Results
<1>3. FollowTypes
    BY NewPlan DEF FollowTypes, PlanType
<1>4. MailTypes
    BY EmptySeq DEF MailTypes
<1>5. TimeTypes
    BY DEF TimeTypes, Phases
<1>6. LossTypes
    BY DEF LossTypes
<1>7. PlanInv
    BY NewPlan DEF PlanInv, FwIdle, OnItsWay
<1>8. RowInv /\ HandInv
    BY DEF RowInv, HandInv, SndIdle, Walking, Sending, Stamped
<1>9. OutInv /\ OwnInv
    BY DEF OutInv, OwnInv, OwnIs, OwnIdle
<1>10. CommandTypes
    BY DEF CommandTypes, OwnIdle, OwnSteps, SendingStatuses
<1> QED
    BY <1>2, <1>3, <1>4, <1>5, <1>6, <1>7, <1>8, <1>9, <1>10
    DEF MessagingInv, StoreTypes, SendingTypeOK, SndType, FwType, FeedbackTypeOK, FbType

(* The six kinds of steps.                                                 *)
LEMMA Steps ==
  ASSUME [RetirementNext]_all
  PROVE  \/ SendingNext /\ LetGo /\ UNCHANGED <<fw, fb, own, retired>>
         \/ FollowupsNext /\ LetGo /\ UNCHANGED <<fb, own, retired>>
         \/ FeedbackNext /\ LetGo /\ UNCHANGED <<own, retired>>
         \/ Environment /\ LetGo /\ UNCHANGED <<own, retired>>
         \/ Commands
         \/ UNCHANGED all
  BY DEF RetirementNext, Next

LEMMA MessagingStep == MessagingInv /\ [RetirementNext]_all => MessagingInv'
<1> SUFFICES ASSUME MessagingInv, [RetirementNext]_all PROVE MessagingInv'
    OBVIOUS
<1> USE DEF MessagingInv
<1>0. Sound
    BY DEF Sound, StoreTypes
<1>1. CASE SendingNext /\ LetGo /\ UNCHANGED <<fw, fb, own, retired>>
  <2>1. RowInv' /\ HandInv' /\ Kept
      BY <1>0, <1>1, SendingMessages
  <2>2. OutInv' /\ OwnInv' /\ CommandTypes'
      BY <1>1, <2>1, OutKept
  <2>3. OriginalTypes' /\ SendingTypeOK'
      BY <1>1, SendingRows, SendingHand DEF StoreTypes
  <2>4. MailTypes' /\ TimeTypes' /\ LossTypes'
      BY <1>1, SendingMail, SendingTimes, SendingLosses DEF StoreTypes
  <2>5. FollowTypes' /\ PlanInv'
    <3>1. UNCHANGED <<plan, followed, rollout, resting, fw>>
        BY <1>1, SendingFrame
    <3>2. \A c \in Contacts : Stamped(c) => Stamped(c)'
        BY <2>1 DEF Kept
    <3> QED
        BY <3>1, <3>2 DEF StoreTypes, FollowTypes, PlanInv
  <2> QED
      BY <1>1, <2>1, <2>2, <2>3, <2>4, <2>5 DEF StoreTypes, FeedbackTypeOK
<1>2. CASE FollowupsNext /\ LetGo /\ UNCHANGED <<fb, own, retired>>
  <2>1. FollowState /\ TimeTypes
      BY DEF FollowState, StoreTypes
  <2>2. SameStamps
      BY <1>2, <2>1, FollowupsStamp DEF SameStamps
  <2>3. FollowState'
    <3>1. SentStamped /\ StaysStamped
        BY <2>2 DEF SentStamped, StaysStamped, SameStamps, RowInv
    <3> QED
        BY <1>2, <2>1, <3>1, FollowupsKeep
  <2>4. MailTypes' /\ TimeTypes' /\ LossTypes'
      BY <1>2, <2>1, FollowupsMail, FollowupsTimes, FollowupsLosses DEF StoreTypes
  <2>5. OriginalTypes'
    <3>1. today' \in Nat
        BY <1>2, FollowupsFrame DEF StoreTypes, OriginalTypes
    <3> QED
        BY <1>2, <3>1, FollowupsFrame DEF StoreTypes, OriginalTypes
  <2>6. RowInv' /\ HandInv' /\ Kept
      BY <1>0, <1>2, <2>2, FollowupsFrame, OthersMessages
  <2>7. OutInv' /\ OwnInv' /\ CommandTypes'
      BY <1>2, <2>6, OutKept
  <2>8. SendingTypeOK'
      BY <1>2, FollowupsFrame DEF SendingTypeOK
  <2> QED
      BY <1>2, <2>3, <2>4, <2>5, <2>6, <2>7, <2>8
      DEF FollowState, StoreTypes, FeedbackTypeOK
<1>3. CASE FeedbackNext /\ LetGo /\ UNCHANGED <<own, retired>>
  <2>1. FeedbackTypeOK' /\ MailTypes'
      BY <1>3, FeedbackKeeps DEF StoreTypes
  <2>2. UNCHANGED <<snd, fw, originals, plans, provider, pacing, clock, lost>>
        /\ (UNCHANGED troubles \/ Trouble)
      BY <1>3, FeedbackFrame
  <2>3. LossTypes'
      BY <2>2, LossKept, WaveFacts DEF StoreTypes, history
  <2>4. SameStamps
      BY <2>2 DEF SameStamps, Stamped, clock
  <2>5. OriginalTypes' /\ FollowTypes' /\ TimeTypes'
      BY <2>2 DEF StoreTypes, OriginalTypes, FollowTypes, TimeTypes, originals, plans, pacing,
                  clock
  <2>6. PlanInv'
      BY <2>2, <2>4 DEF PlanInv, SameStamps, plans, FwType
  <2>7. RowInv' /\ HandInv' /\ Kept
      BY <1>0, <2>2, <2>4, OthersMessages DEF originals
  <2>8. OutInv' /\ OwnInv' /\ CommandTypes'
      BY <1>3, <2>7, OutKept
  <2> QED
      BY <2>1, <2>2, <2>3, <2>5, <2>6, <2>7, <2>8 DEF StoreTypes, SendingTypeOK
<1>4. CASE Environment /\ LetGo /\ UNCHANGED <<own, retired>>
  <2>1. StoreTypes' /\ PlanInv'
      BY <1>4, EnvironmentKeeps
  <2>2. UNCHANGED <<snd, fw, fb, msg, link, result>>
      BY <1>4, EnvironmentFrame
  <2>3. SameStamps
      BY <1>0, <1>4, EnvironmentStamp DEF Sound, SameStamps
  <2>4. RowInv' /\ HandInv' /\ Kept
      BY <1>0, <2>2, <2>3, OthersMessages
  <2>5. OutInv' /\ OwnInv' /\ CommandTypes'
      BY <1>4, <2>4, OutKept
  <2> QED
      BY <2>1, <2>2, <2>4, <2>5 DEF SendingTypeOK, FeedbackTypeOK
<1>5. CASE Commands
  <2>1. StoreTypes' /\ PlanInv' /\ CommandTypes'
      BY <1>5, CommandsKeep
  <2>2. UNCHANGED <<snd, fw, fb>>
      BY <1>5, CommandsFrame DEF unretired
  <2>3. RowInv' /\ HandInv' /\ OutInv' /\ OwnInv'
      BY <1>0, <1>5, CommandsMessages
  <2> QED
      BY <2>1, <2>2, <2>3 DEF SendingTypeOK, FeedbackTypeOK
<1>6. CASE UNCHANGED all
  <2>1. UNCHANGED <<snd, fw, fb, originals, plans, events, provider, pacing, clock, history,
                    own, retired, held>>
      BY <1>6 DEF all, vars, store
  <2>2. SameStamps /\ UNCHANGED <<snd, msg, link, result>>
      BY <2>1 DEF SameStamps, Stamped, clock, originals
  <2>3. /\ RowInv' /\ HandInv'
        /\ InHand' = InHand /\ \A c \in Contacts : Pending(c)' <=> Pending(c)
      BY <1>0, <2>2, OthersMessages
  <2>4. StoreTypes'
      BY <2>1 DEF StoreTypes, OriginalTypes, FollowTypes, MailTypes, TimeTypes, LossTypes,
         originals, plans, provider, pacing, clock, history, lost
  <2>5. PlanInv'
      BY <2>1, <2>2 DEF PlanInv, SameStamps, plans, FwType
  <2>6. OutInv'
      BY <2>1, <2>2, <2>3 DEF OutInv, CommandTypes
  <2>7. OwnInv'
    <3>1. \A r \in own.rows : r[1] \in Contacts
        BY DEF CommandTypes
    <3> QED
        BY <2>1, <2>2, <3>1 DEF OwnInv, OwnIs, Chosen, SameStamps
  <2>8. SendingTypeOK' /\ FeedbackTypeOK' /\ CommandTypes' /\ fw' \in FwType
      BY <2>1 DEF SendingTypeOK, FeedbackTypeOK, CommandTypes
  <2> QED
      BY <2>3, <2>4, <2>5, <2>6, <2>7, <2>8
<1> QED
    BY <1>1, <1>2, <1>3, <1>4, <1>5, <1>6, Steps

LEMMA MessagingHolds == RetirementSpec => []MessagingInv
  BY MessagingInit, MessagingStep, PTL DEF RetirementSpec

(* The messages, plans, threads, queues, processes and commands always     *)
(* have the values of RetirementTypeOK, for any wave and any number of     *)
(* troubles.                                                               *)
THEOREM MessagingTypeCorrect == RetirementSpec => []RetirementTypeOK
<1>1. MessagingInv => RetirementTypeOK
    BY StoreTypesSuffice
    DEF MessagingInv, RetirementTypeOK, TypeOK, FollowupsTypeOK, FwType, CommandTypes
<1> QED
    BY <1>1, MessagingHolds, PTL

-----------------------------------------------------------------------------
(***************************************************************************)
(* Which steps the provider accepts a mail in.                             *)
(***************************************************************************)
(* The provider accepts an original only in the call of the first message  *)
(* of what is left of the wave.                                            *)
LEMMA OriginalAccepted ==
  ASSUME MessagingInv, [RetirementNext]_all, outbox' # outbox
  PROVE  /\ ProviderAccepts /\ snd.pc = "calling" /\ snd.c \in Contacts
         /\ snd.c \in FirstOf(Ahead) /\ snd.c \in InHand
         /\ outbox' = [outbox EXCEPT ![snd.c] = @ + 1]
<1> USE DEF unsent, store, originals, plans, provider, clock, history, lost, all, vars
<1>1. ASSUME FollowupsNext \/ FeedbackNext \/ Environment \/ Commands \/ UNCHANGED all
      PROVE  FALSE
    BY <1>1, FollowupsFrame, FeedbackFrame, EnvironmentFrame, CommandsFrame DEF unretired
<1>2. ASSUME NEW c \in Contacts, PromoteContact(c) \/ LoadStale(c) \/ Visit(c)
      PROVE  FALSE
    BY <1>2 DEF PromoteContact, LoadStale, Visit
<1>3. ASSUME \/ StartSending \/ DraftsDone \/ BeginWave \/ EndWave
             \/ DraftRendered \/ DraftFails \/ RefreshDraft \/ RefreshFails
             \/ AnswerWithoutId \/ RecordSent \/ RecordDies \/ ObserveSent \/ SendingDies
             \/ \E accepted, published \in BOOLEAN :
                   Rejected(accepted) \/ TransientFailure(accepted, published)
      PROVE  FALSE
    BY <1>3 DEF StartSending, DraftsDone, BeginWave, EndWave, DraftRendered, DraftFails,
       StoreDraft, RefreshDraft, RefreshFails, Rejected, AnswerWithoutId, Block,
       RecordSent, RecordDies, MarkSent, ObserveSent, SendingDies, TransientFailure
<1>4. ProviderAccepts
    BY <1>1, <1>2, <1>3, Steps DEF SendingNext
<1>5. snd.pc = "calling" /\ outbox' = [outbox EXCEPT ![snd.c] = @ + 1]
    BY <1>4 DEF ProviderAccepts, At
<1>6. snd.c \in FirstOf(Ahead) /\ snd.c \in Contacts
    BY <1>5 DEF MessagingInv, HandInv, Sending, SendingTypeOK
<1>7. snd.c \in InHand
    BY <1>5, <1>6, FirstOfIn DEF InHand
<1> QED
    BY <1>4, <1>5, <1>6, <1>7

(* And a follow-up only in the worker's call.                              *)
LEMMA FollowupAccepted ==
  ASSUME MessagingInv, [RetirementNext]_all, thread' # thread
  PROVE  /\ FollowupsNext /\ fw.pc = "calling" /\ fw' = FwGoto("accepted")
         /\ fw.c \in Contacts /\ NextSequence(fw.c) \in Touches
         /\ thread' = [thread EXCEPT ![fw.c] = Append(@, NextSequence(fw.c))]
         /\ UNCHANGED <<plans, uncounted>>
<1>1. ASSUME SendingNext \/ FeedbackNext \/ Environment \/ Commands \/ UNCHANGED all
      PROVE  FALSE
    BY <1>1, SendingFrame, FeedbackFrame, EnvironmentFrame, CommandsFrame
    DEF unretired, provider, all, vars, store
<1>2. FollowupsNext
    BY <1>1, Steps
<1>3. FollowState /\ thread \in [Contacts -> Seq(Touches)]
    BY DEF MessagingInv, FollowState, StoreTypes, MailTypes
<1> QED
    BY <1>2, <1>3, FollowupsThread

(* RetiredStaysUnsent: a message the owner took out is not sent any more,  *)
(* whatever the sending action does meanwhile, although the posting may    *)
(* come back with new contacts and its wave be walked again with the old   *)
(* rows in it, unless a cycle had loaded the message before.               *)
THEOREM RetiredNeverSent == RetirementSpec => RetiredStaysUnsent
<1>1. MessagingInv /\ [RetirementNext]_all =>
         [\A c \in retired \ held : outbox'[c] = outbox[c]]_all
  <2> SUFFICES ASSUME MessagingInv, [RetirementNext]_all, NEW c \in retired \ held
               PROVE  outbox'[c] = outbox[c]
      OBVIOUS
  <2>1. c \notin InHand /\ c \in Contacts
      BY DEF MessagingInv, OutInv, CommandTypes
  <2>2. CASE outbox' # outbox
    <3>1. snd.c \in InHand /\ outbox' = [outbox EXCEPT ![snd.c] = @ + 1]
        BY <2>2, OriginalAccepted
    <3> QED
        BY <2>1, <3>1 DEF MessagingInv, StoreTypes, MailTypes
  <2> QED
      BY <2>2
<1> QED
    BY <1>1, MessagingHolds, PTL DEF RetirementSpec, RetiredStaysUnsent

(* WaveOrder for a wave of any length: an original is accepted only when   *)
(* nobody before it in the wave waits or is to be retried, over cycles,    *)
(* stale drafts, commands given meanwhile and process deaths.              *)
THEOREM WaveInOrder == RetirementSpec => WaveOrder
<1> DEFINE Ordered ==
        \A i, j \in Positions :
           i < j /\ outbox'[Wave[j]] # outbox[Wave[j]] =>
              /\ msg[Wave[i]] # "generated"
              /\ msg[Wave[i]] = "blocked" => result[Wave[i]] # "transient"
<1>1. MessagingInv /\ [RetirementNext]_all => [Ordered]_vars
  <2> SUFFICES ASSUME MessagingInv, [RetirementNext]_all,
                      NEW i \in Positions, NEW j \in Positions,
                      i < j, outbox'[Wave[j]] # outbox[Wave[j]]
               PROVE  /\ msg[Wave[i]] # "generated"
                      /\ msg[Wave[i]] = "blocked" => result[Wave[i]] # "transient"
      OBVIOUS
  <2>1. /\ snd.pc = "calling" /\ snd.c \in Contacts /\ snd.c \in FirstOf(Ahead)
        /\ outbox' = [outbox EXCEPT ![snd.c] = @ + 1]
      BY OriginalAccepted
  <2>2. Wave[j] = snd.c
      BY <2>1, WaveFacts DEF MessagingInv, StoreTypes, MailTypes
  <2>3. PICK k \in Positions :
           Wave[k] = snd.c /\ \A l \in Positions : Wave[l] \in Ahead => k <= l
      BY <2>1 DEF FirstOf
  <2>4. k = j
      BY <2>2, <2>3, WaveAssumption DEF Positions
  <2>5. Wave[i] \notin Ahead
      BY <2>3, <2>4, WaveFacts DEF Positions
  <2>6. Wave[j] \in Ahead
      BY <2>1, <2>2, FirstOfIn
  <2>7. ~Pending(Wave[i])
      BY <2>1, <2>5, <2>6 DEF MessagingInv, HandInv, Walking, Sending
  <2> QED
      BY <2>7 DEF Pending, Retryable
<1> QED
    BY <1>1, MessagingHolds, PTL DEF RetirementSpec, WaveOrder

-----------------------------------------------------------------------------
(***************************************************************************)
(* The gap between two acceptances.                                        *)
(***************************************************************************)
Busy(q) == IF q = "original" THEN snd.pc \in Sending ELSE fw.pc \in Sending

GapInv ==
    /\ inFlight = {q \in Queues : Busy(q)}
    /\ inFlight = Queues => gap = "excused"
    /\ gap = "closed" =>
         /\ snd.pc # "calling" /\ fw.pc # "calling"
         /\ \/ snd.pc = "accepted" \/ fw.pc = "accepted"
            \/ ~paced /\ \A q \in Queues : ~clear[q]

SameHands ==
    \A pc \in Sending : (snd'.pc = pc <=> snd.pc = pc) /\ (fw'.pc = pc <=> fw.pc = pc)

(* A step that neither begins nor ends an attempt.                         *)
LEMMA GapQuiet ==
  ASSUME TimeTypes, GapInv, SameHands, UNCHANGED <<paced, inFlight, gap>>,
         \/ UNCHANGED clear
         \/ \E q \in Queues : Freeze(q) \/ Unfreeze(q)
  PROVE  GapInv'
<1>1. \A q \in Queues : Busy(q)' <=> Busy(q)
    BY DEF SameHands, Busy, Sending
<1>2. inFlight' = {q \in Queues : Busy(q)}'
    BY <1>1 DEF GapInv
<1>3. ~paced /\ (\A q \in Queues : ~clear[q]) => \A q \in Queues : ~clear'[q]
    BY DEF TimeTypes, Freeze, Unfreeze
<1> QED
    BY <1>2, <1>3 DEF GapInv, SameHands, Sending

(* An attempt begins: the check passed, so no acceptance is just behind.   *)
LEMMA GapBegins ==
  ASSUME TimeTypes, GapInv, NEW q \in Queues, PassCheck(q), clear[q], ~Busy(q),
         Busy(q)', \A p \in Queues \ {q} : Busy(p)' <=> Busy(p),
         \/ q = "original" /\ snd'.pc = "calling" /\ fw' = fw
         \/ q = "followup" /\ fw'.pc = "calling" /\ snd' = snd
  PROVE  GapInv'
<1>1. inFlight' = {p \in Queues : Busy(p)}'
    BY DEF PassCheck, GapInv
<1>2. gap' = "closed" => gap = "closed" /\ inFlight = {}
    BY DEF PassCheck, GapInv, TimeTypes
<1>3. gap' # "closed"
    BY <1>2 DEF GapInv, Busy, Sending, Queues
<1>4. inFlight' = Queues => gap' = "excused"
    BY DEF PassCheck, GapInv, Queues
<1> QED
    BY <1>1, <1>3, <1>4 DEF GapInv

(* The provider accepts.                                                   *)
LEMMA GapAccepts ==
  ASSUME TimeTypes, GapInv, NEW q \in Queues, Accept, UNCHANGED <<paced, clear, inFlight>>,
         \/ q = "original" /\ snd.pc = "calling" /\ snd'.pc = "accepted" /\ fw' = fw
         \/ q = "followup" /\ fw.pc = "calling" /\ fw'.pc = "accepted" /\ snd' = snd
  PROVE  GapInv'
<1>1. \A p \in Queues : Busy(p)' <=> Busy(p)
    BY DEF Busy, Sending
<1>2. inFlight' = {p \in Queues : Busy(p)}'
    BY <1>1 DEF GapInv
<1>3. gap' = "closed" => inFlight # Queues
    BY DEF Accept, GapInv
<1>4. gap' = "closed" => snd'.pc # "calling" /\ fw'.pc # "calling"
    BY <1>3 DEF GapInv, Busy, Sending, Queues
<1> QED
    BY <1>2, <1>4 DEF GapInv, Accept

(* An attempt ends without a recorded acceptance.                          *)
LEMMA GapEnds ==
  ASSUME TimeTypes, GapInv, NEW q \in Queues, NEW accepted \in BOOLEAN,
         Unstamped(q, accepted), UNCHANGED clear \/ Unfreeze(q),
         ~Busy(q)', \A p \in Queues \ {q} : Busy(p)' <=> Busy(p),
         \/ q = "original" /\ fw' = fw /\ (accepted <=> snd.pc = "accepted")
         \/ q = "followup" /\ snd' = snd /\ (accepted <=> fw.pc = "accepted")
  PROVE  GapInv'
<1>1. inFlight' = {p \in Queues : Busy(p)}'
    BY DEF Unstamped, GapInv
<1>2. inFlight' # Queues
    BY DEF Unstamped
<1>3. ~paced /\ (\A p \in Queues : ~clear[p]) => ~paced' /\ \A p \in Queues : ~clear'[p]
    BY DEF TimeTypes, Unstamped, Unfreeze
<1>4. gap' = "closed" => gap = "closed" /\ ~accepted
    BY DEF Unstamped
<1> QED
    BY <1>1, <1>2, <1>3, <1>4 DEF GapInv, Busy, Sending

(* The acceptance is recorded.                                             *)
LEMMA GapStamped ==
  ASSUME TimeTypes, GapInv, NEW q \in Queues, NEW late \in BOOLEAN, Stamp(q, late),
         ~Busy(q)', \A p \in Queues \ {q} : Busy(p)' <=> Busy(p),
         \/ q = "original" /\ snd.pc = "accepted" /\ fw' = fw
         \/ q = "followup" /\ fw.pc = "accepted" /\ snd' = snd
  PROVE  GapInv'
<1>1. inFlight' = {p \in Queues : Busy(p)}'
    BY DEF Stamp, GapInv
<1>2. inFlight' # Queues
    BY DEF Stamp
<1>3. gap' = "closed" => gap = "closed" /\ ~paced' /\ \A p \in Queues : ~clear'[p]
    BY DEF Stamp
<1>4. gap' = "closed" => snd'.pc # "calling" /\ fw'.pc # "calling"
    BY <1>3 DEF GapInv, Busy, Sending, Queues
<1> QED
    BY <1>1, <1>2, <1>3, <1>4 DEF GapInv

(* The steps of the sending action, each of one of these kinds.            *)
LEMMA SendingGap ==
  ASSUME TimeTypes, SendingTypeOK, GapInv, SendingNext, UNCHANGED fw
  PROVE  GapInv'
<1> USE SndFields DEF At, store
<1>0. "original" \in Queues /\ \A p \in Queues \ {"original"} : Busy(p)' <=> Busy(p)
    BY DEF Queues, Busy
<1>a. ASSUME UNCHANGED <<paced, inFlight, gap>>, snd.pc \notin Sending, snd'.pc \notin Sending,
             UNCHANGED clear \/ Freeze("original") \/ Unfreeze("original")
      PROVE  GapInv'
    BY <1>0, <1>a, GapQuiet DEF SameHands
<1>b. ASSUME snd'.pc \notin Sending PROVE ~Busy("original")'
    BY <1>b DEF Busy
<1>1. CASE StartSending
  <2>1. snd.pc \notin Sending /\ snd'.pc \notin Sending
      BY <1>1 DEF StartSending, Sending
  <2> QED
      BY <1>a, <1>1, <2>1 DEF StartSending
<1>2. CASE DraftRendered \/ DraftFails
  <2>1. PICK status \in {"generated", "failed"} : StoreDraft(status)
      BY <1>2 DEF DraftRendered, DraftFails
  <2>2. /\ snd.pc = "rendering" /\ UNCHANGED pacing
        /\ snd' = [snd EXCEPT !.pc = "drafting", !.passed = @ \cup {snd.c}]
      BY <2>1 DEF StoreDraft
  <2>3. snd.pc \notin Sending /\ snd'.pc \notin Sending
      BY <2>2 DEF SendingTypeOK, Sending
  <2> QED
      BY <1>a, <2>2, <2>3 DEF pacing
<1>3. CASE DraftsDone \/ BeginWave \/ EndWave \/ ObserveSent
  <2>1. /\ snd.pc \notin Sending
        /\ \/ snd' = SndIdle
           \/ snd' = [SndIdle EXCEPT !.pc = "refreshing"]
           \/ snd' = [snd EXCEPT !.pc = "wave", !.wave = Waiting]
      BY <1>3 DEF DraftsDone, BeginWave, EndWave, ObserveSent, Sending
  <2>2. snd'.pc \in {"idle", "refreshing", "wave"}
      BY <2>1 DEF SndIdle, SendingTypeOK
  <2>3. UNCHANGED <<paced, inFlight, gap>> /\ (UNCHANGED clear \/ Unfreeze("original"))
      BY <1>3 DEF DraftsDone, BeginWave, EndWave, ObserveSent, pacing
  <2> QED
      BY <1>a, <2>1, <2>2, <2>3 DEF Sending
<1>4. CASE RefreshDraft \/ RefreshFails \/ \E c \in Contacts : PromoteContact(c) \/ LoadStale(c)
  <2>1. /\ UNCHANGED pacing /\ snd.pc \in {"drafting", "refreshing", "rewriting"}
        /\ \/ snd' = [SndIdle EXCEPT !.pc = "refreshing"]
           \/ \E c \in Contacts : \/ snd' = [snd EXCEPT !.pc = "rewriting", !.c = c]
                                  \/ snd' = [snd EXCEPT !.pc = "rendering", !.c = c]
      BY <1>4 DEF RefreshDraft, RefreshFails, PromoteContact, LoadStale
  <2>2. snd'.pc \in {"refreshing", "rewriting", "rendering"}
      BY <2>1 DEF SndIdle, SendingTypeOK
  <2> QED
      BY <1>a, <2>1, <2>2 DEF pacing, Sending
<1>5. ASSUME NEW c \in Contacts, Visit(c) PROVE GapInv'
  <2>1. PassCheck("original") /\ clear["original"] /\ snd.pc = "wave"
      BY <1>5 DEF Visit, MaySend, PacingAllowed
  <2>2. snd'.pc = "calling"
      BY <1>5 DEF Visit, SendingTypeOK
  <2>3. ~Busy("original") /\ Busy("original")'
      BY <2>1, <2>2 DEF Busy, Sending
  <2> QED
      BY <1>0, <2>1, <2>2, <2>3, GapBegins
<1>6. CASE ProviderAccepts
  <2>1. /\ snd.pc = "calling" /\ snd' = Goto("accepted") /\ Accept
        /\ UNCHANGED <<paced, clear, inFlight>>
      BY <1>6 DEF ProviderAccepts
  <2>2. snd'.pc = "accepted"
      BY <2>1 DEF Goto, SendingTypeOK
  <2> QED
      BY <1>0, <2>1, <2>2, GapAccepts
<1>7. ASSUME NEW accepted \in BOOLEAN, Rejected(accepted) PROVE GapInv'
  <2>1. snd' = [snd EXCEPT !.pc = "wave", !.passed = @ \cup {snd.c}]
        /\ Unstamped("original", accepted) /\ UNCHANGED clear
        /\ (accepted <=> snd.pc = "accepted")
      BY <1>7 DEF Rejected
  <2>2. ~Busy("original")'
      BY <2>1 DEF SendingTypeOK, Busy, Sending
  <2> QED
      BY <1>0, <2>1, <2>2, GapEnds
<1>8. ASSUME NEW accepted \in BOOLEAN, NEW published \in BOOLEAN,
             TransientFailure(accepted, published)
      PROVE  GapInv'
  <2>1. /\ Unstamped("original", accepted) /\ Unfreeze("original")
        /\ accepted <=> snd.pc = "accepted"
        /\ snd' = SndIdle
      BY <1>8 DEF TransientFailure
  <2>2. ~Busy("original")'
      BY <1>b, <2>1 DEF Sending
  <2> QED
      BY <1>0, <2>1, <2>2, GapEnds
<1>9. CASE AnswerWithoutId
  <2>1. /\ Unstamped("original", TRUE) /\ Unfreeze("original") /\ snd.pc = "accepted"
        /\ snd' = SndIdle
      BY <1>9 DEF AnswerWithoutId
  <2>2. ~Busy("original")'
      BY <1>b, <2>1 DEF Sending
  <2> QED
      BY <1>0, <2>1, <2>2, GapEnds
<1>10. CASE RecordSent \/ RecordDies
  <2>1. /\ Stamp("original", FALSE) /\ snd.pc = "accepted"
        /\ snd' = SndIdle \/ snd' = Goto("observing")
      BY <1>10 DEF RecordSent, RecordDies, MarkSent
  <2>2. ~Busy("original")'
      BY <1>b, <2>1 DEF Goto, SendingTypeOK, Sending
  <2> QED
      BY <1>0, <2>1, <2>2, GapStamped
<1>11. CASE SendingDies
  <2> DEFINE accepted == snd.pc = "accepted"
  <2>1. Unstamped("original", accepted) /\ Unfreeze("original") /\ snd' = SndIdle
      BY <1>11 DEF SendingDies
  <2>2. ~Busy("original")'
      BY <1>b, <2>1 DEF Sending
  <2>3. accepted \in BOOLEAN /\ (accepted <=> snd.pc = "accepted")
      OBVIOUS
  <2> HIDE DEF accepted
  <2> QED
      BY <1>0, <2>1, <2>2, <2>3, GapEnds
<1> QED
    BY <1>1, <1>2, <1>3, <1>4, <1>5, <1>6, <1>7, <1>8, <1>9, <1>10, <1>11 DEF SendingNext

(* The fields of the worker's cycle after a move.                          *)
LEMMA FwFields ==
  ASSUME fw \in FwType
  PROVE  /\ FwIdle.pc = "idle"
         /\ \A pc \in {"deciding", "calling", "accepted", "counting"} :
               FwGoto(pc).pc = pc /\ FwGoto(pc).auto = fw.auto
         /\ \A c, p : Pass(c, p) => fw'.pc = "scan" /\ fw'.auto = fw.auto
  BY DEF FwType, FwIdle, FwGoto, Pass

(* The steps of the worker, likewise.                                      *)
LEMMA FollowupsGap ==
  ASSUME TimeTypes, fw \in FwType, GapInv, FollowupsNext
  PROVE  GapInv'
<1> USE FwFields DEF FwAt, store
<1>0. snd' = snd /\ "followup" \in Queues /\ \A p \in Queues \ {"followup"} : Busy(p)' <=> Busy(p)
    BY FollowupsFrame DEF Queues, Busy
<1>a. ASSUME UNCHANGED <<paced, inFlight, gap>>, fw.pc \notin Sending, fw'.pc \notin Sending,
             UNCHANGED clear \/ Freeze("followup") \/ Unfreeze("followup")
      PROVE  GapInv'
    BY <1>0, <1>a, GapQuiet DEF SameHands
<1>b. ASSUME fw'.pc \notin Sending PROVE ~Busy("followup")'
    BY <1>b DEF Busy, Queues
<1>1. ASSUME NEW dry \in BOOLEAN, StartFollowups(dry) PROVE GapInv'
    BY <1>1, <1>a DEF StartFollowups, Sending
<1>2. ASSUME NEW c \in Contacts, RuleOut(c) \/ ThreadCheckFails(c)
      PROVE  GapInv'
  <2>1. fw'.pc = "scan" /\ fw.pc \notin Sending /\ UNCHANGED pacing
      BY <1>2 DEF RuleOut, ThreadCheckFails, Sending
  <2> QED
      BY <1>a, <2>1 DEF pacing, Sending
<1>3. ASSUME NEW c \in Contacts, TakeUp(c) PROVE GapInv'
  <2>1. fw'.pc \in {"drafting", "deciding"} /\ fw.pc = "scan" /\ UNCHANGED pacing
      BY <1>3 DEF TakeUp, FwType
  <2> QED
      BY <1>a, <2>1 DEF pacing, Sending
<1>4. CASE FollowupDrafted \/ FollowupDraftFails \/ HoldDraft \/ Withdraw \/ WaitForTurn
  <2>1. fw'.pc \in {"scan", "deciding"} /\ fw.pc \in {"drafting", "deciding"} /\ UNCHANGED pacing
      BY <1>4 DEF FollowupDrafted, FollowupDraftFails, DraftingFails, HoldDraft, Withdraw,
                  WaitForTurn
  <2> QED
      BY <1>a, <2>1 DEF pacing, Sending
<1>5. CASE DraftingOutage
    BY <1>a, <1>5 DEF DraftingOutage, DraftingFails, Sending
<1>6. CASE CommitToSend
  <2>1. PassCheck("followup") /\ clear["followup"] /\ fw.pc = "deciding" /\ fw'.pc = "calling"
      BY <1>6 DEF CommitToSend, MayFollow
  <2>2. ~Busy("followup") /\ Busy("followup")'
      BY <2>1 DEF Busy, Sending
  <2> QED
      BY <1>0, <2>1, <2>2, GapBegins
<1>7. CASE ThreadGrows
    BY <1>0, <1>7, GapAccepts DEF ThreadGrows
<1>8. ASSUME NEW accepted \in BOOLEAN, FollowupFails(accepted) PROVE GapInv'
  <2>1. /\ Unstamped("followup", accepted) /\ UNCHANGED clear
        /\ accepted <=> fw.pc = "accepted"
        /\ fw'.pc = "scan"
      BY <1>8 DEF FollowupFails
  <2>2. ~Busy("followup")'
      BY <1>b, <2>1 DEF Sending
  <2> QED
      BY <1>0, <2>1, <2>2, GapEnds
<1>9. CASE FollowupAmbiguous
  <2>1. /\ Unstamped("followup", TRUE) /\ UNCHANGED clear /\ fw.pc = "accepted"
        /\ fw'.pc = "scan"
      BY <1>9 DEF FollowupAmbiguous
  <2>2. ~Busy("followup")'
      BY <1>b, <2>1 DEF Sending
  <2> QED
      BY <1>0, <2>1, <2>2, GapEnds
<1>10. ASSUME NEW backdated \in BOOLEAN, RecordFollowup(backdated) PROVE GapInv'
  <2>1. Stamp("followup", backdated) /\ fw.pc = "accepted" /\ fw'.pc = "counting"
      BY <1>10 DEF RecordFollowup
  <2>2. ~Busy("followup")'
      BY <1>b, <2>1 DEF Sending
  <2> QED
      BY <1>0, <2>1, <2>2, GapStamped
<1>11. CASE CountRollout \/ FollowupsDone
    BY <1>a, <1>11 DEF CountRollout, FollowupsDone, pacing, Sending
<1>12. CASE FollowupsDie
  <2> DEFINE accepted == fw.pc = "accepted"
  <2>1. Unstamped("followup", accepted) /\ Unfreeze("followup") /\ fw' = FwIdle
      BY <1>12 DEF FollowupsDie
  <2>2. ~Busy("followup")'
      BY <1>b, <2>1 DEF Sending
  <2>3. accepted \in BOOLEAN /\ (accepted <=> fw.pc = "accepted")
      OBVIOUS
  <2> HIDE DEF accepted
  <2> QED
      BY <1>0, <2>1, <2>2, <2>3, GapEnds
<1> QED
    BY <1>1, <1>2, <1>3, <1>4, <1>5, <1>6, <1>7, <1>8, <1>9, <1>10, <1>11, <1>12
    DEF FollowupsNext

LEMMA GapStep == MessagingInv /\ GapInv /\ [RetirementNext]_all => GapInv'
<1> SUFFICES ASSUME MessagingInv, GapInv, [RetirementNext]_all PROVE GapInv'
    OBVIOUS
<1>0. TimeTypes /\ SendingTypeOK /\ fw \in FwType
    BY DEF MessagingInv, StoreTypes
<1>1. CASE SendingNext /\ UNCHANGED fw
    BY <1>0, <1>1, SendingGap
<1>2. CASE FollowupsNext
    BY <1>0, <1>2, FollowupsGap
<1>3. ASSUME FeedbackNext \/ Commands \/ UNCHANGED all PROVE GapInv'
  <2>1. UNCHANGED <<snd, fw, pacing>>
      BY <1>3, FeedbackFrame, CommandsFrame DEF unretired, all, vars, store
  <2> QED
      BY <1>0, <2>1, GapQuiet DEF pacing, SameHands
<1>4. CASE Environment
  <2>1. UNCHANGED <<snd, fw, clear, inFlight>>
      BY <1>4, EnvironmentFrame
  <2>2. UNCHANGED pacing \/ MinutesRunOut
      BY <1>4 DEF Environment, Answer, LiftPause, MinutesPass, WindowCloses, BlockEnds, DaysPass
  <2>3. CASE UNCHANGED pacing
      BY <1>0, <2>1, <2>3, GapQuiet DEF pacing, SameHands
  <2>4. CASE MinutesRunOut
    <3>1. inFlight' = {q \in Queues : Busy(q)}'
        BY <2>1 DEF GapInv, Busy
    <3> QED
        BY <2>1, <2>4, <3>1 DEF MinutesRunOut, GapInv
  <2> QED
      BY <2>2, <2>3, <2>4
<1> QED
    BY <1>1, <1>2, <1>3, <1>4, Steps

(* SendsSpaced for any number of contacts: the provider accepts no message *)
(* while the gap after the last acceptance is closed, but for two queues   *)
(* that each passed the check before the other called.                     *)
THEOREM AcceptancesSpaced == RetirementSpec => SendsSpaced
<1>1. RetirementInit => GapInv
    BY DEF RetirementInit, Init, StoreInit, GapInv, Busy, SndIdle, FwIdle, Sending, Queues
<1>2. RetirementSpec => []GapInv
    BY <1>1, GapStep, MessagingHolds, PTL DEF RetirementSpec
<1>3. MessagingInv /\ GapInv /\ [RetirementNext]_all => [Accepts => gap # "closed"]_vars
    BY OriginalAccepted, FollowupAccepted DEF Accepts, GapInv
<1> QED
    BY <1>2, <1>3, MessagingHolds, PTL DEF RetirementSpec, SendsSpaced

-----------------------------------------------------------------------------
(***************************************************************************)
(* What the follow-up worker does to the thread, the count and its cycle.  *)
(***************************************************************************)
BeingCounted == IF fw.pc \in {"accepted", "counting"} THEN 1 ELSE 0

Otherwise ==
    /\ UNCHANGED <<thread, followed>>
    /\ rollout'.count = rollout.count /\ rollout'.approved = rollout.approved
    /\ fw'.pc \in {"idle", "scan", "drafting", "deciding"}
    /\ fw'.pc # "idle" => fw'.auto = fw.auto /\ fw.pc # "idle"
    /\ uncounted' = uncounted + BeingCounted

(* Every step of the worker is one of these.                               *)
LEMMA FollowupsKinds ==
  ASSUME fw \in FwType, FollowTypes, uncounted \in Nat, FollowupsNext
  PROVE  \/ \E dry \in BOOLEAN : StartFollowups(dry)
         \/ CommitToSend \/ ThreadGrows \/ CountRollout
         \/ \E backdated \in BOOLEAN : RecordFollowup(backdated)
         \/ Otherwise
<1> USE FwFields DEF FwAt, store, provider, plans, history, lost, BeingCounted, Otherwise
<1>1. ASSUME NEW c \in Contacts, RuleOut(c) \/ ThreadCheckFails(c)
      PROVE  Otherwise
    BY <1>1 DEF RuleOut, ThreadCheckFails
<1>2. ASSUME NEW c \in Contacts, TakeUp(c)
      PROVE  Otherwise
  <2>1. fw'.pc \in {"drafting", "deciding"} /\ fw'.auto = fw.auto
      BY <1>2 DEF TakeUp, FwType
  <2> QED
      BY <1>2, <2>1 DEF TakeUp
<1>3. CASE FollowupDrafted \/ FollowupDraftFails
    BY <1>3 DEF FollowupDrafted, FollowupDraftFails, DraftingFails
<1>4. CASE DraftingOutage
    BY <1>4 DEF DraftingOutage, DraftingFails, FollowTypes
<1>5. CASE HoldDraft \/ Withdraw \/ WaitForTurn
    BY <1>5 DEF HoldDraft, Withdraw, WaitForTurn
<1>6. ASSUME NEW accepted \in BOOLEAN, FollowupFails(accepted) PROVE Otherwise
    BY <1>6 DEF FollowupFails, Miscount
<1>7. CASE FollowupAmbiguous
    BY <1>7 DEF FollowupAmbiguous, Miscount
<1>8. CASE FollowupsDie
    BY <1>8 DEF FollowupsDie, Miscount
<1>9. CASE FollowupsDone
    BY <1>9 DEF FollowupsDone
<1> QED
    BY <1>1, <1>2, <1>3, <1>4, <1>5, <1>6, <1>7, <1>8, <1>9 DEF FollowupsNext

-----------------------------------------------------------------------------
(***************************************************************************)
(* The thread: what is in it, and that it stops at an answer.              *)
(***************************************************************************)
ThreadInv ==
    \A c \in Contacts :
       /\ \A k \in 1 .. Sent(c) : thread[c][k] = k
       /\ followed[c] <= Sent(c)
       /\ Sent(c) > 0 => Stamped(c)
       /\ fw.pc = "calling" /\ fw.c = c => Sent(c) = followed[c]
       /\ fw.pc = "accepted" /\ fw.c = c => Sent(c) = followed[c] + 1

SilentInv ==
    \A c \in Contacts : \A a \in mail[c] :
       Sent(c) - a.after <= IF fw.pc = "calling" /\ fw.c = c THEN 0 ELSE 1

(* The numbers the invariants compare.                                     *)
LEMMA ThreadFacts ==
  ASSUME MessagingInv, NEW c \in Contacts
  PROVE  Sent(c) \in Nat /\ followed[c] \in Nat /\ thread[c] \in Seq(Touches)
         /\ \A a \in mail[c] : a.after \in Nat
<1>1. thread[c] \in Seq(Touches) /\ followed[c] \in Touches
      /\ \A a \in mail[c] : a \in [kind : Answers, after : Nat]
    BY DEF MessagingInv, StoreTypes, MailTypes, FollowTypes
<1>2. Len(thread[c]) \in Nat
    BY <1>1, LenProperties
<1> QED
    BY <1>1, <1>2, WaveFacts DEF Sent

(* A step without a follow-up sent or recorded.                            *)
LEMMA ThreadQuiet ==
  ASSUME MessagingInv, ThreadInv, SilentInv, UNCHANGED <<thread, followed, mail>>,
         StaysStamped, fw' = fw \/ fw'.pc \notin Sending
  PROVE  ThreadInv' /\ SilentInv'
<1>1. \A c \in Contacts : /\ Sent(c)' = Sent(c) /\ Sent(c) \in Nat
                          /\ \A a \in mail[c] : a.after \in Nat
    BY ThreadFacts DEF Sent
<1>2. ThreadInv'
    BY <1>1 DEF ThreadInv, Sending, StaysStamped
<1>3. SilentInv'
    BY <1>1 DEF SilentInv, Sending
<1> QED
    BY <1>2, <1>3

(* The worker records what it sent, and looks for answers before it sends. *)
LEMMA FollowupsThreads ==
  ASSUME MessagingInv, ThreadInv, SilentInv, FollowupsNext
  PROVE  ThreadInv' /\ SilentInv'
<1> USE FwFields, FollowupsFrame, ThreadFacts DEF FwAt, Sent
<1>0. fw \in FwType /\ fw.c \in Contacts /\ uncounted \in Nat /\ FollowTypes
    BY DEF MessagingInv, FwType, StoreTypes, LossTypes
<1>s. StaysStamped /\ SameStamps
    BY FollowupsStamp DEF MessagingInv, FollowState, StoreTypes, StaysStamped, SameStamps
<1>1. ASSUME NEW dry \in BOOLEAN, StartFollowups(dry) PROVE ThreadInv' /\ SilentInv'
  <2>1. UNCHANGED <<thread, followed>> /\ fw'.pc \notin Sending
      BY <1>1 DEF StartFollowups, Sending
  <2> QED
      BY <1>s, <2>1, ThreadQuiet
<1>2. CASE CommitToSend
  <2>1. /\ UNCHANGED <<thread, followed, mail>> /\ fw'.pc = "calling" /\ fw'.c = fw.c
        /\ mail[fw.c] = {} /\ Sent(fw.c) <= followed[fw.c]
      BY <1>0, <1>2, FwMoves DEF CommitToSend, Inspect
  <2>2. ThreadInv'
      BY <1>0, <1>s, <2>1 DEF ThreadInv, SameStamps
  <2>3. SilentInv'
      BY <1>0, <2>1 DEF SilentInv
  <2> QED
      BY <2>2, <2>3
<1>3. CASE ThreadGrows
  <2>1. /\ fw.pc = "calling" /\ thread' = [thread EXCEPT ![fw.c] = Append(@, NextSequence(fw.c))]
        /\ fw'.pc = "accepted" /\ fw'.c = fw.c
        /\ UNCHANGED <<followed, mail>>
      BY <1>0, <1>3, FwMoves DEF ThreadGrows, plans
  <2>2. Sent(fw.c) = followed[fw.c] /\ NextSequence(fw.c) = Sent(fw.c) + 1
      BY <1>0, <2>1 DEF ThreadInv, NextSequence
  <2>3. \A c \in Contacts \ {fw.c} : thread'[c] = thread[c]
      BY <1>0, <2>1 DEF MessagingInv, StoreTypes, MailTypes
  <2>4. thread'[fw.c] = Append(thread[fw.c], Sent(fw.c) + 1)
      BY <1>0, <2>1, <2>2 DEF MessagingInv, StoreTypes, MailTypes
  <2>5. /\ Len(thread'[fw.c]) = Sent(fw.c) + 1
        /\ \A k \in 1 .. Sent(fw.c) : thread'[fw.c][k] = thread[fw.c][k]
        /\ thread'[fw.c][Sent(fw.c) + 1] = Sent(fw.c) + 1
    <3> DEFINE old == thread[fw.c]
               n == Len(old)
    <3>1. old \in Seq(Touches) /\ n \in Nat
        BY <1>0
    <3>2. thread'[fw.c] = Append(old, n + 1)
        BY <2>4
    <3> HIDE DEF old
    <3> QED
        BY <3>1, <3>2 DEF old
  <2>6. Stamped(fw.c)
      BY <1>0, <2>1 DEF MessagingInv, PlanInv, OnItsWay
  <2>7. ASSUME NEW c \in Contacts
        PROVE  /\ \A k \in 1 .. Len(thread'[c]) : thread'[c][k] = k
               /\ followed[c] <= Len(thread'[c])
               /\ Len(thread'[c]) > 0 => Stamped(c)
               /\ c = fw.c => Len(thread'[c]) = followed[c] + 1
    <3>1. CASE c = fw.c
      <4> DEFINE n == Len(thread[c])
      <4>0. n \in Nat /\ n = followed[c] /\ Len(thread'[c]) = n + 1 /\ followed[c] \in Nat
          BY <2>2, <2>5, <3>1
      <4>1. \A k \in 1 .. n : thread'[c][k] = k
          BY <2>5, <3>1 DEF ThreadInv
      <4>2. thread'[c][n + 1] = n + 1
          BY <2>5, <3>1
      <4> HIDE DEF n
      <4>3. \A k \in 1 .. n + 1 : k \in 1 .. n \/ k = n + 1
          BY <4>0
      <4>4. \A k \in 1 .. Len(thread'[c]) : thread'[c][k] = k
          BY <4>0, <4>1, <4>2, <4>3
      <4> QED
          BY <2>6, <3>1, <4>0, <4>4
    <3>2. CASE c # fw.c
        BY <2>3, <3>2 DEF ThreadInv
    <3> QED
        BY <3>1, <3>2
  <2>8. ThreadInv'
      BY <1>s, <2>1, <2>7 DEF ThreadInv, SameStamps
  <2>9. ASSUME NEW c \in Contacts, NEW a \in mail[c] PROVE Len(thread'[c]) - a.after <= 1
    <3>1. CASE c = fw.c
        BY <1>0, <2>1, <2>5, <3>1 DEF SilentInv
    <3>2. CASE c # fw.c
        BY <2>3, <3>2 DEF SilentInv
    <3> QED
        BY <3>1, <3>2
  <2>10. SilentInv'
      BY <2>1, <2>9 DEF SilentInv
  <2> QED
      BY <2>8, <2>10
<1>4. CASE CountRollout
  <2>1. UNCHANGED <<thread, followed>> /\ fw'.pc \notin Sending
      BY <1>0, <1>4 DEF CountRollout, Sending
  <2> QED
      BY <1>s, <2>1, ThreadQuiet
<1>5. ASSUME NEW backdated \in BOOLEAN, RecordFollowup(backdated)
      PROVE  ThreadInv' /\ SilentInv'
  <2>1. /\ UNCHANGED <<thread, mail>> /\ fw.pc = "accepted" /\ fw'.pc = "counting"
        /\ followed' = [followed EXCEPT ![fw.c] = @ + 1]
      BY <1>0, <1>5 DEF RecordFollowup
  <2>2. Sent(fw.c) = followed[fw.c] + 1
      BY <1>0, <2>1 DEF ThreadInv
  <2>3. \A c \in Contacts : followed'[c] = IF c = fw.c THEN followed[c] + 1 ELSE followed[c]
      BY <1>0, <2>1 DEF FollowTypes
  <2>4. ThreadInv'
      BY <1>0, <1>s, <2>1, <2>2, <2>3 DEF ThreadInv, SameStamps
  <2>5. SilentInv'
      BY <1>0, <2>1 DEF SilentInv
  <2> QED
      BY <2>4, <2>5
<1>6. CASE Otherwise
  <2>1. UNCHANGED <<thread, followed>> /\ fw'.pc \notin Sending
      BY <1>6 DEF Otherwise, Sending
  <2> QED
      BY <1>s, <2>1, ThreadQuiet
<1> QED
    BY <1>0, <1>1, <1>2, <1>3, <1>4, <1>5, <1>6, FollowupsKinds

LEMMA ThreadStep ==
  ASSUME MessagingInv, ThreadInv, SilentInv, [RetirementNext]_all
  PROVE  ThreadInv' /\ SilentInv'
<1>0. Sound
    BY DEF MessagingInv, Sound, StoreTypes
<1>1. CASE SendingNext /\ UNCHANGED fw
  <2>1. StaysStamped
      BY <1>0, <1>1, SendingMessages DEF Kept, StaysStamped
  <2> QED
      BY <1>1, <2>1, SendingFrame, ThreadQuiet
<1>2. CASE FollowupsNext
    BY <1>2, FollowupsThreads
<1>3. CASE FeedbackNext \/ Commands \/ UNCHANGED all
  <2>1. UNCHANGED <<fw, followed, thread, mail, phase>>
      BY <1>3, FeedbackFrame, CommandsFrame
      DEF unretired, all, vars, store, plans, provider, clock
  <2> QED
      BY <2>1, ThreadQuiet DEF StaysStamped, Stamped
<1>4. CASE Environment
  <2>1. UNCHANGED <<fw, followed, thread>> /\ SameStamps /\ StaysStamped
      BY <1>4, EnvironmentFrame, EnvironmentStamp
      DEF MessagingInv, StoreTypes, SameStamps, StaysStamped
  <2>2. CASE UNCHANGED mail
      BY <2>1, <2>2, ThreadQuiet
  <2>3. ASSUME NEW c \in Contacts, NEW kind \in Answers, Answer(c, kind)
        PROVE  ThreadInv' /\ SilentInv'
    <3>1. mail' = [mail EXCEPT ![c] = {[kind |-> kind, after |-> Len(thread[c])]}]
        BY <2>3 DEF Answer
    <3>2. \A d \in Contacts : mail'[d] =
             IF d = c THEN {[kind |-> kind, after |-> Len(thread[c])]} ELSE mail[d]
        BY <3>1 DEF MessagingInv, StoreTypes, MailTypes
    <3>3. ThreadInv'
        BY <2>1 DEF ThreadInv, Sent, SameStamps
    <3>4. ASSUME NEW d \in Contacts, NEW a \in mail'[d]
          PROVE  Len(thread[d]) - a.after <= IF fw.pc = "calling" /\ fw.c = d THEN 0 ELSE 1
      <4>1. CASE d = c
          BY <3>2, <3>4, <4>1, ThreadFacts DEF Sent
      <4>2. CASE d # c
          BY <3>2, <3>4, <4>2 DEF SilentInv, Sent
      <4> QED
          BY <4>1, <4>2
    <3>5. SilentInv'
        BY <2>1, <3>4 DEF SilentInv, Sent
    <3> QED
        BY <3>3, <3>5
  <2>4. UNCHANGED mail \/ \E c \in Contacts, kind \in Answers : Answer(c, kind)
      BY <1>4 DEF Environment, LiftPause, MinutesPass, WindowCloses, BlockEnds, DaysPass, provider
  <2> QED
      BY <2>2, <2>3, <2>4
<1> QED
    BY <1>1, <1>2, <1>3, <1>4, Steps

LEMMA ThreadHolds == RetirementSpec => [](ThreadInv /\ SilentInv)
<1>1. RetirementInit => ThreadInv /\ SilentInv
  <2> SUFFICES ASSUME RetirementInit PROVE ThreadInv /\ SilentInv
      OBVIOUS
  <2>1. \A c \in Contacts : thread[c] = <<>> /\ followed[c] = 0 /\ mail[c] = {}
        /\ fw.pc = "idle"
      BY DEF RetirementInit, Init, StoreInit, FwIdle
  <2>2. \A c \in Contacts : Sent(c) = 0
      BY <2>1, EmptySeq DEF Sent
  <2> QED
      BY <2>1, <2>2 DEF ThreadInv, SilentInv
<1> QED
    BY <1>1, ThreadStep, MessagingHolds, PTL DEF RetirementSpec

(* SilentOnceAnswered: however many follow-ups are planned and retried, at *)
(* most one, already on its way, follows an answer of the contact.         *)
THEOREM SilentAfterAnswer == RetirementSpec => []SilentOnceAnswered
<1>1. MessagingInv /\ SilentInv => SilentOnceAnswered
  <2> SUFFICES ASSUME MessagingInv, SilentInv, NEW c \in Contacts, NEW a \in mail[c]
               PROVE  Sent(c) - a.after <= 1
      BY DEF SilentOnceAnswered
  <2>1. Sent(c) \in Nat /\ a.after \in Nat
      BY ThreadFacts
  <2> QED
      BY <2>1 DEF SilentInv
<1> QED
    BY <1>1, ThreadHolds, MessagingHolds, PTL

-----------------------------------------------------------------------------
(***************************************************************************)
(* The rollout cap: every follow-up in a thread is counted, missed by the  *)
(* count, or about to be counted.                                          *)
(***************************************************************************)
Posts == UNION {{<<c, k>> : k \in 1 .. Sent(c)} : c \in Contacts}

CapInv ==
    /\ ~rollout.approved /\ IsFiniteSet(Posts)
    /\ Cardinality(Posts) = rollout.count + uncounted + BeingCounted
    /\ rollout.count <= RolloutCap
    /\ fw.pc # "idle" /\ fw.auto => rollout.count < RolloutCap
    /\ fw.pc \in {"calling", "accepted", "counting"} => fw.auto

LEMMA CapFacts ==
  ASSUME MessagingInv
  PROVE  /\ fw \in FwType /\ FollowTypes /\ uncounted \in Nat /\ fw.c \in Contacts
         /\ rollout.count \in Nat /\ rollout.paused \in BOOLEAN /\ RolloutCap \in Nat
  BY LimitsAssumption DEF MessagingInv, StoreTypes, FollowTypes, LossTypes, FwType

LEMMA SamePosts == ASSUME UNCHANGED thread PROVE Posts' = Posts
  BY DEF Posts, Sent

(* A step of somebody else.                                                *)
LEMMA CapQuiet ==
  ASSUME CapInv, UNCHANGED <<thread, uncounted, fw>>,
         rollout'.count = rollout.count, rollout'.approved = rollout.approved
  PROVE  CapInv'
  BY SamePosts DEF CapInv, BeingCounted

(* The worker's follow-ups, one counted for each sent.                     *)
LEMMA FollowupsCap ==
  ASSUME MessagingInv, ThreadInv, CapInv, FollowupsNext
  PROVE  CapInv'
<1> USE FwFields, CapFacts DEF FwAt
<1>1. ASSUME NEW dry \in BOOLEAN, StartFollowups(dry) PROVE CapInv'
  <2>1. /\ UNCHANGED <<thread, rollout, uncounted>> /\ fw.pc = "idle" /\ fw'.pc = "scan"
        /\ fw'.auto = AutoSendAvailable(rollout, RolloutCap)
      BY <1>1 DEF StartFollowups, history, lost
  <2>2. fw'.auto => rollout.count < RolloutCap
      BY <2>1 DEF AutoSendAvailable, CapInv
  <2> QED
      BY <2>1, <2>2, SamePosts DEF CapInv, BeingCounted
<1>2. CASE CommitToSend
  <2>1. /\ UNCHANGED <<thread, rollout, uncounted>> /\ fw.pc = "deciding" /\ fw'.pc = "calling"
        /\ fw'.auto = fw.auto /\ fw.auto
      BY <1>2 DEF CommitToSend, history, lost
  <2> QED
      BY <2>1, SamePosts DEF CapInv, BeingCounted
<1>3. CASE ThreadGrows
  <2>1. /\ fw.pc = "calling" /\ fw'.pc = "accepted" /\ fw'.auto = fw.auto
        /\ thread' = [thread EXCEPT ![fw.c] = Append(@, NextSequence(fw.c))]
        /\ UNCHANGED <<rollout, uncounted>>
      BY <1>3 DEF ThreadGrows, plans, history, lost
  <2> DEFINE n == Len(thread[fw.c])
  <2>2. n \in Nat /\ Len(thread'[fw.c]) = n + 1
        /\ \A c \in Contacts \ {fw.c} : thread'[c] = thread[c]
    <3>1. thread \in [Contacts -> Seq(Touches)] /\ thread[fw.c] \in Seq(Touches)
        BY DEF MessagingInv, StoreTypes, MailTypes
    <3>2. thread'[fw.c] = Append(thread[fw.c], NextSequence(fw.c))
        BY <2>1, <3>1
    <3> DEFINE old == thread[fw.c]
               e == NextSequence(fw.c)
    <3>3. old \in Seq(Touches)
        BY <3>1
    <3> HIDE DEF old, e
    <3>4. Len(old) \in Nat /\ Len(Append(old, e)) = Len(old) + 1
        BY <3>3
    <3> USE DEF old, e
    <3> QED
        BY <2>1, <3>1, <3>2, <3>4
  <2>3. Posts' = Posts \cup {<<fw.c, n + 1>>}
    <3>1. \A k : k \in 1 .. n + 1 <=> k \in 1 .. n \/ k = n + 1
        BY <2>2
    <3>2. \A p : p \in Posts' <=> \E c \in Contacts : \E k \in 1 .. Len(thread'[c]) : p = <<c, k>>
        BY DEF Posts, Sent
    <3>3. \A p : p \in Posts <=> \E c \in Contacts : \E k \in 1 .. Len(thread[c]) : p = <<c, k>>
        BY DEF Posts, Sent
    <3> DEFINE c0 == fw.c
    <3>4. c0 \in Contacts /\ Len(thread[c0]) = n /\ Len(thread'[c0]) = n + 1
          /\ \A c \in Contacts \ {c0} : Len(thread'[c]) = Len(thread[c])
        BY <2>2
    <3> HIDE DEF n, c0
    <3>5. ASSUME NEW p \in Posts' PROVE p \in Posts \cup {<<c0, n + 1>>}
      <4>1. PICK c \in Contacts : \E k \in 1 .. Len(thread'[c]) : p = <<c, k>>
          BY <3>2, <3>5
      <4>2. PICK k \in 1 .. Len(thread'[c]) : p = <<c, k>>
          BY <4>1
      <4>3. CASE c = c0
        <5>1. k \in 1 .. n \/ k = n + 1
            BY <3>1, <3>4, <4>3
        <5> QED
            BY <3>3, <3>4, <4>2, <4>3, <5>1
      <4>4. CASE c # c0
          BY <3>3, <3>4, <4>2, <4>4
      <4> QED
          BY <4>3, <4>4
    <3>6. ASSUME NEW p \in Posts \cup {<<c0, n + 1>>} PROVE p \in Posts'
      <4>1. CASE p = <<c0, n + 1>>
          BY <3>1, <3>2, <3>4, <4>1
      <4>2. CASE p \in Posts
        <5>1. PICK c \in Contacts : \E k \in 1 .. Len(thread[c]) : p = <<c, k>>
            BY <3>3, <4>2
        <5>2. PICK k \in 1 .. Len(thread[c]) : p = <<c, k>>
            BY <5>1
        <5>3. k \in 1 .. Len(thread'[c])
            BY <3>1, <3>4
        <5> QED
            BY <3>2, <5>2, <5>3
      <4> QED
          BY <3>6, <4>1, <4>2
    <3> QED
        BY <3>5, <3>6 DEF c0
  <2>4. <<fw.c, n + 1>> \notin Posts
      BY <2>2 DEF Posts, Sent
  <2>5. IsFiniteSet(Posts') /\ Cardinality(Posts') = Cardinality(Posts) + 1
      BY <2>3, <2>4, FS_AddElement DEF CapInv
  <2> QED
      BY <2>1, <2>5 DEF CapInv, BeingCounted
<1>4. CASE CountRollout
  <2>1. /\ UNCHANGED <<thread, uncounted>> /\ fw.pc = "counting" /\ fw'.pc = "idle"
        /\ rollout' = Counted
      BY <1>4 DEF CountRollout, history, lost
  <2>2. rollout'.count = rollout.count + 1 /\ rollout'.approved = rollout.approved
      BY <2>1 DEF Counted, FollowTypes
  <2> QED
      BY <2>1, <2>2, SamePosts DEF CapInv, BeingCounted
<1>5. ASSUME NEW backdated \in BOOLEAN, RecordFollowup(backdated) PROVE CapInv'
  <2>1. /\ UNCHANGED <<thread, rollout, uncounted>> /\ fw.pc = "accepted"
        /\ fw'.pc = "counting" /\ fw'.auto = fw.auto
      BY <1>5 DEF RecordFollowup, history, lost
  <2> QED
      BY <2>1, SamePosts DEF CapInv, BeingCounted
<1>6. CASE Otherwise
    BY <1>6, SamePosts DEF CapInv, Otherwise, BeingCounted
<1> QED
    BY <1>1, <1>2, <1>3, <1>4, <1>5, <1>6, FollowupsKinds

LEMMA CapStep == MessagingInv /\ ThreadInv /\ CapInv /\ [RetirementNext]_all => CapInv'
<1> SUFFICES ASSUME MessagingInv, ThreadInv, CapInv, [RetirementNext]_all PROVE CapInv'
    OBVIOUS
<1>1. CASE SendingNext /\ UNCHANGED fw
    BY <1>1, SendingFrame, CapQuiet
<1>2. CASE FollowupsNext
    BY <1>2, FollowupsCap
<1>3. CASE FeedbackNext \/ UNCHANGED all
    BY <1>3, FeedbackFrame, CapQuiet DEF all, vars, store, plans, provider, history, lost
<1>4. CASE Commands
    BY <1>4, CommandsFrame, CapQuiet DEF unretired, provider, lost
<1>5. CASE Environment
  <2>1. UNCHANGED <<thread, uncounted, fw>>
      BY <1>5, EnvironmentFrame DEF history, lost
  <2>2. rollout'.count = rollout.count /\ rollout'.approved = rollout.approved
      BY <1>5, CapFacts DEF Environment, Answer, LiftPause, MinutesPass, WindowCloses,
         BlockEnds, DaysPass, plans, FollowTypes
  <2> QED
      BY <2>1, <2>2, CapQuiet
<1> QED
    BY <1>1, <1>2, <1>3, <1>4, <1>5, Steps

(* RolloutCapped for any cap: before the owner approves more, the worker   *)
(* sends no more follow-ups than the cap and those whose count was lost.   *)
THEOREM RolloutWithinCap == RetirementSpec => []RolloutCapped
<1>1. RetirementInit => CapInv
  <2> SUFFICES ASSUME RetirementInit PROVE CapInv
      OBVIOUS
  <2>1. \A c \in Contacts : thread[c] = <<>>
      BY DEF RetirementInit, Init, StoreInit
  <2>2. \A c \in Contacts : Sent(c) = 0
      BY <2>1, EmptySeq DEF Sent
  <2>3. Posts = {}
      BY <2>2 DEF Posts
  <2>4. IsFiniteSet(Posts) /\ Cardinality(Posts) = 0
      BY <2>3, FS_EmptySet
  <2> QED
      BY <2>4, LimitsAssumption
      DEF RetirementInit, Init, StoreInit, CapInv, BeingCounted, FwIdle
<1>2. RetirementSpec => []CapInv
    BY <1>1, CapStep, MessagingHolds, ThreadHolds, PTL DEF RetirementSpec
<1>3. MessagingInv /\ CapInv => RolloutCapped
    BY CapFacts DEF CapInv, RolloutCapped, Posts, BeingCounted
<1> QED
    BY <1>2, <1>3, MessagingHolds, PTL

=============================================================================
