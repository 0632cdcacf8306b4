------------------------- MODULE MessagingLedgerProofs -------------------------
(***************************************************************************)
(* What the processes around sent mail promise the contacts: Messaging,    *)
(* with the owner's commands, implements TouchLedger, and a message is     *)
(* settled as not bounced only for a reason.  Both rest on the inductive   *)
(* invariants of MessagingProofs.                                          *)
(*                                                                         *)
(* The refinement mapping shows a contact's mail as a row of zeroes, one   *)
(* for each accepted original, followed by its thread.  That this row is   *)
(* one the ledger allows needs OutboxInv: the accepted originals of a      *)
(* contact are the lost ones and at most one more, that of a message       *)
(* with a recorded sent_at or of the call whose answer is on the way.      *)
(***************************************************************************)
EXTENDS MessagingProofs

InTransit(c) == snd.pc = "accepted" /\ snd.c = c

OutboxInv ==
    \A c \in Contacts :
       outbox[c] = doubts[c] + (IF Stamped(c) \/ InTransit(c) THEN 1 ELSE 0)

(* The message of the sending step under way is not sent.                  *)
LEMMA HandedOver ==
  ASSUME MessagingInv, snd.pc \in Sending
  PROVE  snd.c \in Contacts /\ ~Stamped(snd.c)
<1>1. snd.c \in FirstOf(Ahead) /\ snd.pc \in Walking
    BY DEF MessagingInv, HandInv, Walking
<1>2. snd.c \in Ahead /\ snd.c \in Contacts
    BY <1>1, FirstOfIn
<1> QED
    BY <1>1, <1>2 DEF MessagingInv, HandInv

-----------------------------------------------------------------------------
(***************************************************************************)
(* What a step does to the three things the ledger is read from.           *)
(***************************************************************************)
\* An acceptance is lost: the program goes on without it.
Loses ==
    /\ snd.pc = "accepted" /\ snd'.pc # "accepted"
    /\ doubts' = [doubts EXCEPT ![snd.c] = @ + 1]
    /\ UNCHANGED outbox /\ SameStamps

\* The acceptance is recorded.
Records ==
    /\ snd.pc = "accepted" /\ snd'.pc # "accepted"
    /\ phase' = [phase EXCEPT ![snd.c] = "fresh"]
    /\ UNCHANGED <<outbox, doubts>>

\* Neither.
Leaves ==
    /\ snd' = snd \/ (snd.pc # "accepted" /\ snd'.pc # "accepted")
    /\ UNCHANGED <<outbox, doubts>> /\ SameStamps

LEMMA SamePhase == ASSUME UNCHANGED phase PROVE SameStamps
  BY DEF SameStamps, Stamped

LEMMA SendingDeals ==
  ASSUME MessagingInv, SendingNext
  PROVE  ProviderAccepts \/ Loses \/ Records \/ Leaves
<1> USE SamePhase DEF At, unsent, store, originals, plans, provider, clock, history, lost
<1>0. /\ SendingTypeOK /\ snd.c \in Contacts /\ doubts \in [Contacts -> 0 .. troubles]
      /\ SndIdle.pc = "idle" /\ snd \in SndType
    BY DEF MessagingInv, SendingTypeOK, SndType, SndIdle, StoreTypes, LossTypes
<1>a. ASSUME snd.pc # "accepted", snd'.pc # "accepted", UNCHANGED <<outbox, doubts, phase>>
      PROVE  Leaves
    BY <1>a DEF Leaves
<1>1. CASE StartSending \/ DraftsDone \/ BeginWave \/ EndWave \/ ObserveSent
  <2>1. /\ snd.pc # "accepted" /\ UNCHANGED <<outbox, doubts, phase>>
        /\ \/ snd' = SndIdle
           \/ snd' = [SndIdle EXCEPT !.pc = "refreshing"]
           \/ snd' = [SndIdle EXCEPT !.pc = "drafting", !.wave = Selected(link)]
           \/ snd' = [snd EXCEPT !.pc = "wave", !.wave = Waiting]
      BY <1>1 DEF StartSending, DraftsDone, BeginWave, EndWave, ObserveSent
  <2>2. snd'.pc # "accepted"
      BY <1>0, <2>1 DEF SndIdle, SndType
  <2> QED
      BY <1>a, <2>1, <2>2
<1>2. CASE DraftRendered \/ DraftFails
  <2>1. PICK status \in {"generated", "failed"} : StoreDraft(status)
      BY <1>2 DEF DraftRendered, DraftFails
  <2>2. /\ snd.pc = "rendering" /\ UNCHANGED <<outbox, doubts, phase>>
        /\ snd' = [snd EXCEPT !.pc = "drafting", !.passed = @ \cup {snd.c}]
      BY <2>1 DEF StoreDraft
  <2>3. snd'.pc # "accepted"
      BY <1>0, <2>2 DEF SndType
  <2> QED
      BY <1>a, <2>2, <2>3
<1>3. CASE \/ RefreshDraft \/ RefreshFails
           \/ \E c \in Contacts : PromoteContact(c) \/ LoadStale(c) \/ Visit(c)
  <2>1. /\ snd.pc # "accepted" /\ UNCHANGED <<outbox, doubts, phase>>
        /\ \/ snd' = [SndIdle EXCEPT !.pc = "refreshing"]
           \/ \E c \in Contacts : \E pc \in {"rendering", "rewriting", "calling"} :
                 snd' = [snd EXCEPT !.pc = pc, !.c = c]
      BY <1>3 DEF RefreshDraft, RefreshFails, Block, PromoteContact, LoadStale, Visit
  <2>2. snd'.pc # "accepted"
      BY <1>0, <2>1 DEF SndIdle, SndType
  <2> QED
      BY <1>a, <2>1, <2>2
<1>4. ASSUME NEW accepted \in BOOLEAN, NEW published \in BOOLEAN,
             Rejected(accepted) \/ TransientFailure(accepted, published)
      PROVE  Loses \/ Leaves
  <2>1. /\ snd.pc = IF accepted THEN "accepted" ELSE "calling"
        /\ \/ snd' = SndIdle
           \/ snd' = [snd EXCEPT !.pc = "wave", !.passed = @ \cup {snd.c}]
        /\ UNCHANGED <<outbox, phase>>
        /\ doubts' = [doubts EXCEPT ![snd.c] = IF accepted THEN @ + 1 ELSE @]
      BY <1>4 DEF Rejected, TransientFailure, Doubt
  <2>2. snd'.pc # "accepted"
      BY <1>0, <2>1 DEF SndType
  <2> QED
      BY <1>0, <2>1, <2>2 DEF Loses, Leaves
<1>5. CASE AnswerWithoutId
    BY <1>0, <1>5 DEF AnswerWithoutId, Doubt, Block, Loses
<1>6. CASE RecordSent \/ RecordDies
  <2>1. /\ snd.pc = "accepted"
        /\ \/ snd' = SndIdle
           \/ snd' = Goto("observing")
        /\ phase' = [phase EXCEPT ![snd.c] = "fresh"] /\ UNCHANGED <<outbox, doubts>>
      BY <1>6 DEF RecordSent, RecordDies, MarkSent
  <2>2. snd'.pc # "accepted"
      BY <1>0, <2>1 DEF Goto, SndType
  <2> QED
      BY <2>1, <2>2 DEF Records
<1>7. CASE SendingDies
  <2>1. /\ snd'.pc = "idle" /\ UNCHANGED <<outbox, phase>>
        /\ doubts' = [doubts EXCEPT ![snd.c] = IF snd.pc = "accepted" THEN @ + 1 ELSE @]
      BY <1>0, <1>7 DEF SendingDies, Doubt
  <2> QED
      BY <1>0, <2>1 DEF Loses, Leaves
<1> QED
    BY <1>1, <1>2, <1>3, <1>4, <1>5, <1>6, <1>7 DEF SendingNext

LEMMA Deals ==
  ASSUME MessagingInv, [RetirementNext]_all
  PROVE  ProviderAccepts \/ Loses \/ Records \/ Leaves
<1>1. CASE SendingNext
    BY <1>1, SendingDeals
<1>2. CASE FollowupsNext
  <2>1. SameStamps
      BY <1>2, FollowupsStamp DEF MessagingInv, FollowState, StoreTypes, SameStamps
  <2> QED
      BY <1>2, <2>1, FollowupsFrame DEF Leaves
<1>3. CASE Environment
  <2>1. SameStamps
      BY <1>3, EnvironmentStamp DEF MessagingInv, StoreTypes, SameStamps
  <2> QED
      BY <1>3, <2>1, EnvironmentFrame DEF Leaves, history, lost
<1>4. CASE FeedbackNext \/ Commands \/ UNCHANGED all
  <2>1. UNCHANGED <<snd, outbox, doubts, phase>>
      BY <1>4, FeedbackFrame, CommandsFrame
      DEF unretired, all, vars, store, provider, clock, history, lost
  <2> QED
      BY <2>1, SamePhase DEF Leaves
<1> QED
    BY <1>1, <1>2, <1>3, <1>4, Steps

LEMMA OutboxStep ==
  ASSUME MessagingInv, OutboxInv, [RetirementNext]_all
  PROVE  OutboxInv'
<1> USE DEF InTransit
<1>0. /\ outbox \in [Contacts -> Nat] /\ doubts \in [Contacts -> Nat]
      /\ phase \in [Contacts -> Phases] /\ snd.c \in Contacts
    BY DEF MessagingInv, StoreTypes, MailTypes, LossTypes, TimeTypes, SendingTypeOK
<1>1. CASE ProviderAccepts
  <2>1. /\ snd.pc = "calling" /\ snd' = Goto("accepted")
        /\ outbox' = [outbox EXCEPT ![snd.c] = @ + 1]
        /\ UNCHANGED <<phase, doubts>>
      BY <1>1 DEF ProviderAccepts, At, history, lost
  <2>2. snd'.pc = "accepted" /\ snd'.c = snd.c
      BY <2>1, SndFields DEF MessagingInv, SndSteps
  <2>3. ~Stamped(snd.c)
      BY <2>1, HandedOver DEF Sending
  <2>4. SameStamps
      BY <2>1, SamePhase
  <2> QED
      BY <1>0, <2>1, <2>2, <2>3, <2>4 DEF OutboxInv, SameStamps
<1>2. CASE Loses
  <2>1. ~Stamped(snd.c)
      BY <1>2, HandedOver DEF Loses, Sending
  <2> QED
      BY <1>0, <1>2, <2>1 DEF OutboxInv, Loses, SameStamps
<1>3. CASE Records
  <2>1. ~Stamped(snd.c)
      BY <1>3, HandedOver DEF Records, Sending
  <2>2. \A c \in Contacts : Stamped(c)' <=> Stamped(c) \/ c = snd.c
      BY <1>0, <1>3 DEF Records, Stamped
  <2> QED
      BY <1>0, <1>3, <2>1, <2>2 DEF OutboxInv, Records
<1>4. CASE Leaves
    BY <1>4 DEF OutboxInv, Leaves, SameStamps
<1> QED
    BY <1>1, <1>2, <1>3, <1>4, Deals

LEMMA OutboxHolds == RetirementSpec => []OutboxInv
<1>1. RetirementInit => OutboxInv
    BY DEF RetirementInit, Init, StoreInit, SndIdle, OutboxInv, InTransit, Stamped
<1> QED
    BY <1>1, OutboxStep, MessagingHolds, PTL DEF RetirementSpec

-----------------------------------------------------------------------------
(***************************************************************************)
(* The refinement mapping.                                                 *)
(***************************************************************************)
Zeroes(n) == [k \in 1 .. n |-> 0]
Mails(c) == Zeroes(outbox[c]) \o thread[c]
Spared(c) == doubts[c] - (IF outbox[c] = 0 THEN 0 ELSE outbox[c] - 1)

Received == [c \in Contacts |-> [k \in 1 .. outbox[c] |-> 0] \o thread[c]]
Spare == [c \in Contacts |-> doubts[c] - (IF outbox[c] = 0 THEN 0 ELSE outbox[c] - 1)]

LEMMA MappedTo ==
  /\ Received = [c \in Contacts |-> Mails(c)]
  /\ Spare = [c \in Contacts |-> Spared(c)]
  BY DEF Received, Spare, Mails, Spared, Zeroes

(* A row of zeroes is a sequence, and what follows it stays behind it.     *)
LEMMA ZeroRow ==
  ASSUME NEW n \in Nat
  PROVE  /\ Zeroes(n) \in Seq(Nat) /\ Len(Zeroes(n)) = n
         /\ \A i \in 1 .. n : Zeroes(n)[i] = 0
  BY SeqDef, LenProperties DEF Zeroes

(* A row that is not empty ends in a zero.                                 *)
LEMMA ZeroRowEnds ==
  ASSUME NEW n \in Nat, n # 0
  PROVE  Len(Zeroes(n)) = n /\ Zeroes(n)[n] = 0 /\ Zeroes(n) # <<>>
<1>1. Len(Zeroes(n)) = n
    BY ZeroRow
<1>2. Zeroes(n)[n] = 0
    BY ZeroRow
<1>3. Zeroes(n) # <<>>
  <2>1. Len(<<>>) = 0
      BY EmptySeq
  <2> QED
      BY <1>1, <2>1
<1> QED
    BY <1>1, <1>2, <1>3

LEMMA RowFacts ==
  ASSUME NEW n \in Nat, NEW s \in Seq(Nat)
  PROVE  /\ Zeroes(n) \o s \in Seq(Nat)
         /\ Len(Zeroes(n) \o s) = n + Len(s)
         /\ \A i \in 1 .. n + Len(s) : (Zeroes(n) \o s)[i] = IF i <= n THEN 0 ELSE s[i - n]
<1> DEFINE z == Zeroes(n)
<1>1. z \in Seq(Nat) /\ Len(z) = n /\ \A i \in 1 .. n : z[i] = 0
    BY ZeroRow
<1>2. Len(s) \in Nat
    BY LenProperties
<1> HIDE DEF z
<1>3. /\ z \o s \in Seq(Nat) /\ Len(z \o s) = n + Len(s)
      /\ \A i \in 1 .. n + Len(s) : (z \o s)[i] = IF i <= n THEN z[i] ELSE s[i - n]
    BY <1>1, ConcatProperties
<1>4. \A i \in 1 .. n + Len(s) : (z \o s)[i] = IF i <= n THEN 0 ELSE s[i - n]
    BY <1>1, <1>2, <1>3
<1> QED
    BY <1>3, <1>4 DEF z

(* One more original, when no follow-up was sent.                          *)
LEMMA RowOfOriginals ==
  ASSUME NEW n \in Nat
  PROVE  /\ Zeroes(n) \o <<>> = Zeroes(n)
         /\ Zeroes(0) = <<>>
         /\ Zeroes(n + 1) = Append(Zeroes(n), 0)
<1>1. Zeroes(n) \o <<>> = Zeroes(n)
    BY ZeroRow, ConcatEmptySeq
<1>2. Zeroes(0) = <<>>
    BY ZeroRow, EmptySeq
<1>3. Zeroes(n + 1) = Append(Zeroes(n), 0)
  <2> DEFINE z == Zeroes(n)
             y == Zeroes(n + 1)
  <2>1. z \in Seq(Nat) /\ Len(z) = n /\ \A i \in 1 .. n : z[i] = 0
      BY ZeroRow
  <2>2. y \in Seq(Nat) /\ Len(y) = n + 1 /\ \A i \in 1 .. n + 1 : y[i] = 0
      BY ZeroRow
  <2> HIDE DEF z, y
  <2>3. /\ Append(z, 0) \in Seq(Nat) /\ Len(Append(z, 0)) = n + 1
        /\ \A i \in 1 .. n + 1 : Append(z, 0)[i] = IF i = n + 1 THEN 0 ELSE z[i]
      BY <2>1
  <2>4. \A i \in 1 .. n + 1 : Append(z, 0)[i] = 0
      BY <2>1, <2>3
  <2>5. y = Append(z, 0)
      BY <2>2, <2>3, <2>4, SeqEqual
  <2> QED
      BY <2>5 DEF z, y
<1> QED
    BY <1>1, <1>2, <1>3

(* One more follow-up.                                                     *)
LEMMA RowAppends ==
  ASSUME NEW n \in Nat, NEW s \in Seq(Nat), NEW e \in Nat
  PROVE  Zeroes(n) \o Append(s, e) = Append(Zeroes(n) \o s, e)
<1> DEFINE r == Zeroes(n) \o s
           t == Append(s, e)
           q == Zeroes(n) \o t
<1>0. Len(s) \in Nat
    BY LenProperties
<1>1. /\ t \in Seq(Nat) /\ Len(t) = Len(s) + 1
      /\ \A i \in 1 .. Len(s) : t[i] = s[i]
      /\ t[Len(s) + 1] = e
    OBVIOUS
<1>2. /\ r \in Seq(Nat) /\ Len(r) = n + Len(s)
      /\ \A i \in 1 .. n + Len(s) : r[i] = IF i <= n THEN 0 ELSE s[i - n]
    BY RowFacts
<1> HIDE DEF t
<1>3. /\ q \in Seq(Nat) /\ Len(q) = n + Len(t)
      /\ \A i \in 1 .. n + Len(t) : q[i] = IF i <= n THEN 0 ELSE t[i - n]
    BY <1>1, RowFacts
<1> DEFINE m == Len(s)
<1> HIDE DEF r, q, m
<1>a. m \in Nat /\ Len(r) = n + m
    BY <1>0, <1>2 DEF m
<1>b. /\ Append(r, e) \in Seq(Nat) /\ Len(Append(r, e)) = Len(r) + 1
      /\ \A i \in 1 .. Len(r) + 1 : Append(r, e)[i] = IF i = Len(r) + 1 THEN e ELSE r[i]
    BY <1>2
<1>4. /\ Append(r, e) \in Seq(Nat) /\ Len(Append(r, e)) = n + m + 1
      /\ \A i \in 1 .. n + m + 1 : Append(r, e)[i] = IF i = n + m + 1 THEN e ELSE r[i]
    BY <1>a, <1>b
<1>5. ASSUME NEW i \in 1 .. n + m + 1
      PROVE  q[i] = Append(r, e)[i]
  <2>0. m \in Nat /\ m = Len(s)
      BY <1>0 DEF m
  <2>1. CASE i = n + m + 1
    <3>1. i - n = m + 1 /\ ~(i <= n) /\ i \in 1 .. n + (m + 1)
        BY <2>0, <2>1
    <3>2. q[i] = t[m + 1]
        BY <1>1, <1>3, <2>0, <3>1
    <3>3. Append(r, e)[i] = e
        BY <1>4, <2>1
    <3> QED
        BY <1>1, <2>0, <3>2, <3>3
  <2>2. CASE i <= n
    <3>1. i \in 1 .. n + m /\ i # n + m + 1 /\ i \in 1 .. n + (m + 1)
        BY <2>0, <2>2
    <3> QED
        BY <1>1, <1>2, <1>3, <1>4, <2>0, <2>2, <3>1
  <2>3. CASE i > n /\ i # n + m + 1
    <3>1. i \in 1 .. n + m /\ i - n \in 1 .. m /\ i \in 1 .. n + (m + 1) /\ ~(i <= n)
        BY <2>0, <2>3
    <3>2. q[i] = t[i - n]
        BY <1>1, <1>3, <2>0, <3>1
    <3>3. t[i - n] = s[i - n]
        BY <1>1, <2>0, <3>1
    <3>4. Append(r, e)[i] = s[i - n]
        BY <1>2, <1>4, <2>0, <2>3, <3>1
    <3> QED
        BY <3>2, <3>3, <3>4
  <2>4. i \in Nat /\ (i <= n \/ i > n)
      BY <2>0
  <2> QED
      BY <2>1, <2>2, <2>3, <2>4
<1>6. Len(q) = n + m + 1
    BY <1>0, <1>1, <1>3 DEF m
<1>7. q = Append(r, e)
    BY <1>3, <1>4, <1>5, <1>6, SeqEqual
<1> QED
    BY <1>7 DEF q, r, t

-----------------------------------------------------------------------------
(***************************************************************************)
(* Every step is one of the ledger's, or leaves it as it is.               *)
(***************************************************************************)
LEMMA LedgerFacts ==
  ASSUME MessagingInv, OutboxInv, NEW c \in Contacts
  PROVE  /\ outbox[c] \in Nat /\ doubts[c] \in Nat /\ thread[c] \in Seq(Nat)
         /\ outbox[c] = doubts[c] \/ outbox[c] = doubts[c] + 1
         /\ Stamped(c) \/ InTransit(c) => outbox[c] = doubts[c] + 1
         /\ ~Stamped(c) /\ ~InTransit(c) => outbox[c] = doubts[c]
<1>1. /\ outbox \in [Contacts -> Nat] /\ doubts \in [Contacts -> 0 .. troubles]
      /\ thread[c] \in Seq(Touches)
    BY DEF MessagingInv, StoreTypes, MailTypes, LossTypes
<1>2. thread[c] \in Seq(Nat)
    BY <1>1, WaveFacts, SeqMonotonic
<1> QED
    BY <1>1, <1>2 DEF OutboxInv

(* No follow-up was sent to a contact whose original is not recorded.      *)
LEMMA NoThread ==
  ASSUME MessagingInv, ThreadInv, NEW c \in Contacts, ~Stamped(c)
  PROVE  thread[c] = <<>>
<1>1. Sent(c) = 0 /\ thread[c] \in Seq(Touches)
    BY ThreadFacts DEF ThreadInv
<1> QED
    BY <1>1, EmptySeq DEF Sent

LEMMA MailsNext ==
  ASSUME NEW c
  PROVE  Mails(c)' = Zeroes(outbox'[c]) \o thread'[c]
  BY DEF Mails, Zeroes

LEMMA AsRepeat ==
  ASSUME NEW p \in Contacts,
         Received[p] # <<>>, Received[p][Len(Received[p])] = 0,
         Spare[p] > 0, Spare' = [Spare EXCEPT ![p] = @ - 1],
         Received' = [Received EXCEPT ![p] = Append(@, 0)]
  PROVE  Ledger!Repeat(p)
  BY Zenon DEF Ledger!Repeat, Received, Spare

LEMMA LedgerAccepts ==
  ASSUME MessagingInv, ThreadInv, OutboxInv, ProviderAccepts,
         NEW p \in Contacts, p = snd.c, NEW n \in Nat, n = outbox[p]
  PROVE  Ledger!First(p) \/ Ledger!Repeat(p)
<1>1. /\ snd.pc = "calling" /\ p \in Contacts /\ ~Stamped(p)
      /\ outbox' = [outbox EXCEPT ![p] = @ + 1]
      /\ UNCHANGED <<thread, doubts>>
    BY HandedOver DEF ProviderAccepts, At, Sending, history, lost
<1>2. n \in Nat /\ doubts[p] = n /\ thread[p] = <<>> /\ thread'[p] = <<>>
    BY <1>1, LedgerFacts, NoThread DEF InTransit
<1>3. outbox'[p] = n + 1 /\ \A c \in Contacts \ {p} : outbox'[c] = outbox[c]
    BY <1>1 DEF MessagingInv, StoreTypes, MailTypes
<1>4. Mails(p) = Zeroes(n) /\ Mails(p)' = Append(Zeroes(n), 0)
  <2>1. Mails(p)' = Zeroes(n + 1) \o <<>>
      BY <1>2, <1>3, MailsNext
  <2>2. Mails(p)' = Append(Zeroes(n), 0)
    <3>1. n + 1 \in Nat
        OBVIOUS
    <3>2. Zeroes(n + 1) \o <<>> = Zeroes(n + 1)
        BY <3>1, RowOfOriginals
    <3> QED
        BY <2>1, <3>2, RowOfOriginals
  <2> QED
      BY <1>2, <2>2, RowOfOriginals DEF Mails
<1>5. \A c \in Contacts \ {p} : Mails(c)' = Mails(c) /\ Spared(c)' = Spared(c)
  <2> TAKE c \in Contacts \ {p}
  <2>1. Mails(c)' = Mails(c)
      BY <1>1, <1>3, MailsNext DEF Mails
  <2>2. Spared(c)' = Spared(c)
      BY <1>1, <1>3 DEF Spared
  <2> QED
      BY <2>1, <2>2
<1>6. Received[p] = Zeroes(n) /\ Received' = [Received EXCEPT ![p] = Append(@, 0)]
  <2>1. Received' = [c \in Contacts |-> Mails(c)']
      BY MappedTo DEF Received, Mails, Zeroes
  <2> QED
      BY <1>1, <1>4, <1>5, <2>1, MappedTo
<1>7. CASE n = 0
  <2>1. Received[p] = <<>> /\ Received' = [Received EXCEPT ![p] = <<0>>]
    <3>1. Zeroes(n) = <<>>
        BY <1>7, RowOfOriginals
    <3> QED
        BY <1>6, <3>1
  <2>2. Spared(p)' = Spared(p)
      BY <1>1, <1>2, <1>3, <1>7 DEF Spared
  <2>3. Spare' = Spare
      BY <1>5, <2>2 DEF Spare, Spared
  <2>4. Ledger!First(p)
      BY <2>1, <2>3 DEF Ledger!First, Received, Spare
  <2> QED
      BY <2>4
<1>8. CASE n # 0
  <2>1. Len(Zeroes(n)) = n /\ Zeroes(n)[n] = 0 /\ Zeroes(n) # <<>>
      BY <1>2, <1>8, ZeroRowEnds
  <2>2. Spared(p) = 1 /\ Spared(p)' = 0
      BY <1>1, <1>2, <1>3, <1>8 DEF Spared
  <2>3. Spare[p] = 1 /\ Spare' = [Spare EXCEPT ![p] = @ - 1]
    <3>1. Spare' = [c \in Contacts |-> Spared(c)']
        BY DEF Spare, Spared
    <3> QED
        BY <1>1, <1>5, <2>2, <3>1, MappedTo
  <2>4. Received[p] # <<>> /\ Received[p][Len(Received[p])] = 0
      BY <1>6, <2>1
  <2>5. Spare[p] > 0
      BY <2>3
  <2>6. Ledger!Repeat(p)
      BY <1>6, <2>3, <2>4, <2>5, AsRepeat
  <2> QED
      BY <2>6
<1> QED
    BY <1>7, <1>8

LEMMA AsNextTouch ==
  ASSUME NEW p \in Contacts,
         Received[p] # <<>>, Received[p][Len(Received[p])] < MaxSequence,
         Received' = [Received EXCEPT ![p] = Append(@, @[Len(@)] + 1)],
         Spare' = Spare
  PROVE  Ledger!NextTouch(p)
  BY Zenon DEF Ledger!NextTouch, Received, Spare

LEMMA LedgerFollows ==
  ASSUME MessagingInv, ThreadInv, OutboxInv, [RetirementNext]_all, thread' # thread,
         NEW p \in Contacts, p = fw.c
  PROVE  Ledger!NextTouch(p)
<1> DEFINE n == outbox[p]
           s == thread[p]
           k == Len(s)
<1>1. /\ FollowupsNext /\ fw.pc = "calling"
      /\ NextSequence(p) \in Touches
      /\ thread' = [thread EXCEPT ![p] = Append(@, NextSequence(p))]
      /\ thread \in [Contacts -> Seq(Touches)]
    BY FollowupAccepted DEF MessagingInv, StoreTypes, MailTypes
<1>2. UNCHANGED <<outbox, doubts>>
    BY <1>1, FollowupsFrame DEF originals, provider, history, lost
<1>3. n \in Nat \ {0} /\ s \in Seq(Nat) /\ k \in Nat
  <2>1. Stamped(p)
      BY <1>1 DEF MessagingInv, PlanInv, OnItsWay
  <2> QED
      BY <2>1, LedgerFacts, LenProperties
<1>4. NextSequence(p) = k + 1 /\ k < MaxSequence /\ k + 1 \in Nat
  <2>1. k = followed[p]
      BY <1>1 DEF ThreadInv, Sent
  <2> QED
      BY <1>1, <1>3, <2>1, LimitsAssumption DEF NextSequence, Touches
<1>5. thread'[p] = Append(s, k + 1) /\ \A c \in Contacts \ {p} : thread'[c] = thread[c]
    BY <1>1, <1>4
<1>6. \A i \in 1 .. k : s[i] = i
    BY DEF ThreadInv, Sent
<1>7. Mails(p)' = Append(Mails(p), k + 1)
  <2>1. Mails(p)' = Zeroes(n) \o Append(s, k + 1)
      BY <1>2, <1>5, MailsNext
  <2> HIDE DEF n, s, k
  <2>2. Zeroes(n) \o Append(s, k + 1) = Append(Zeroes(n) \o s, k + 1)
      BY <1>3, <1>4, RowAppends
  <2> QED
      BY <2>1, <2>2 DEF Mails, n, s
<1>8. Mails(p) # <<>> /\ Mails(p)[Len(Mails(p))] = k
  <2> DEFINE r == Zeroes(n) \o s
  <2> HIDE DEF n, s
  <2>1. /\ r \in Seq(Nat) /\ Len(r) = n + k
        /\ \A i \in 1 .. n + k : r[i] = IF i <= n THEN 0 ELSE s[i - n]
      BY <1>3, RowFacts
  <2> HIDE DEF k, r
  <2>2. r # <<>>
      BY <1>3, <2>1, EmptySeq
  <2>3. r[n + k] = k
    <3>1. n + k \in 1 .. n + k
        BY <1>3
    <3>2. CASE k = 0
        BY <1>3, <2>1, <3>1, <3>2
    <3>3. CASE k # 0
      <4>1. ~(n + k <= n) /\ (n + k) - n = k /\ k \in 1 .. k
          BY <1>3, <3>3
      <4> QED
          BY <1>6, <2>1, <3>1, <4>1
    <3> QED
        BY <3>2, <3>3
  <2> QED
      BY <2>1, <2>2, <2>3 DEF Mails, r, n, s
<1>9. Received[p] = Mails(p)
      /\ Received' = [Received EXCEPT ![p] = Append(@, @[Len(@)] + 1)]
  <2> HIDE DEF n, s, k
  <2>1. Received' = [c \in Contacts |-> Mails(c)']
      BY DEF Received, Mails, Zeroes
  <2>2. \A c \in Contacts \ {p} : Mails(c)' = Mails(c)
      BY <1>2, <1>5, MailsNext DEF Mails
  <2>3. Received[p] = Mails(p)
      BY MappedTo
  <2>4. Mails(p)' = Append(Received[p], Received[p][Len(Received[p])] + 1)
      BY <1>7, <1>8, <2>3
  <2> QED
      BY <2>1, <2>2, <2>3, <2>4, MappedTo
<1>10. Spare' = Spare
    BY <1>2 DEF Spare
<1> QED
    BY <1>4, <1>8, <1>9, <1>10, AsNextTouch

LEMMA AsLoss ==
  ASSUME NEW p \in Contacts,
         Received[p] # <<>>, Received[p][Len(Received[p])] = 0,
         Spare' = [Spare EXCEPT ![p] = @ + 1], Received' = Received
  PROVE  Ledger!LoseAnswer(p)
  BY Zenon DEF Ledger!LoseAnswer, Received, Spare

LEMMA LedgerLoses ==
  ASSUME MessagingInv, ThreadInv, OutboxInv, Loses, UNCHANGED thread,
         NEW p \in Contacts, p = snd.c, NEW n \in Nat, n = outbox[p]
  PROVE  Ledger!LoseAnswer(p)
<1>1. ~Stamped(p) /\ thread[p] = <<>> /\ n = doubts[p] + 1 /\ doubts[p] \in Nat
    BY HandedOver, NoThread, LedgerFacts DEF Loses, Sending, InTransit
<1>2. /\ UNCHANGED <<outbox, thread>>
      /\ doubts'[p] = doubts[p] + 1
      /\ \A c \in Contacts \ {p} : doubts'[c] = doubts[c]
    BY DEF Loses, MessagingInv, StoreTypes, LossTypes
<1>3. Received[p] = Zeroes(n)
    BY <1>1, MappedTo, RowOfOriginals DEF Mails
<1>4. Len(Zeroes(n)) = n /\ Zeroes(n)[n] = 0 /\ Zeroes(n) # <<>>
  <2>1. n # 0
      BY <1>1
  <2> QED
      BY <2>1, ZeroRowEnds
<1>5. Received' = Received
    BY <1>2 DEF Received
<1>6. Spare' = [Spare EXCEPT ![p] = @ + 1]
  <2>1. Spared(p)' = Spared(p) + 1
    <3>0. outbox' = outbox /\ n # 0 /\ n - 1 \in Nat
        BY <1>1, <1>2
    <3>1. outbox'[p] = n /\ outbox[p] = n /\ n # 0 /\ n - 1 \in Nat
        BY <3>0
    <3>2. Spared(p) = doubts[p] - (n - 1) /\ Spared(p)' = doubts'[p] - (n - 1)
        BY <3>1 DEF Spared
    <3> QED
        BY <1>1, <1>2, <3>1, <3>2
  <2>2. \A c \in Contacts \ {p} : Spared(c)' = Spared(c)
      BY <1>2 DEF Spared
  <2>3. Spare' = [c \in Contacts |-> Spared(c)']
      BY DEF Spare, Spared
  <2> QED
      BY <2>1, <2>2, <2>3, MappedTo
<1> QED
    BY <1>3, <1>4, <1>5, <1>6, AsLoss

LEMMA LedgerStep ==
  MessagingInv /\ ThreadInv /\ OutboxInv /\ [RetirementNext]_all
     => [Ledger!LedgerNext]_<<Received, Spare>>
<1> SUFFICES ASSUME MessagingInv, ThreadInv, OutboxInv, [RetirementNext]_all
             PROVE  [Ledger!LedgerNext]_<<Received, Spare>>
    OBVIOUS
<1>1. CASE thread' # thread
  <2>1. PICK p \in Contacts : p = fw.c
      BY DEF MessagingInv, FwType
  <2>2. Ledger!NextTouch(p)
      BY <1>1, <2>1, LedgerFollows
  <2>3. Ledger!LedgerNext
      BY <2>2 DEF Ledger!LedgerNext
  <2> QED
      BY <2>3
<1>a. PICK p \in Contacts : p = snd.c
    BY DEF MessagingInv, SendingTypeOK
<1>b. PICK n \in Nat : n = outbox[p]
    BY LedgerFacts
<1>2. CASE ProviderAccepts
  <2>1. Ledger!First(p) \/ Ledger!Repeat(p)
      BY <1>2, <1>a, <1>b, LedgerAccepts
  <2>2. Ledger!LedgerNext
      BY <2>1 DEF Ledger!LedgerNext
  <2> QED
      BY <2>2
<1>3. CASE Loses /\ thread' = thread
  <2>1. Ledger!LoseAnswer(p)
      BY <1>3, <1>a, <1>b, LedgerLoses
  <2>2. Ledger!LedgerNext
      BY <2>1 DEF Ledger!LedgerNext
  <2> QED
      BY <2>2
<1>4. CASE (Records \/ Leaves) /\ thread' = thread
    BY <1>4 DEF Records, Leaves, Received, Spare
<1> QED
    BY <1>1, <1>2, <1>3, <1>4, Deals

(* KeepsLedger: for any wave, any caps and any number of troubles the      *)
(* three processes and the owner's commands together give a contact the    *)
(* original and then the follow-ups in order, each of them once, with the  *)
(* original again only for an acceptance that was lost.                    *)
THEOREM LedgerKept == RetirementSpec => KeepsLedger
<1>1. RetirementInit => Ledger!LedgerInit
  <2> SUFFICES ASSUME RetirementInit PROVE Ledger!LedgerInit
      OBVIOUS
  <2>1. \A c \in Contacts : outbox[c] = 0 /\ thread[c] = <<>> /\ doubts[c] = 0
      BY DEF RetirementInit, Init, StoreInit
  <2>2. Zeroes(0) \o <<>> = <<>>
    <3>1. Zeroes(0) \o <<>> = Zeroes(0) /\ Zeroes(0) = <<>>
        BY RowOfOriginals
    <3> QED
        BY <3>1
  <2>4. \A c \in Contacts : Mails(c) = <<>> /\ Spared(c) = 0
      BY <2>1, <2>2 DEF Mails, Spared
  <2>3. Received = [c \in Contacts |-> <<>>] /\ Spare = [c \in Contacts |-> 0]
      BY <2>4, MappedTo
  <2> QED
      BY <2>3, Zenon DEF Ledger!LedgerInit, Received, Spare
<1> QED
    BY <1>1, LedgerStep, MessagingHolds, ThreadHolds, OutboxHolds, PTL
    DEF RetirementSpec, KeepsLedger, Ledger!LedgerSpec, Received, Spare

-----------------------------------------------------------------------------
(***************************************************************************)
(* The feedback sync: a message it matched a bounce with, and has come to, *)
(* has that bounce on record, whoever recorded it.                         *)
(***************************************************************************)
NotBounced(m) == <<m[1], m[2], "not_bounced">>
Bounced(m) == <<m[1], m[2], "bounced">>

SyncInv ==
    fb.pc = "matching" =>
       \A m \in Attributed(fb.cands, fb.seen) : m \notin fb.todo => Bounced(m) \in events

(* The immediate poll after a send adds bounces, and nothing else.         *)
LEMMA SendingBounces ==
  ASSUME SendingNext
  PROVE  events \subseteq events' /\ \A m : NotBounced(m) \in events' => NotBounced(m) \in events
<1> USE DEF store
<1>1. CASE StartSending \/ DraftsDone \/ BeginWave \/ EndWave
    BY <1>1 DEF StartSending, DraftsDone, BeginWave, EndWave
<1>2. ASSUME NEW c \in Contacts, PromoteContact(c) \/ LoadStale(c) \/ Visit(c)
      PROVE  UNCHANGED events
    BY <1>2 DEF PromoteContact, LoadStale, Visit
<1>3. CASE DraftRendered \/ DraftFails \/ RefreshDraft \/ RefreshFails
    BY <1>3 DEF DraftRendered, DraftFails, StoreDraft, RefreshDraft, RefreshFails, Block
<1>4. CASE ProviderAccepts \/ AnswerWithoutId \/ RecordSent \/ RecordDies \/ SendingDies
    BY <1>4 DEF ProviderAccepts, AnswerWithoutId, Block, RecordSent, RecordDies, MarkSent,
       SendingDies
<1>5. ASSUME NEW accepted \in BOOLEAN, NEW published \in BOOLEAN,
             Rejected(accepted) \/ TransientFailure(accepted, published)
      PROVE  UNCHANGED events
    BY <1>5 DEF Rejected, TransientFailure
<1>6. CASE ObserveSent
    BY <1>6 DEF ObserveSent, NotBounced
<1> QED
    BY <1>1, <1>2, <1>3, <1>4, <1>5, <1>6 DEF SendingNext

(* Nobody takes an event back, and only the sync touches its own state.    *)
LEMMA EventsGrow ==
  ASSUME [RetirementNext]_all
  PROVE  /\ events \subseteq events'
         /\ FeedbackNext \/ UNCHANGED fb
<1>1. CASE SendingNext /\ UNCHANGED fb
    BY <1>1, SendingBounces
<1>2. CASE FollowupsNext /\ UNCHANGED fb
    BY <1>2, FollowupsFrame
<1>3. CASE Environment
    BY <1>3, EnvironmentFrame
<1>4. CASE Commands
    BY <1>4, CommandsFrame DEF unretired
<1>5. CASE UNCHANGED all
    BY <1>5 DEF all, vars, store
<1>6. CASE FeedbackNext
  <2>1. ASSUME PollMailbox \/ SyncDone \/ SyncDies PROVE UNCHANGED events
      BY <2>1 DEF PollMailbox, SyncDone, SyncDies, store
  <2>2. ASSUME NEW m \in Contacts \X Touches, RecordBounce(m) \/ RecordNotBounced(m)
        PROVE  events \subseteq events'
      BY <2>2 DEF RecordBounce, RecordNotBounced, Logged
  <2>3. events \subseteq events'
      BY <1>6, <2>1, <2>2 DEF FeedbackNext
  <2> QED
      BY <1>6, <2>3
<1> QED
  <2>1. \/ SendingNext /\ UNCHANGED fb
        \/ FollowupsNext /\ UNCHANGED fb
        \/ FeedbackNext \/ Environment \/ Commands
        \/ UNCHANGED all
      BY Steps
  <2> QED
      BY <1>1, <1>2, <1>3, <1>4, <1>5, <1>6, <2>1

LEMMA SyncStep == ASSUME MessagingInv, SyncInv, [RetirementNext]_all PROVE SyncInv'
<1>0. events \subseteq events'
    BY EventsGrow
<1>1. CASE UNCHANGED fb
    BY <1>0, <1>1 DEF SyncInv, Bounced, Attributed
<1>2. CASE PollMailbox
  <2>1. fb'.todo = Attributed(fb'.cands, fb'.seen)
      BY <1>2 DEF PollMailbox
  <2> QED
      BY <2>1 DEF SyncInv, Attributed
<1>3. CASE SyncDone \/ SyncDies
    BY <1>3 DEF SyncDone, SyncDies, FbIdle, SyncInv
<1>4. ASSUME NEW m \in Contacts \X Touches, RecordBounce(m)
      PROVE  SyncInv'
  <2>1. /\ fb.pc = "matching" /\ Bounced(m) \in events'
        /\ fb'.cands = fb.cands /\ fb'.seen = fb.seen /\ fb'.todo = fb.todo \ {m}
      BY <1>4 DEF RecordBounce, Logged, Bounced, MessagingInv, FeedbackTypeOK
  <2> QED
      BY <1>0, <2>1 DEF SyncInv, Attributed, Bounced
<1>5. ASSUME NEW m \in Contacts \X Touches, RecordNotBounced(m)
      PROVE  SyncInv'
    BY <1>1, <1>5 DEF RecordNotBounced
<1> QED
    BY <1>1, <1>2, <1>3, <1>4, <1>5, EventsGrow DEF FeedbackNext

LEMMA SyncHolds == RetirementSpec => []SyncInv
<1>1. RetirementInit => SyncInv
    BY DEF RetirementInit, Init, FbIdle, SyncInv
<1> QED
    BY <1>1, SyncStep, MessagingHolds, PTL DEF RetirementSpec

(* Only the last step of the sync settles a message as not bounced.        *)
LEMMA SettledBySync ==
  ASSUME [RetirementNext]_all, NEW m, NotBounced(m) \in events' \ events
  PROVE  Matched
<1>1. ASSUME FollowupsNext \/ Environment \/ Commands \/ UNCHANGED all
      PROVE  FALSE
    BY <1>1, FollowupsFrame, EnvironmentFrame, CommandsFrame DEF unretired, all, vars, store,
       NotBounced
<1>2. ~SendingNext
    BY SendingBounces
<1>3. FeedbackNext
    BY <1>1, <1>2, Steps
<1>4. ~(PollMailbox \/ SyncDone \/ SyncDies)
    BY DEF PollMailbox, SyncDone, SyncDies, store, NotBounced
<1>5. PICK n \in Contacts \X Touches : RecordBounce(n) \/ RecordNotBounced(n)
    BY <1>3, <1>4 DEF FeedbackNext
<1>6. ~RecordBounce(n)
    BY DEF RecordBounce, Logged, NotBounced
<1> QED
    BY <1>5, <1>6 DEF RecordNotBounced

(* NotBouncedTruthful: for any wave and any number of follow-ups, also     *)
(* when the sending action records bounces meanwhile, messages are sent    *)
(* and the sync dies in between.                                           *)
THEOREM SettledForCause == RetirementSpec => NotBouncedTruthful
<1> DEFINE A == \A m \in fb.cands :
                  /\ <<m[1], m[2], "not_bounced">> \in events' \ events
                  /\ m \in Attributed(fb.cands, fb.seen)
                  => <<m[1], m[2], "bounced">> \in events
<1>1. MessagingInv /\ SyncInv /\ [RetirementNext]_all => [A]_vars
  <2> SUFFICES ASSUME MessagingInv, SyncInv, [RetirementNext]_all, NEW m \in fb.cands,
                      NotBounced(m) \in events' \ events, m \in Attributed(fb.cands, fb.seen)
               PROVE  Bounced(m) \in events
      BY DEF NotBounced, Bounced
  <2>1. fb.pc = "matching" /\ fb.todo = {}
      BY SettledBySync DEF Matched
  <2> QED
      BY <2>1 DEF SyncInv
<1> QED
    BY <1>1, MessagingHolds, SyncHolds, PTL DEF RetirementSpec, NotBouncedTruthful

=============================================================================
