--------------------------- MODULE GeneralLearning ---------------------------
(***************************************************************************)
(* Outreach to contacts that belong to no posting: the two actions of a    *)
(* cycle that find such a contact's address and write to it once.          *)
(*                                                                         *)
(* Nothing but the lease keeps two cycles from working on one contact.     *)
(* Each action is one call to a provider, or one transaction; a cycle may  *)
(* raise or die between any two.  The file send_result.json is written     *)
(* after the rows it repeats, and the next cycle trusts neither alone.     *)
(***************************************************************************)
EXTENDS RuntimeLease, Sequences

CONSTANTS
    Learners,  \* contacts without posting or lead links
    Finders,   \* EMAIL_FINDER_PROVIDER_ORDER, as a sequence
    MaxUnknown \* bound: acceptances to a contact that a death leaves unrecorded

FinderNames == {Finders[i] : i \in 1 .. Len(Finders)}

ASSUME LearningAssumption == Finders \in Seq(STRING) /\ MaxUnknown \in Nat

VARIABLES
    person,   \* contacts row: status, and whether a working e-mail is known
    mails,    \* general-learning messages, oldest first: row and file status
    spent,    \* finders whose path is spent for the contact
    resting,  \* finders in cooldown
    writer,   \* what the cycle of a worker does with which contact
    received, \* history: mails the provider accepted
    unknown   \* history: acceptances whose outcome no row will ever tell

learning == <<person, mails, spent, resting, writer, received, unknown>>

Statuses == {"identified", "working_email_found", "sent", "exhausted"}
Rows == {"generated", "blocked", "failed", "sent"}
\* the provider's answer; an unsure one may or may not be an acceptance
Outcomes == {"sent", "unsure", "failed"}
WriterSteps == {"idle", "search", "asking", "write", "drafted", "ready", "answered"}

WriterIdle == [step |-> "idle", who |-> "none", mail |-> 0, outcome |-> "none",
               accepted |-> FALSE, i |-> 0]
WriterAt(w, step) == pc[w] = "acting" /\ writer[w].step = step
Onward(w, step) == [writer EXCEPT ![w].step = step]

\* Faulty variants: never used by the specification.
FaultyRowOf(outcome) == IF outcome = "unsure" THEN "generated" ELSE outcome
RawRowOf(outcome) == outcome

-----------------------------------------------------------------------------
(***************************************************************************)
(* What the code computes from the rows.                                   *)
(***************************************************************************)
\* the latest general-learning message
LatestRow(c) == IF mails[c] = <<>> THEN "none" ELSE mails[c][Len(mails[c])].row
Mailed(c) == \E k \in DOMAIN mails[c] : mails[c][k].row = "sent"

\* _select_general_learning_priority_work_unit: drafted ones first
Writable(c) ==
    /\ person[c].email
    /\ person[c].status \notin {"sent", "exhausted"}
    /\ ~Mailed(c)
    /\ LatestRow(c) \in {"none", "generated"}
ToWrite ==
    LET drafted == {c \in Learners : Writable(c) /\ LatestRow(c) = "generated"}
    IN  IF drafted # {} THEN drafted ELSE {c \in Learners : Writable(c)}

\* _select_general_learning_discovery_work_unit
Searchable(c) ==
    /\ ~person[c].email
    /\ person[c].status \notin {"sent", "exhausted"}
    /\ ~Mailed(c) /\ LatestRow(c) = "none"
ToSearch == {c \in Learners : Searchable(c)}

\* _validate_selected_work, the outreach branch
MayWrite(c) ==
    /\ person[c].email /\ ~Mailed(c)
    /\ LatestRow(c) \in {"none", "generated"}
    /\ person[c].status \in {"sent", "exhausted"} => LatestRow(c) = "generated"

\* _evaluate_general_learning_send_guardrails
Unsafe(c, k) ==
    \/ mails[c][k].file \in {"none", "sent", "blocked"}
    \/ \E j \in DOMAIN mails[c] \ {k} : mails[c][j].row \in {"generated", "blocked", "sent"}

\* the status each outcome of the provider is recorded with
RowOf(outcome) == IF outcome \in {"unsure", "guarded"} THEN "blocked" ELSE outcome

-----------------------------------------------------------------------------
(***************************************************************************)
(* The steps of the outreach action (execute_general_learning_outreach).   *)
(***************************************************************************)
ChooseToWrite(w, c) ==
    writer' = [writer EXCEPT ![w] = [WriterIdle EXCEPT !.step = "write", !.who = c]]

\* _persist_rendered_general_learning_draft: the row, before its files
Draft(w) ==
    LET c == writer[w].who IN
    /\ WriterAt(w, "write") /\ MayWrite(c) /\ mails[c] = <<>>
    /\ mails' = [mails EXCEPT ![c] = Append(@, [row |-> "generated", file |-> "none"])]
    /\ writer' = [writer EXCEPT ![w].step = "drafted", ![w].mail = Len(mails[c]) + 1]
    /\ UNCHANGED <<person, spent, resting, received, unknown>>

PublishDraft(w) ==
    /\ WriterAt(w, "drafted")
    /\ mails' = [mails EXCEPT ![writer[w].who][writer[w].mail].file = "generated"]
    /\ writer' = Onward(w, "ready")
    /\ UNCHANGED <<person, spent, resting, received, unknown>>

\* The draft an earlier cycle left.
Resume(w) ==
    LET c == writer[w].who IN
    /\ WriterAt(w, "write") /\ MayWrite(c) /\ mails[c] # <<>>
    /\ writer' = [writer EXCEPT ![w].step = "ready", ![w].mail = Len(mails[c])]
    /\ UNCHANGED <<person, mails, spent, resting, received, unknown>>

\* The prerequisites do not hold any more: the cycle ends as blocked.
Refuse(w) ==
    /\ \/ WriterAt(w, "write") /\ ~MayWrite(writer[w].who)
       \/ WriterAt(w, "search") /\ ~Searchable(writer[w].who)
    /\ writer' = [writer EXCEPT ![w] = WriterIdle]
    /\ UNCHANGED <<person, mails, spent, resting, received, unknown>>

Guard(w) ==
    /\ WriterAt(w, "ready") /\ Unsafe(writer[w].who, writer[w].mail)
    /\ writer' = [writer EXCEPT ![w].step = "answered", ![w].outcome = "guarded"]
    /\ UNCHANGED <<person, mails, spent, resting, received, unknown>>

\* sender.send: every exception of the client is a failure, so that a lost
\* answer is one, too; an answer without message id is ambiguous.
Send(w, outcome, accepted) ==
    LET c == writer[w].who IN
    /\ WriterAt(w, "ready") /\ ~Unsafe(c, writer[w].mail)
    /\ outcome = "sent" => accepted
    /\ received' = [received EXCEPT ![c] = IF accepted THEN @ + 1 ELSE @]
    /\ writer' = [writer EXCEPT ![w].step = "answered", ![w].outcome = outcome,
                               ![w].accepted = accepted]
    /\ UNCHANGED <<person, mails, spent, resting, unknown>>

\* _publish_general_learning_send_result: the message with row and file
Told(c, k, row) == [mails EXCEPT ![c][k] = [row |-> row, file |-> row]]

\* _persist_successful_general_learning_send: the row, on which everything
\* hangs, before the contact and send_result.json
RecordSent(w) ==
    LET c == writer[w].who IN
    /\ WriterAt(w, "answered") /\ RowOf(writer[w].outcome) = "sent"
    /\ mails' = Told(c, writer[w].mail, "sent")
    /\ person' = [person EXCEPT ![c].status = "sent"]
    /\ writer' = [writer EXCEPT ![w] = WriterIdle]
    /\ UNCHANGED <<spent, resting, received, unknown>>

\* _persist_blocked_ and _persist_failed_...: the contact stays as it is
RecordUnsent(w) ==
    LET row == RowOf(writer[w].outcome) IN
    /\ WriterAt(w, "answered") /\ row # "sent"
    /\ mails' = Told(writer[w].who, writer[w].mail, row)
    /\ writer' = [writer EXCEPT ![w] = WriterIdle]
    /\ UNCHANGED <<person, spent, resting, received, unknown>>

-----------------------------------------------------------------------------
(***************************************************************************)
(* The steps of the search (run_general_learning_email_discovery).         *)
(***************************************************************************)
ChooseToSearch(w, c) ==
    writer' = [writer EXCEPT ![w] = [WriterIdle EXCEPT !.step = "search", !.who = c]]

\* Finders that are spent for the contact or in cooldown are passed over.
Askable(w) ==
    {i \in writer[w].i + 1 .. Len(Finders) :
        Finders[i] \notin spent[writer[w].who] \cup resting}

BeginSearch(w) ==
    /\ WriterAt(w, "search") /\ Searchable(writer[w].who)
    /\ writer' = Onward(w, "asking")
    /\ UNCHANGED <<person, mails, spent, resting, received, unknown>>

\* discover_email with _persist_provider_budget_signal: it finds an address,
\* has none (or failed too often), or rests after a limit or a failure.
AskFinder(w, answer) ==
    LET c == writer[w].who
        i == CHOOSE j \in Askable(w) : \A k \in Askable(w) : j <= k
    IN  /\ WriterAt(w, "asking") /\ writer[w].outcome # "found" /\ Askable(w) # {}
        /\ spent' = [spent EXCEPT ![c] = IF answer = "no" THEN @ \cup {Finders[i]} ELSE @]
        /\ resting' = IF answer = "rests" THEN resting \cup {Finders[i]} ELSE resting
        /\ writer' = [writer EXCEPT ![w].i = i, ![w].outcome = answer]
        /\ UNCHANGED <<person, mails, received, unknown>>

\* _apply_general_learning_discovery_success, ..._failure
Settled(c, found) ==
    IF found THEN [status |-> "working_email_found", email |-> TRUE]
    ELSE IF spent[c] = FinderNames THEN [status |-> "exhausted", email |-> FALSE]
    ELSE person[c]

Settle(w) ==
    LET c == writer[w].who IN
    /\ WriterAt(w, "asking")
    /\ writer[w].outcome = "found" \/ Askable(w) = {}
    /\ mails[c] = <<>>
    /\ person' = [person EXCEPT ![c] = Settled(c, writer[w].outcome = "found")]
    /\ writer' = [writer EXCEPT ![w] = WriterIdle]
    /\ UNCHANGED <<mails, spent, resting, received, unknown>>

\* cooldown_until passes.
CooldownEnds ==
    /\ resting # {} /\ resting' = {}
    /\ UNCHANGED <<person, mails, spent, writer, received, unknown>>

-----------------------------------------------------------------------------
\* Contacts that were just found, or given up before.
LearningInit ==
    /\ person \in [Learners -> {[status |-> st, email |-> FALSE] :
                                 st \in {"identified", "exhausted"}}]
    /\ mails = [c \in Learners |-> <<>>]
    /\ spent = [c \in Learners |-> {}]
    /\ resting = {}
    /\ writer = [w \in Workers |-> WriterIdle]
    /\ received = [c \in Learners |-> 0]
    /\ unknown = [c \in Learners |-> 0]

\* The cycle of w raises or dies: what it had in hand is forgotten.
Abandon(w) ==
    LET c == writer[w].who
        silent == writer[w].step = "answered" /\ writer[w].accepted
    IN  /\ silent => unknown[c] < MaxUnknown
        /\ unknown' = IF silent THEN [unknown EXCEPT ![c] = @ + 1] ELSE unknown
        /\ writer' = [writer EXCEPT ![w] = WriterIdle]
        /\ UNCHANGED <<person, mails, spent, resting, received>>

LearningStep(w) ==
    \/ Draft(w) \/ PublishDraft(w) \/ Resume(w) \/ Refuse(w) \/ Guard(w)
    \/ \E outcome \in Outcomes, accepted \in BOOLEAN : Send(w, outcome, accepted)
    \/ RecordSent(w) \/ RecordUnsent(w)
    \/ BeginSearch(w) \/ Settle(w)
    \/ \E answer \in {"found", "no", "rests"} : AskFinder(w, answer)

LearningTypeOK ==
    /\ \A c \in Learners :
         /\ person[c].status \in Statuses /\ person[c].email \in BOOLEAN
         /\ \A k \in DOMAIN mails[c] :
              mails[c][k].row \in Rows /\ mails[c][k].file \in Rows \cup {"none"}
         /\ spent[c] \subseteq FinderNames
         /\ received[c] \in Nat /\ unknown[c] \in Nat
    /\ resting \subseteq FinderNames
    /\ \A w \in Workers : writer[w].step \in WriterSteps

=============================================================================
