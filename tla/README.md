# Formal model of job-hunt-copilot

This directory holds TLA+ models of the product in `job_hunt_copilot/`, the TLC
configurations that check them on small instances, and theorems about them that
TLAPS proves for every value of the constants.  The models follow the code; the
requirements in `prd/` are quoted only where a run shows that code and
requirement disagree.

    tlc -workers 2 -config control.cfg MCAgentControl
    tlapm AgentControlProofs.tla

## 1. The system

Job-hunt-copilot finds job postings, tailors a resume for each, has it reviewed,
finds people at the company and their addresses, writes to them, and follows the
answers.  There is no server.  Short-lived Python processes share one SQLite
database and a tree of artifact files:

| process | started by | code |
|---|---|---|
| supervisor heartbeat | launchd, every 5 s | `local_runtime.execute_supervisor_heartbeat`, `supervisor.run_supervisor_cycle` |
| delayed feedback sync | launchd | `local_runtime.execute_delayed_feedback_sync`, `delivery_feedback.py` |
| follow-up worker | launchd | `local_runtime.execute_followup_cycle`, `followups.py` |
| expert chat wrapper | the owner, `bin/jhc-chat` | `scripts/ops/chat_session.py` |
| operator commands | the owner, `scripts/ops/control_agent.py` | `local_runtime.mutate_agent_control_state` and its siblings |

What makes it hard is common to all of them.  Every process reads its rows
outside a transaction, decides, and writes later in a transaction of its own
(`with connection:`), so the rows may be stale when they are used; one operation
is often several transactions, and a process that is killed in between
(`jhc-agent-start` runs `launchctl kickstart -k`) leaves the earlier ones behind.
Mutual exclusion is one lease row; the rest is convention.

### Components, their state and what makes them correct

| component | state | operations | must hold |
|---|---|---|---|
| agent control, expert chat | `agent_control_state` | start, pause, stop, replan; chat begin, end; background task hand-off, return; guidance pause; idle time-out; auto-pause | values fit together; a pause or stop keeps its force; the focus of a task is exclusive; a pause nobody owns ends |
| runtime lease | `agent_runtime_leases`, `supervisor_cycles` | acquire, reclaim, defer, release | cycles do not overlap within the time to live; a dead cycle's lease comes back; work without a transaction of its own is done once |
| posting pipeline | `job_postings.posting_status`, `resume_tailoring_runs`, `pipeline_runs`, `agent_incidents`, `expert_review_packets` | quarantine, select, validate, execute a stage, validate the result, escalate, write a packet; abandon, close review, override | one open run per posting; terminal runs stay; only approved material is sent; escalations reach the expert |
| drafting and sending | `outreach_messages`, `send_result.json`, `job_posting_contacts` | draft, refresh, send the wave, retry, shared lane | a contact gets the original once, in priority order, spaced from every other mail |
| follow-ups | `outreach_followup_plans`, rollout keys | plan, check the thread, draft, send, count | each sequence once and in order; silence after an answer; the rollout cap |
| delivery feedback | `delivery_feedback_events` | poll, attribute, record bounced and not_bounced | a bounce that was matched is on record before its window is closed |
| people search, email discovery | contacts, `provider_budget_state`, `provider_budget_events`, `discovery_attempts` | search, shortlist, enrich, ask finders, settle | contacts given up only for cause; searches bounded; the run leaves the stage |
| Jobright ingestion, promotion | `linkedin_leads`, batch and lead files | poll, ingest, review, promote | a lead is promoted once, the best first, within the cap, and not forgotten |
| general-learning outreach and discovery | contacts without posting, their messages | search an address, draft, send | each contact is written to once |
| daily maintenance | `maintenance_change_batches`, git branches | prepare, validate, approve, reject | one batch a day |
| Gmail and LinkedIn intake | collections, lead files | collect, merge, gate | a message is taken in once |
| incidents | `agent_incidents` | create, escalate, suppress, auto-pause | clusters pause the agent |
| operator object updates | several | application state, archive cut-over, backlog retirement | what the owner retired is not sent; threads already begun go on |
| build agent | `build-agent/` | development-time build cycle | separate from the product |

Runtime pack, dashboards, queries, reports, path and secret handling,
configuration and text extraction derive output or set things up; they have no
state whose evolution a model would explore.

## 2. What is modelled

### AgentControl  (`supervisor.py`, `local_runtime.py`)

`db` is the record of the control values; `proc[p]` is the command a process has
under way: which transaction it does next and what it remembers of its read.
`Read...` actions are the reads with the tests made on them, `Write...` actions
the transactions.  A return of a background task is four steps (run status,
second read, focus, resume), the end of a chat two.  `Kill` ends a process between
two transactions.  `overlap` records that two commands were ever under way
together: promises the code makes only to an owner who issues one command at a
time are stated for `~overlap`.  A refused command changes nothing and is no step.
Reasons given in free text are reduced to who gave them.

### RuntimeLease  (`supervisor.py`)

Time is relative (`left`, `age`), so that the state space is finite without a
clock bound.  `Acquire`, `Reclaim` and `Defer` are the branches of
`acquire_runtime_lease` and compute with the *captured* start of the cycle; the
clock may advance by up to `MaxLag` between capture and transaction, which
stands for a host that slept.  `Finish` is the end of the `try` block, by a result
or by an exception (the `finally` releases the lease either way), `Die` a kill, or
an exception in the housekeeping that precedes the block (lease kept).
`renew_runtime_lease` has no caller and is left out.

### GeneralLearning, Maintenance, SupervisorCycles  (`outreach.py`, `email_discovery.py`, `maintenance.py`, `supervisor.py`)

`SupervisorCycles` composes the lease with the work a cycle chooses when no posting
needs it, which is the work that nothing but the lease protects.  It
`EXTENDS` the two components, which extend `RuntimeLease`; a cycle acts between
`PassGate` and `Finish` of the lease.

- `GeneralLearning`: contacts without posting.  `person`, `mails` (row and
  `send_result.json` of each message), `spent` and `resting` finders are the
  persisted state, `writer[w]` is what the cycle of worker `w` has in hand.
  `Draft`, `PublishDraft`, `Guard`, `Send`, `RecordSent`, `RecordUnsent` are the
  steps of `execute_general_learning_outreach`; `Send` knows accepted, refused,
  unsure, and an acceptance whose answer is lost.  `BeginSearch`, `AskFinder`, `Settle`
  are those of `run_general_learning_email_discovery`.  Messages are ordered by
  insertion; the contact and the file are written with the message row, on which
  every later decision hangs.
- `Maintenance`: the day of a batch is the local day of the *captured* start of its
  cycle; `Build` reads the due rule, `InsertBatch` writes the row minutes of tests
  later.  `Review` is the owner's command, in which git merges before the row changes
  and either may be the last step of a killed command.  A conflict, or another
  branch checked out, only raises and is no step.
- `Choose` is the order of `select_next_supervisor_work_unit`: write, search,
  maintain.  Work on postings is an empty choice here.
- `overlapped` remembers that a cycle was granted the lease while another was at
  work, which the lease permits once the first has outlived it.

### PostingPipeline  (`supervisor.py`, `resume_tailoring.py`, `local_runtime.py`)

One posting, its runs and packets, one cycle and one operator command, each
step one transaction or one read that a later transaction depends on.

- `work` is the selected work unit, `held` the copy of the run a cycle keeps and
  judges its result by, `result` the recorded verdict.
- `Outcome(to, row)` is an executor that moves the run; an illegal move raises
  and ends the cycle.  `PostingFirst` is the frequent pattern of two
  transactions: posting status now, run later (`Advance`).
- `May...` are the prerequisites of `_validate_selected_work`, `ResultOf...` the
  validators of `_validate_selected_work_result`, action by action.  `MayBeIdle` is what
  they find in tables that are no state here: a frontier of search or discovery that is
  not actionable any more, counts that do not fit.  `MaySend` leaves out what it asks of
  contacts and messages: a cycle it refuses for them is a choice of outcome.
- `ReadAbandon` to `ApplyOverride` are the three operator commands that touch a
  posting, transaction by transaction.
- `InterruptCycle` and `InterruptCommand` are crashes and external exceptions.

What the code computes from contacts, messages, files and providers is a choice
among the outcomes it can compute.  Lead, Jobright and maintenance work is a cycle
that does nothing to this posting (`NothingHere`).

### SendLane, MessageStore, OutreachSending, Followups, DeliveryFeedback, Messaging, TouchLedger

The processes around sent mail, on one posting: the supervisor's sending action,
the follow-up worker and the feedback sync, which share the database and the
mailbox and do not exclude each other.

- `SendLane` holds the rules of `send_lane.py` as functions: two-hour blocks that
  prefer the two queues in turn.
- `MessageStore` declares what is shared: message, result file, plan and event rows,
  the mail provider (`outbox`, `thread`, `mail`) and the clock, kept as what the code
  compares (gap, cooldown, observation window, follow-up delay, freshness, day).
- `OutreachSending` (`snd`), `Followups` (`fw`) and `DeliveryFeedback` (`fb`) are the
  three processes, one transaction, renderer call or half of a provider call per
  action; each may die between any two.  A cycle's time is frozen when it begins
  (`clear`).
- Every process keeps what it loaded.  `snd.wave` are the contacts a sending cycle drafts
  for or sends to, read once, `snd.passed` those it is past: `Visit` tests result file,
  pacing and lane, which the code reads again, and not the status of the row.  The writes
  after a call go to the row by id, whatever it says by then.
- A message counts as sent by its `sent_at` (`Stamped`), the mark no process takes back;
  `msg` is its status, which a command may overwrite.
- `fb.closed` and `fb.todo` are what the sync loaded and matched, `fb.added` the bounces it
  recorded itself: `feedback_states` does not learn of a bounce that the poll after a
  send has recorded meanwhile (`_persist_mailbox_feedback_signal` returns None then), so
  such a message may get a not_bounced row beside the bounced one (`Undecided`).
- `Messaging` composes them with contacts that answer or bounce, the owner and the
  clock, and states the properties.  `TouchLedger` is the abstract specification:
  what a contact may see.

### PostingRetirement  (`local_runtime.py`)

The archive cut-over and the retirement of the stale backlog on top of `Messaging`, one
action per read that later writes depend on and one per transaction: `ReadPosting`,
`AbandonPosting`, `SelectMessages`, `GiveUp`, `SelectPlans`, `SkipPlans` for the archive,
`ReadPosting`, `SelectMessages`, `GiveUp`, `Demote` for the backlog.  `own` is the command
under way, with the posting's status it read and the rows it selected; the updates go to
these rows by id and look at nothing again.  No step of the three processes waits for a
command and no command for them: the archive tests that the agent is not running, which
a cycle begun before does not notice, and the backlog command tests nothing.
A later follow-up cycle reopens what the archive skipped (plan status `archived`, `Reopened`
in `Followups`).  `ContactsFound` is the return of a demoted posting.

`retired` remembers the originals a command took out, `held` those of them that a sending
cycle had loaded before and has not come to (`InHand`), or has brought back by a transient
failure; `LetGo` ends this when the cycle is past them.

### EmailDiscovery  (`email_discovery.py`, `supervisor.py`)

The people-search and e-mail-discovery actions of one posting.  `heard` is the run
of outcomes of a finder for a contact, `cooling`, `strikes` and `breaker` the budget
rows with the Apollo breaker, `cy` the cycle.  A call to a provider and the
transaction that records it are one action, unless the code records in two
(`FinderAnswers`, `RecordAttempt`).  `FailsElsewhere` is the same provider failing
for another posting.

### LeadIntake  (`jobright_ingestion.py`, `jobright_promotion.py`)

`WriteLead` writes the files of one lead while the transaction of the batch is
open, `CommitBatch` commits the rows of all, `RecordPoll` records the poll; `Die`
comes between.  `Observed` is everything a second observation does to a lead's row and
contacts.  `ReviewOnly` and `Promote` are `refresh_jobright_promotion_frontier`,
whose updates and promotion are one transaction; `Beats` is its pairwise comparison.
Postings move on by the pipeline (`Pipeline`), between cycles.

### How the modules meet

The gate `AgentControl` opens or closes is the choice of `NothingHere` in
PostingPipeline; its single cycle, like those of `OutreachSending`, `EmailDiscovery`
and `LeadIntake`, is what `RuntimeLease` provides (`ExclusiveWithinTtl`) for cycles
shorter than the lease.  Shared state is composed where several processes act on
it at once: `Messaging` and `SupervisorCycles`.

## 3. The runs

| run | states | question and answer |
|---|---|---|
| `control` | 477 k | do the control values stay coherent, do pauses hold? yes, those of `~overlap` for commands one at a time |
| `control_return` | - | is a stop respected when a task returns? **no** (finding 1) |
| `control_close` | - | does an explicit close end the chat's pause? **not** if it began over a left-over pause (finding 2) |
| `control_overlap` | - | can the agent run while a task has the exclusive focus? **yes**, after a close that overlapped the hand-off (finding 5) |
| `lease` | 918 k | are cycles apart for the time to live, is a dead lease recovered, is maintenance prepared once a day and a contact written to once? yes, the last two unless a cycle outlived its lease |
| `pipeline` | 5.9 M | are runs, review state and sends consistent whatever overlaps or dies? yes |
| `pipeline_live` | 52 k | does each escalated run get its packet if nothing dies? yes |
| `messaging` | 632 k | does a contact receive each mail once, in order, spaced, none but one after an answer, and none the owner took out, whatever fails and whichever steps meet? yes, with the exceptions the properties name |
| `discovery` | 443 k | are contacts given up for cause only, does each run leave the stage? yes |
| `intake` | 241 k | are leads promoted once, best first, within the cap, and none forgotten? yes, but for leads that make the review raise (section 5) |
| `pipeline_verdict` | - | can a cycle whose action never ran be a success? **yes** (finding 3) |
| `pipeline_abandon` | - | does an abandoned posting stay abandoned? **no** (finding 4) |

Every property of a passing run has a faulty variant of one operator of the model
(`Faulty...`, unused by the specifications) that breaks it: see
`mutants` in `PROJECT.json`.

### Properties

*Control.* `ControlRecordCoherent`: partial writes of several commands never
contradict each other.  `StoppedIffDisabled`, `FocusExcludesRunning`,
`ResumeOrderHasChat`: what the workers and the wrappers rely on.
`AutomationKeepsPause`: chats and heartbeat never lift somebody else's pause.
`FocusHeldUntilReturned`: a final result is never overwritten, and with commands
one at a time a return killed half-way can be repeated.
`IdleTimeoutResumes`: a chat that went away does not pause the agent for ever.

*Cycles.* `ExclusiveWithinTtl`, `LatestHolderOwnsLease`, `DeadLeaseRecovered`: the
lease.  `OneBatchADay`: the due check and the row of a batch, minutes apart, stay
together without an overlap.  `LearnersMailedOnce`: what is left of a send that was
cut off keeps later cycles from writing again; `unknown` counts the acceptances
that left nothing.

*Messaging.* `KeepsLedger`: refinement of `TouchLedger`; the original once, then the
follow-ups in order, and a copy of the original only for an acceptance whose record
was lost.  `SendsSpaced`: no two acceptances within the gap, unless both senders had
passed their check.  `WaveOrder`: no original overtakes one that can still be sent.
`SilentOnceAnswered`: at most the follow-up whose thread check came first goes out
after an answer.  `RolloutCapped`: as many as the cap, and those whose count was lost.
`NotBouncedTruthful`: where the sync matched a bounce with a message, that bounce is on
record before the message gets a not_bounced row, although the poll after a send
records bounces, too, and neither learns of the other's.

*Retirement.* `RetiredStaysUnsent`: no cycle sends an original a command took out, also
when its posting comes back with new contacts and the old rows are in the wave again,
or when its draft was being written anew.  The exception is named: an original a cycle
had loaded before the command (`held`).  The other properties hold with commands at
any moment: `KeepsLedger` and `RolloutCapped` although an archived plan is reopened
whatever it was before, also when it was ambiguous or just being sent, and although a
stale selection may set a message just sent to failed; `WaveOrder` although the rows
a cycle walks change under it.

*Discovery.* `ExhaustedForCause`, `SendsOnlyReady`, `NobodyDropped`, `SearchBounded`,
and `DiscoverySettles`: a run does not wait for ever for providers.

*Intake.* `PromotedOnce`, `BestPromoted`, `NoCrowding`, `JdOnDisk`, `SeedsKept`, and
`DeservingPromoted`: a lead that deserves it is promoted once there is room.

*Pipeline.* `OneOpenRun` (there is no unique index; a second open run makes every
later lookup raise), `TerminalRunsStay` (the transition table allows
`escalated -> in_progress`; no interleaving takes it), `SendsApproved` (the
sending prerequisites accept any earlier approved run; only the quarantine at the
start of the cycle keeps a newer unapproved one from being sent),
`ReviewStatusHasPacket`, `EscalationReachesExpert`.

### Bounds

- `control`: one operator, two chats, one task, one crash.  Two chats are needed
  for one to inherit another's pause.  A second operator adds overlapping
  operator commands: two hand-offs, or two returns of one task.  The properties
  for commands one at a time exclude them, `ControlRecordCoherent` is proved for
  any number of operators (section 4), and what the overlap does to the focus is
  in the hazard list without a property.
- `lease`: two workers (launchd and a manual one), `Ttl = 1`, `MaxLag = 2 > Ttl` so
  that a captured start can be older than a whole lease, one crash, one contact,
  one finder (the loop over finders is checked in `discovery`), two days, two
  batches, one unrecorded acceptance.  `MCInit` starts with a contact to write
  to or with batches to prepare; both meet in `Choose` only.  The
  lease, the batches and the mails are proved for any values (section 4).
- `pipeline`: `MaxRuns = 2` (the least at which a second run can exist beside the
  first), one crash or exception at any step of the cycle or the command.
  `OutOfRuns` ends a cycle that would need another run.
- `pipeline_live`: one run, no crash: a crash between the escalation and its packet
  loses the packet for good (hazard list), so the promise is made without one.
- `messaging`: two contacts in priority order, of whom the first may answer or
  bounce; caps and retry limits at their least, one follow-up beyond the first
  (`MaxSequence = 2`), one hour of each lane preference, one crash or failure anywhere
  (`MaxTroubles`); feedback is synced while at most one contact is drafted
  (`MaxWave`), and a posting with two contacts meets answers or troubles, not both
  (`AnswersOrTroubles`).  The owner's commands come at any step of a cycle, in an hour of
  the originals, before an answer and with no feedback sync under way; with one contact
  the follow-up worker goes on meanwhile, up to one follow-up and without failures, with
  two the sending goes on with its failures, and the command is the backlog's
  (`CommandsAlone`).  These two are CONSTRAINTs of the run, and the proofs make neither.
  Bounds of the specification itself, which the proofs share: a cycle of a sender ends
  before its block or its day does (`Between`), the owner lifts a pause between follow-up
  cycles, `MaxWave` for the start of a sync (a parameter, any number in the proofs), one
  owner's command at a time.
- `discovery`: two contacts, two finders of which one is metered and reaches both,
  repeats, strikes and retries at 2, three failures or deaths: enough to spend a
  finder by repetition and to open the breaker.
- `intake`: three leads, two of one company, `Cap = 1` and `Stall = 1`, two polls, one
  death, one escalated posting that goes on; the feed has a personal connection against
  a higher score with public ones only, and a lead that comes with or without job
  description.

### Fairness

`AgentControl.FairSpec`: the heartbeat is started every 5 seconds, so an
idle time-out that is due is read and its resume written, and time passes;
nobody is assumed to issue, or to finish, a command.  `RuntimeLease.FairSpec`: time passes,
running processes progress, launchd restarts its own job; a manual cycle
need never start.  `SupervisorCycles.FairCycles` takes over this fairness:
whatever its work, a cycle comes to its end (providers and git answer or time
out).  `PostingPipeline.FairSpec`: a started cycle goes on.
`EmailDiscovery.FairSpec`: the two actions are taken up again by every heartbeat (WF),
and days pass however often a cycle is under way (SF, since a day passes
between cycles only).  `LeadIntake.FairSpec`: an ingestion that began goes on (WF); reviews
recur, since the heartbeat runs every 5 seconds and polls at most every 15 minutes
(SF, since a review waits for the ingestion).
Nothing is assumed of the owner.

## 4. What is proved

Every safety invariant, action property and refinement that the passing runs check is
also a theorem, for every value of the constants; the runs keep them honest on
instances where the interesting cases are known to happen.  The proof modules extend
the modules they are about and assume only the named assumptions on the constants:
processes and names that differ, a finite set of leads told apart by their rank,
bounds that are natural numbers, no contact twice in a wave (the UNIQUE constraint of
`migrations/0002_canonical_schema.sql:91`).  The bounds of section 3 that are
CONSTRAINTs of a run (`AnswersOrTroubles`, `CommandsAlone`) are not assumed; those in the
guards of a specification, which section 3 names, are.  Every inductive invariant below
was first checked by TLC on the instance of the run.

- `AgentControlProofs`: `TypeCorrect`; `RecordCoherence` from `CoherentInv`, which adds
  to the property what each command still carries (a hand-off has a task, a pending
  return a run).  The properties for commands issued one at a time rest on `SerialFull`,
  which says of the one command under way that what it read still holds, and that
  is why it is inductive only as long as `overlap` is false: `FocusIsExclusive`,
  `StoppedMeansDisabled`, `ResumeOrderNeedsChat`.  Two action properties need more of
  what a process read (`FocusFull`): a hand-off under way is the only one of its
  task, which has no run yet (`HandoffFresh`, also when commands overlap), and the
  pause a resume lifts is the pause it was decided on (`PremisesKept`).  From it
  `FocusHeld` (a task gives the focus up with a result only, and a final result stays)
  and `AutomationYields` (chats and heartbeat lift nobody else's pause; this one
  also needs `ControlRecordCoherent`: a pause with a reason is a pause).
- `RuntimeLeaseProofs`: `TypeCorrect`, `Exclusion`, `ReleaseIsOwnersOnly`,
  `LeaseIsBounded`, the last two inductive as they stand.  `Exclusion` needs
  `LeaseInv`: an owner is at work, and a cycle at work for less than the time to
  live owns the row, which then runs out exactly when that time does; so a second
  cycle can be granted the row only after the first outlived it.  For any number of
  workers, any lag and any number of crashes.
- `SupervisorCyclesProofs`: `CyclesImplementLease`, every step of a cycle with its
  work is a step of `RuntimeLease` or leaves it alone, so that the theorems above
  hold of the composition (`CyclesExclusive`, `CyclesTypeCorrect`); `BatchesOnceADay`
  from `BatchInv`: as long as nobody was granted the lease while another worked, one
  cycle is at work at most, only it can be building, and the day it builds for has
  no batch; `MailedOnce` from `MailInv`: a contact has one message at most, a cycle has
  a message in hand only while it acts and finds it a draft, and a contact
  whose message may still be sent has received nothing but the acceptances no row
  tells of.
- `PostingPipelineProofs`, for any number of runs and interruptions: `TypeCorrect`,
  `RunIsUnique` and `TerminalStays` from `WorkInv` (while a cycle executes, the run
  in hand is open or was completed by the operator, so the move
  `escalated -> in_progress` is never asked for) by way of `StepEffect`, what any step
  may do to the runs; `PromisedPacketIsThere` from `PacketInv` (where the two
  transactions of packet and decision may be cut off); `OnlyApprovedIsSent` from
  `SendInv` (what the quarantine leaves behind makes the lax sending prerequisite
  strict).
- `MessagingProofs`, about the sender, the follow-up worker, the feedback sync and the
  owner's commands on one store, for any wave, caps and number of troubles: each
  process has lemmas for what it leaves alone and what it keeps, and `MessagingInv`
  joins them (`MessagingTypeCorrect`).  Cycles and commands interleave freely, so its parts
  say what each of them may rely on although the rows change under it.  `RowInv`: a row
  says sent, or, taken out too late, failed, once its `sent_at` is on record.  `HandInv`:
  what a sending cycle has loaded and not come to has no `sent_at`, and whoever is
  pending before one of it was loaded, too, and is still to come; this gives
  `WaveInOrder`.  `OwnInv`: what a command selected still exists when it is written back.
  `OutInv`: a retired original that is not `held` is in no cycle's hands and not pending;
  with it `RetiredNeverSent` follows from the one step in which an original is accepted.
  `PlanInv`: a plan belongs to a message with a `sent_at` and follow-ups to go.
  `AcceptancesSpaced` needs `GapInv`: the queues
  in flight are those between check and record, and while the gap is closed no
  sender is calling and no frozen time is past it; two in flight excuse the gap.
  `SilentAfterAnswer` needs `ThreadInv` (a thread is the sequences 1, 2, ... recorded,
  and one more between acceptance and record) and `SilentInv` (during a call there is
  no room left for the one follow-up that may cross an answer).  `RolloutWithinCap`
  needs `CapInv`: the follow-ups in all threads are those counted, those missed and
  the one being counted.
- `MessagingLedgerProofs`: `LedgerKept`, the refinement of `TouchLedger`.  A contact's
  mail is shown as a zero for each accepted original and then the thread; `OutboxInv`
  says that the accepted originals are the lost ones and at most one more, so an
  acceptance is a `First`, `NextTouch` or `Repeat` of the ledger, the loss of an answer
  its `LoseAnswer`, and every other step a stutter; a recorded original is known by its
  `sent_at`, which no command takes back.  `SettledForCause` needs `SyncInv`: a message the
  sync matched a bounce with, and has come to, has that bounce on record, whoever
  recorded it, because no process takes an event back (`EventsGrow`).
- `EmailDiscoveryProofs`, for any contacts, finders and limits: `DiscoveryTypeCorrect`;
  `SearchesBounded` from `TriesInv` and `SearchInv` (a search that came back is counted
  when its cycle ends or dies); `OnlyReadySent` and `NobodyIsDropped` from
  `DiscoveryInv` (each step of a cycle belongs to one stage and one posting status;
  whoever a round still asks for has no address, so recording an attempt takes
  nobody's address away); `ContactsExhaustedForCause` step by step.
- `LeadIntakeProofs`, for any feed and any number of leads, polls and deaths:
  `TypeCorrect`; `RowsBehindFiles`, `ContactsKept` and `CapKept` from `IntakeInv`.  It
  adds to `JdOnDisk` that a written lead's file is of the batch under way, so that the
  commit never points ahead of the disk, and to the cap that the counted postings
  which were never reopened fit in it; `NeverPromotedTwice` follows step by step.
  `BestLeadPromoted`: the pairwise comparison `Beats`, with its five-point rule, is no
  order on leads in general; on the eligible ones it is the lexicographic order
  `Ahead`, because a personal connection is worth exactly those five points there.  So
  every nonempty set of eligible leads has a first one (`HasFirst`), also within the
  company of a lead that deserves promotion, and it is passed over only for a better
  one.  A lead whose row says promoted has a posting (`PromotedHasPosting`), so
  that a deserving lead is a candidate.

Where an argument wants an induction over a set it goes through the least element of
a set of numbers (`LeastNumber`, from the well-foundedness of `<` in the library).

Left to TLC: liveness, which the prover does not reach (`IdleTimeoutResumes`,
`DeadLeaseRecovered`, `EscalationReachesExpert`, `DiscoverySettles`, `DeservingPromoted`), and
the five disagreements of section 5, which are counterexamples.

## 5. Disagreements between code and requirements

1. `control_return` - `return_background_task` (`local_runtime.py:1119`) writes
   `enabled, paused` or calls `resume_agent` without looking at the mode; an agent
   stopped while the task ran is enabled again (`prd/spec.md:5003`).
2. `control_close` - `begin` (`local_runtime.py:3947`) decides `resume_on_close` from
   the mode it finds; over a left-over chat pause it decides not to resume, and the
   explicit close also disables the idle time-out (`prd/spec.md:4986`).
3. `pipeline_verdict` - result validation also runs after a failed prerequisite
   (`supervisor.py:2472`) and can turn `blocked` into `success` (`prd/spec.md:4828`).
4. `pipeline_abandon` - the status writes of a cycle in flight are unconditional
   (`resume_tailoring.py:745`, `:1722`), so a posting abandoned meanwhile leaves
   that status (`prd/spec.md:628`, `prd/test-spec.feature:1952`).
5. `control_overlap` - the end of a chat decides to resume before a hand-off commits
   and calls `resume_agent` after it (`local_runtime.py:4065`): the agent runs while
   the task owns the focus and is in progress (`prd/spec.md:5001`).

Met while modelling, without a run of their own (the passing properties are worded so
that the behaviour below is what they allow):

- *Jobright review.* The query of `refresh_jobright_promotion_frontier` selects no
  `canonical_jd_artifact_path`, which `_build_candidate_from_row`
  (`jobright_promotion.py:487`) reads when the latest observation has no job
  description: an `IndexError`, in every review, until that lead is recommended
  again with one.  `DeservingPromoted` excuses such a lead (`Unreadable`); `prd/spec.md:463`
  wants the lead held and the others reviewed.
- *Sending.* After a read time-out or a death between acceptance and
  `outreach.py:5067` the original is sent again (`prd/spec.md:912`); the copies are
  the `spare` of `TouchLedger`.  Supervisor and follow-up worker take no common lock
  and can both pass their pacing check (`prd/spec.md:4087`).  When the retries of a
  message are used up the loop ends there, and the later contacts of the wave are
  never written to (`outreach.py:4293`, `prd/spec.md:4001`).  A contact whose drafting
  dies after its promotion is not drafted again (`outreach.py:3495`).
- *Commands during a cycle.*  A sending cycle loads its wave once and writes by id, so
  an original the backlog command or the archive retires meanwhile is still sent, or
  comes back by a transient failure, is pending again, and later retried
  (`outreach.py:4860`; `prd/spec.md` wants such drafts retired "so they cannot later
  resume"): `RetiredStaysUnsent` excuses these (`held`) and no others.  The other way
  round, an original sent between the command's SELECT and UPDATE
  (`local_runtime.py:2626`, `:2647`; `:2259`, `:2278`) is set to failed: feedback does not
  observe it and no follow-up is planned for it from then on.  A follow-up sent between
  the SELECT and the UPDATE of plans (`:2292`, `:2310`) is set to skipped, and
  `_has_existing_followup_evidence` (`followups.py:1874`) then rules out the later ones.
  A cycle in flight also takes an archived posting out of abandoned, when it promotes a
  contact or finishes the wave (`_complete_posting_if_wave_finished`), as in finding 4.
- *Feedback.*  A message whose bounce the poll after a send records during a sync may get a
  not_bounced event as well, since the sync's `feedback_states` does not learn of it
  (`delivery_feedback.py:515`, `:1055`).  What reads the events lets the bounce decide.
- *Follow-ups.* The freshness of a draft counts from the last evaluation of the plan, not from the
  draft (`followups.py:363`).  A bounce of a follow-up matches two messages of the
  contact, is attributed to none, and the message ends as not_bounced
  (`prd/spec.md:787`).
- *Discovery.* The guard of a search tests the Apollo breaker and not the cooldown
  (`email_discovery.py:4898`, `prd/spec.md:3747`); while Apollo fails, the finders
  are not asked at all (`prd/spec.md:3783`).  A search cycle that raises or dies is
  not counted (`supervisor.py:2828`), so an invalid key is tried by every heartbeat.
- *Intake.* A second observation rewrites the job description of a promoted posting
  (`prd/spec.md:1116`) and resets the row of a promoted lead (`prd/spec.md:468`).  A
  named contact is not counted by `_initial_lead_status` (`prd/spec.md:480`).
- *General learning and maintenance.* Both are chosen after all other work,
  although `prd/spec.md` wants maintenance before the next new run (FR-OPS-17Q).
  Discovery is chosen although every finder rests, at every heartbeat, and starves
  maintenance meanwhile.  A message whose cycle dies between row and
  `send_result.json` stays blocked; one whose cycle dies after acceptance is sent again
  (`unknown`).  A merged batch can be rejected (`maintenance.py:400`, `prd/spec.md:4880`), and
  a command killed between `git merge` and the update leaves merged code under a
  pending row (approving again repairs it).

## 6. Not modelled

- What texts say: drafts, resumes, job descriptions, prompts, parsing and scoring
  (`resume_tailoring.py`, the renderers, `linkedin_scraping.py`).  Each is a choice of outcome.
- Sending: the guardrails other than the state of message and file, the frontier
  cap of ten, hard stops by contact status, replies as events.
- Discovery: reuse of addresses after a bounce, exclusion of people written to at
  the same company, replay of earlier shortlists, profile capture.
- Incident clusters and their windows; the packet and incident that a failed result of
  general-learning or maintenance work leaves.
- Operator object updates: application and responder state (single transactions on rows
  no modelled component reads); what the archive and the backlog command do to runs and
  review packets; two commands of the owner at a time.
- Gmail and LinkedIn intake: nothing in the product starts it.
- The instant at which a draft's freshness ends, at which the lane and the draft check
  disagree (`send_lane.py:266`): the model has nothing between fresh and stale.
- Queries, reports, dashboards, runtime pack, configuration, migrations: no state
  whose evolution matters here.  The build agent is a development tool.

## 7. Plan

Done: control, lease, pipeline, messaging with its abstract ledger, the owner's retirement
of postings, discovery, intake, and the cycles with their unprotected work; the theorems
for all their safety and action properties and for the two refinements.  Next, in this
order:

1. What overlapping commands may still do to the focus (the entries of the hazard
   list without a property), stated and proved for any number of operators.
2. The safety part of the liveness properties: that the step they wait for stays
   possible until it is taken (`EscalationReachesExpert`, `DiscoverySettles`).
3. `IncidentClusters`.
4. The pipeline under two overlapping cycles.
