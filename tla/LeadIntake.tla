------------------------------ MODULE LeadIntake ------------------------------
(***************************************************************************)
(* Jobright intake: the supervisor's two actions that feed the pipeline.   *)
(* One collects a batch of recommendations and ingests it as leads, the    *)
(* other reviews every lead without posting and promotes the best one into *)
(* a job posting.                                                          *)
(*                                                                         *)
(* Ingestion writes the files of every lead while one transaction is open  *)
(* and commits the rows of the whole batch at the end; it may die anywhere *)
(* in between.  Review and promotion share a transaction: the review's     *)
(* updates hold the database until the promotion commits, so they are one  *)
(* step.  What the pipeline does to a posting afterwards is environment    *)
(* here.  One supervisor cycle runs at a time (RuntimeLease).              *)
(***************************************************************************)
EXTENDS Integers, FiniteSets

CONSTANTS
    Leads,      \* recommendations told apart by lead_identity_key
    Company,    \* canonical_company_key of each lead
    Feed,       \* what Jobright may show of each lead, see Recommendation
    NoView,     \* a lead that was never ingested
    Seniority,  \* the last tie-breakers: company, role and lead id, as a rank
    People,     \* persons a recommendation may name
    Cap,        \* PROMOTION_ACTIVE_CAP (code: 6)
    Stall,      \* postings waiting before outreach that make a backlog (code: 3)
    MaxPolls,   \* bound: batches collected
    MaxDeaths,  \* bound: deaths of the process during ingestion
    MaxReopened \* bound: escalated postings that go on

\* JobrightRecommendation, without what only the artifacts repeat
Recommendation ==
    [text : BOOLEAN,    \* the page had a job description
     usable : BOOLEAN,  \* ... of at least eighty words
     lane : {"ai", "backend", "off"},
     barred : BOOLEAN,  \* too senior, or from an intermediary
     score : Int,       \* display_score; below 0 when missing
     personal : Nat, social : Nat, named : BOOLEAN,
     people : SUBSET People]

Views == UNION {Feed[l] : l \in Leads}

ASSUME FeedAssumption ==
    /\ Feed \in [Leads -> SUBSET Recommendation]
    /\ \A l \in Leads : NoView \notin Feed[l] /\ \A r \in Feed[l] : r.usable => r.text
ASSUME LeadsAssumption ==
    /\ IsFiniteSet(Leads) /\ Seniority \in [Leads -> Int]
    /\ \A l, k \in Leads : Seniority[l] = Seniority[k] => l = k
ASSUME BoundsAssumption ==
    /\ Cap \in Nat \ {0} /\ Stall \in Nat /\ MaxPolls \in Nat /\ MaxDeaths \in Nat
    /\ MaxReopened \in Nat

VARIABLES
    lead,      \* leads: status, latest view, the poll it is from, lead_contacts
    file,      \* the poll whose job description is on disk, 0 for none
    posting,   \* job_postings of the lead: status, whether its latest run is
               \* escalated, its contacts
    due,       \* fifteen minutes have passed since jobright_poll_last_run_at
    cy,        \* the cycle: step, batch, leads of it still to write
    polls,     \* batches collected so far
    deaths,    \* history: deaths so far
    reopened   \* history: leads whose escalated posting went on

vars == <<lead, file, posting, due, cy, polls, deaths, reopened>>

\* "sourced" stands for the five statuses before outreach as well
Preparing == {"sourced"}              \* BACKLOG_PRESSURE_STATUSES
Live == Preparing \cup {"outreach"}   \* ACTIVE_PROMOTED_POSTING_STATUSES
LeadStatuses == {"none", "discovered", "held", "blocked_no_jd", "promoted"}
PostingStatuses == {"none", "closed"} \cup Live
Steps == {"idle", "write", "record"}

TypeOK ==
    /\ lead \in [Leads -> [status : LeadStatuses, view : Views \cup {NoView},
                           at : 0 .. MaxPolls, people : SUBSET People]]
    /\ file \in [Leads -> 0 .. MaxPolls]
    /\ posting \in [Leads -> [status : PostingStatuses, escalated : BOOLEAN,
                              people : SUBSET People]]
    /\ due \in BOOLEAN
    /\ cy \in [step : Steps, batch : [Leads -> Views \cup {NoView}], todo : SUBSET Leads]
    /\ polls \in 0 .. MaxPolls /\ deaths \in 0 .. MaxDeaths
    /\ reopened \subseteq Leads
    /\ \A l \in Leads : (lead[l].view = NoView) <=> (lead[l].status = "none")
    /\ \A l \in cy.todo : cy.batch[l] # NoView

NoBatch == [l \in Leads |-> NoView]
Idle == [step |-> "idle", batch |-> NoBatch, todo |-> {}]

Init ==
    /\ lead = [l \in Leads |-> [status |-> "none", view |-> NoView, at |-> 0, people |-> {}]]
    /\ file = [l \in Leads |-> 0]
    /\ posting = [l \in Leads |-> [status |-> "none", escalated |-> FALSE, people |-> {}]]
    /\ due = TRUE /\ cy = Idle
    /\ polls = 0 /\ deaths = 0 /\ reopened = {}

-----------------------------------------------------------------------------
\* What a review looks at.

Public(r) == r.social + (IF r.named THEN 1 ELSE 0)
Total(r) == Public(r) + r.personal

\* connection_quality_rank
Quality(r) == IF r.personal >= 1 THEN 2 ELSE IF Public(r) >= 2 THEN 1 ELSE 0

Threshold(lane) == IF lane = "ai" THEN 70 ELSE 80

\* _load_promoted_posting_rows, _posting_counts_toward_active_promotion_capacity
Counted(statuses) ==
    {l \in Leads : posting[l].status \in statuses /\ ~posting[l].escalated}

\* Faulty variants: never used by the specification.
FaultyRoom == Cardinality(Counted(Live)) <= Cap
FaultyMaterialized(l) == lead[l].status = "promoted"
FaultyCandidates == {l \in Leads : lead[l].status = "discovered" /\ posting[l].status = "none"}
FaultyBeats(l, k) ==
    LET r == lead[l].view
        s == lead[k].view
    IN  IF r.score # s.score THEN r.score > s.score
        ELSE IF Quality(r) # Quality(s) THEN Quality(r) > Quality(s)
        ELSE IF lead[l].at # lead[k].at THEN lead[l].at > lead[k].at
        ELSE Seniority[l] < Seniority[k]
FaultyFiles(l) == IF cy.batch[l].text /\ file[l] = 0 THEN polls ELSE file[l]
FaultyObserved(l) ==
    [lead[l] EXCEPT !.view = cy.batch[l], !.at = polls, !.people = @ \cup cy.batch[l].people]

HasRoom == Cardinality(Counted(Live)) < Cap
Backlog == ~HasRoom \/ Cardinality(Counted(Preparing)) >= Stall

Materialized(l) == posting[l].status # "none"

\* _promotion_failure_reason finds none
Passes(l) ==
    LET r == lead[l].view IN
    /\ \A k \in Counted(Live) : Company[k] # Company[l]
    /\ ~r.barred /\ r.lane # "off"
    /\ r.score >= Threshold(r.lane)
    /\ Total(r) > 0 /\ ~(r.personal = 0 /\ Public(r) = 1) /\ Quality(r) > 0
    /\ Backlog => r.personal > 0
    /\ file[l] > 0

\* _compare_candidates puts the first before the second
Beats(l, k) ==
    LET r == lead[l].view
        s == lead[k].view
        gap == IF r.score > s.score THEN r.score - s.score ELSE s.score - r.score
    IN  IF gap <= 5 /\ Quality(r) # Quality(s) THEN Quality(r) > Quality(s)
        ELSE IF r.score # s.score THEN r.score > s.score
        ELSE IF Quality(r) # Quality(s) THEN Quality(r) > Quality(s)
        ELSE IF Total(r) # Total(s) THEN Total(r) > Total(s)
        ELSE IF lead[l].at # lead[k].at THEN lead[l].at > lead[k].at
        ELSE Seniority[l] < Seniority[k]

\* the leads refresh_jobright_promotion_frontier loads
Candidates ==
    {l \in Leads : lead[l].status \notin {"none", "promoted"} /\ ~Materialized(l)}

\* A candidate whose view has no job description: the query does not select
\* the column _build_candidate_from_row falls back to, and the cycle raises.
Unreadable == \E l \in Candidates : ~lead[l].view.text

Eligible == {l \in Candidates : lead[l].view.usable /\ Passes(l)}
FirstOf(S) == {l \in S : \A k \in S \ {l} : Beats(l, k)}
CompanyWinners == {l \in Eligible : l \in FirstOf({k \in Eligible : Company[k] = Company[l]})}

\* the status the review gives a candidate it does not promote
Reviewed(l) ==
    IF ~lead[l].view.usable THEN "blocked_no_jd"
    ELSE IF l \in CompanyWinners THEN "discovered" ELSE "held"

-----------------------------------------------------------------------------
\* Collecting a batch: prepare_batch, in the selection of a cycle.

PollCollects ==
    /\ cy.step = "idle" /\ due /\ polls < MaxPolls
    /\ \E batch \in [Leads -> Views \cup {NoView}] :
        /\ batch # NoBatch /\ \A l \in Leads : batch[l] \in Feed[l] \cup {NoView}
        /\ cy' = [step |-> "write", batch |-> batch,
                  todo |-> {l \in Leads : batch[l] # NoView}]
    /\ polls' = polls + 1
    /\ UNCHANGED <<lead, file, posting, due, deaths, reopened>>

\* The session has expired: recorded like a poll, in a cycle of its own.  (The
\* control value jobright_reauth_required_at is written and never read.)
PollRefused ==
    /\ cy.step = "idle" /\ due
    /\ due' = FALSE
    /\ UNCHANGED <<lead, file, posting, cy, polls, deaths, reopened>>

-----------------------------------------------------------------------------
\* Ingestion: ingest_jobright_recommendation_batch.

\* the job description a lead has on disk once its files are written
Files(l) == IF cy.batch[l].text THEN polls ELSE file[l]

WriteLead(l) ==
    /\ cy.step = "write" /\ l \in cy.todo
    /\ file' = [file EXCEPT ![l] = Files(l)]
    /\ cy' = [cy EXCEPT !.todo = @ \ {l}]
    /\ UNCHANGED <<lead, posting, due, polls, deaths, reopened>>

\* _initial_lead_status: the named contact does not count
InitialStatus(r) ==
    IF ~r.usable THEN "blocked_no_jd"
    ELSE IF r.social + r.personal = 0 THEN "held" ELSE "discovered"

\* Faulty variant: the contacts of the latest recommendation only.
FaultyContacts(l) ==
    [status |-> InitialStatus(cy.batch[l]), view |-> cy.batch[l], at |-> polls,
     people |-> cy.batch[l].people]

\* _sync_lead_contacts: contacts are added and never removed
Contacted(l) == lead[l].people \cup cy.batch[l].people

\* the row of a recommended lead, whatever became of the lead before
Observed(l) ==
    [status |-> InitialStatus(cy.batch[l]), view |-> cy.batch[l], at |-> polls,
     people |-> Contacted(l)]

CommitBatch ==
    /\ cy.step = "write" /\ cy.todo = {}
    /\ lead' = [l \in Leads |-> IF cy.batch[l] = NoView THEN lead[l] ELSE Observed(l)]
    /\ cy' = [Idle EXCEPT !.step = "record"]
    /\ UNCHANGED <<file, posting, due, polls, deaths, reopened>>

\* The run summary and the control values, after ingestion.
RecordPoll ==
    /\ cy.step = "record"
    /\ due' = FALSE /\ cy' = Idle
    /\ UNCHANGED <<lead, file, posting, polls, deaths, reopened>>

Die ==
    /\ cy.step \in {"write", "record"} /\ deaths < MaxDeaths
    /\ cy' = Idle /\ deaths' = deaths + 1
    /\ UNCHANGED <<lead, file, posting, due, polls, reopened>>

-----------------------------------------------------------------------------
\* Review and promotion: refresh_jobright_promotion_frontier, promote_jobright_lead,
\* in a cycle whose poll is not due, finds an empty feed or raises.

\* With an unreadable candidate the review raises: the cycle ends and nothing
\* of it is left.

\* No lead is selected: the statuses are written and the selection goes on.
ReviewOnly ==
    /\ cy.step = "idle" /\ ~Unreadable
    /\ ~HasRoom \/ Eligible = {}
    /\ lead' = [l \in Leads |->
           IF l \in Candidates THEN [lead[l] EXCEPT !.status = Reviewed(l)] ELSE lead[l]]
    /\ UNCHANGED <<file, posting, due, cy, polls, deaths, reopened>>

\* _carry_forward_jobright_contacts
Carried(l) == posting[l].people \cup lead[l].people

\* _upsert_promoted_job_posting: written anew when the lead has one already
Upserted(l) == [posting[l] EXCEPT !.status = "sourced", !.people = Carried(l)]

Promote(l) ==
    /\ cy.step = "idle" /\ ~Unreadable
    /\ HasRoom /\ l \in FirstOf(CompanyWinners)
    /\ lead' = [k \in Leads |->
           IF k = l THEN [lead[k] EXCEPT !.status = "promoted"]
           ELSE IF k \in Candidates THEN [lead[k] EXCEPT !.status = Reviewed(k)] ELSE lead[k]]
    /\ posting' = [posting EXCEPT ![l] = Upserted(l)]
    /\ UNCHANGED <<file, due, cy, polls, deaths, reopened>>

-----------------------------------------------------------------------------
\* The environment: what the rest of the pipeline makes of a posting, and time.

Onward ==
    {<<"sourced", "outreach">>, <<"sourced", "closed">>, <<"outreach", "closed">>}

PostingMoves(l) ==
    /\ \E move \in Onward :
        /\ posting[l].status = move[1]
        /\ posting' = [posting EXCEPT ![l].status = move[2]]
    /\ UNCHANGED <<lead, file, due, cy, polls, deaths, reopened>>

RunEscalates(l) ==
    /\ posting[l].status \in Live /\ ~posting[l].escalated
    /\ posting' = [posting EXCEPT ![l].escalated = TRUE]
    /\ UNCHANGED <<lead, file, due, cy, polls, deaths, reopened>>

\* A run of the escalated posting goes on or is begun anew.
RunReopens(l) ==
    /\ posting[l].status \in Live /\ posting[l].escalated
    /\ Cardinality(reopened \cup {l}) <= MaxReopened
    /\ posting' = [posting EXCEPT ![l].escalated = FALSE]
    /\ reopened' = reopened \cup {l}
    /\ UNCHANGED <<lead, file, due, cy, polls, deaths>>

QuarterPasses ==
    /\ ~due /\ due' = TRUE
    /\ UNCHANGED <<lead, file, posting, cy, polls, deaths, reopened>>

Poll == PollCollects \/ PollRefused
Ingest == (\E l \in Leads : WriteLead(l)) \/ CommitBatch \/ RecordPoll
Review == ReviewOnly \/ \E l \in Leads : Promote(l)
\* Postings move in other cycles of the supervisor.
Pipeline ==
    /\ cy.step = "idle"
    /\ \E l \in Leads : PostingMoves(l) \/ RunEscalates(l) \/ RunReopens(l)

Next == Poll \/ Ingest \/ Review \/ Die \/ Pipeline \/ QuarterPasses

Spec == Init /\ [][Next]_vars

\* A cycle is started every five seconds and one in fifteen minutes polls, so
\* reviews recur.
FairSpec == Spec /\ WF_vars(Ingest) /\ SF_vars(Review)

-----------------------------------------------------------------------------
\* Properties.

\* The active postings exceed the cap by no more than the postings that were
\* escalated, and so gave their place away, before their run went on; and two
\* active postings share a company only if one of them is such a posting.
NoCrowding ==
    /\ Cardinality(Counted(Live)) <= Cap + Cardinality(reopened)
    /\ \A l, k \in Counted(Live) :
           l # k /\ Company[l] = Company[k] => l \in reopened \/ k \in reopened

\* A lead row never refers to a job description newer than the one on disk,
\* wherever ingestion died between the files and the rows.
JdOnDisk ==
    \A l \in Leads : lead[l].view # NoView /\ lead[l].view.text => file[l] >= lead[l].at

\* A contact carried into a posting stays a contact of its lead, however often
\* the lead is ingested again, so its provenance (lead_contact_id) is kept.
SeedsKept == \A l \in Leads : posting[l].people \subseteq lead[l].people

\* A lead becomes a posting once: being recommended again, which makes the row
\* of a promoted lead look undecided, never puts its posting back to sourced.
PromotedOnce ==
    [][\A l \in Leads : posting[l].status # "none" =>
           (posting'[l].status = "sourced" => posting[l].status = "sourced")]_vars

\* a lead that deserves promotion, whatever its row's status says
Deserving(l) ==
    /\ lead[l].view # NoView /\ lead[l].view.usable
    /\ posting[l].status = "none" /\ Passes(l)

\* The score that decides: five points are worth a personal connection.
Worth(l) == lead[l].view.score + (IF lead[l].view.personal > 0 THEN 5 ELSE 0)

\* The lead promoted is worth most among all that deserve it, and on a tie one
\* with a personal connection is not passed over: comparing leads pairwise,
\* first within each company and then between them, loses none.
BestPromoted ==
    [][\A l, k \in Leads :
           posting[l].status = "none" /\ posting'[l].status # "none" /\ Deserving(k) =>
               \/ Worth(l) > Worth(k)
               \/ Worth(l) = Worth(k) /\ Quality(lead[l].view) >= Quality(lead[k].view)]_vars

\* A deserving lead is promoted once there is room, unless it stops deserving
\* it, the room goes, or a lead without job description blocks every review.
DeservingPromoted ==
    \A l \in Leads :
        (Deserving(l) /\ HasRoom) ~>
            (posting[l].status # "none" \/ ~Deserving(l) \/ ~HasRoom \/ Unreadable)
=============================================================================
