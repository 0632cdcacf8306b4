---------------------------- MODULE EmailDiscovery ----------------------------
(***************************************************************************)
(* People search and e-mail discovery for one posting: the two supervisor  *)
(* actions that turn a tailored posting into contacts that can be written  *)
(* to.  Apollo searches people and enriches them; the finders are asked in *)
(* order for an address.  A failing provider rests for a while, a finder   *)
(* that has said no is spent for that contact, and a contact whose finders *)
(* are all spent is exhausted.                                             *)
(*                                                                         *)
(* Each action is one call to a provider with the transaction that records *)
(* it, or one transaction of its own; the process may die between any two. *)
(* A cycle freezes its time when it starts, so time passes between cycles. *)
(* Contacts are managers without earlier outreach, at most one send slice. *)
(***************************************************************************)
EXTENDS Integers, Sequences, FiniteSets

CONSTANTS
    Contacts,    \* whom the posting may be linked to
    Finders,     \* EMAIL_FINDER_PROVIDER_ORDER, as a sequence
    Apollo,      \* PROVIDER_NAME_APOLLO
    Metered,     \* finders that report the credits left
    Reach,       \* finders that can look for the contact once its name is known
    Repeats,     \* DISCOVERY_REPEATED_PROVIDER_FAILURE_EXHAUSTION_THRESHOLD (code: 3)
    Strikes,     \* APOLLO_CONSECUTIVE_PROVIDER_ERROR_THRESHOLD (code: 3)
    Retries,     \* APOLLO_PEOPLE_SEARCH_RETRY_WITHOUT_PROGRESS_THRESHOLD (code: 2)
    MaxTroubles  \* bound: failures of providers and deaths of the process

Providers == {Finders[i] : i \in 1 .. Len(Finders)} \cup {Apollo}
Asked == Providers \ {Apollo}

ASSUME ProvidersAssumption ==
    /\ Finders \in Seq(STRING) /\ Apollo \notin {Finders[i] : i \in 1 .. Len(Finders)}
    /\ Metered \subseteq Asked /\ Reach \in [Contacts -> SUBSET Asked]
ASSUME BoundsAssumption ==
    Repeats \in Nat \ {0} /\ Strikes \in Nat \ {0} /\ Retries \in Nat /\ MaxTroubles \in Nat

VARIABLES
    stage,     \* pipeline_runs.current_stage, or how the run ended
    posting,   \* job_postings.posting_status
    link,      \* link_level_status of each contact, "none" without a row
    email,     \* whether current_working_email is usable
    named,     \* contacts whose name or profile is known
    heard,     \* provider_budget_events of a contact and a finder: the latest
               \* outcome and how often in a row
    credits,   \* finders whose budget state shows credits or a reset time
    cooling,   \* provider_budget_state.cooldown_until: none, short or long
    strikes,   \* Apollo's latest events in the window that are provider errors
    breaker,   \* Apollo's breaker: closed, or open for an hour or a day
    tries,     \* cycles at people_search that ended with a result
    cy,        \* the cycle: step, contacts left, contact, finder, found
    searches,  \* history: people searches sent to Apollo
    uncounted, \* history: cycles at people_search that ended without a result
    troubles   \* history: failures and deaths so far

rows == <<posting, link, email, named>>
budget == <<heard, credits, cooling, strikes, breaker>>
history == <<searches, uncounted, troubles>>
vars == <<stage, rows, budget, tries, cy, history>>

\* DISCOVERY_OUTCOME_*: "no" stands for every outcome that spends the finder
Answers == {"found", "no"}
Failures == {"limited", "quota", "network", "error"}
Links == {"none", "identified", "shortlisted", "exhausted"}
Working == {"people_search", "email_discovery"}

CyIdle == [pc |-> "idle", todo |-> {}, c |-> "none", i |-> 1, found |-> FALSE]
At(pc) == cy.pc = pc
Goto(pc) == [cy EXCEPT !.pc = pc]
Trouble == troubles < MaxTroubles /\ troubles' = troubles + 1

\* Faulty variants: never used by the specification.
FaultySpent(c, p) == heard[c][p].kind # "unheard"
FaultyPromoted(l, e) ==
    IF \A c \in Contacts : l[c] = "shortlisted" => e[c] THEN "ready_for_outreach" ELSE posting
FaultyNobodyLeft(l) == \A c \in Contacts : l[c] # "identified"
FaultyRunaway == tries > Retries + 1
FaultySettlement(frontier) ==
    frontier # {} /\ \A c \in frontier : heard[c][Finders[1]].kind = "no"

-----------------------------------------------------------------------------
(***************************************************************************)
(* What the code computes from the rows.                                   *)
(***************************************************************************)
\* evaluate_role_targeted_send_set
Selected(l) == {c \in Contacts : l[c] \in {"identified", "shortlisted"}}
Pending == {c \in Selected(link) : ~email[c]}
Shortlisted == {c \in Contacts : link[c] = "shortlisted"}

\* _promote_posting_ready_for_outreach_if_eligible
Ready(l, e) == \E c \in Selected(l) : e[c]
Promoted(l, e) ==
    IF posting = "requires_contacts" /\ Ready(l, e) THEN "ready_for_outreach" ELSE posting

\* _provider_is_email_discovery_eligible
Eligible(c) == IF c \in named THEN Reach[c] ELSE {}

\* _provider_path_spent_for_contact
Spent(c, p) ==
    \/ heard[c][p].kind = "no"
    \/ /\ heard[c][p].times = Repeats
       /\ heard[c][p].kind = "error" \/ (heard[c][p].kind = "limited" /\ p \notin credits)

\* classify_role_targeted_email_discovery_contact_state
Open(c) == {p \in Eligible(c) : ~Spent(c, p)}
Actionable == {c \in Pending : \E p \in Open(c) : cooling[p] = "none"}
Hopeless == {c \in Pending : Open(c) = {}}

\* RoleTargetedEmailDiscoveryFrontierSummary: cooldown_only, requires_settlement
CooldownOnly == Pending # {} /\ Actionable = {} /\ Hopeless = {}
Settlement(frontier) == frontier \subseteq Hopeless

\* is_role_targeted_people_search_actionable_now
SearchActionable ==
    \/ \E c \in Contacts : link[c] = "identified"
    \/ cooling[Apollo] = "none" /\ breaker = "closed"

\* the retry limit of execute's people_search branch
Runaway == tries >= Retries

\* no selected contact is left
NobodyLeft(l) == Selected(l) = {}

\* _resolve_provider_cooldown_until
Rest(kind) ==
    IF kind = "quota" THEN "long" ELSE IF kind \in Failures THEN "short" ELSE "none"

\* _persist_provider_budget_signal: the later end of a cooldown is kept, and an
\* outcome that asks for none clears it
Cooled(p, kind) ==
    [cooling EXCEPT ![p] = IF Rest(kind) = "short" /\ @ = "long" THEN "long" ELSE Rest(kind)]

\* the event of an answer about c
Heard(c, p, kind) ==
    [heard EXCEPT ![c][p] =
        [kind |-> kind,
         times |-> IF @.kind # kind THEN 1 ELSE IF @.times < Repeats THEN @.times + 1 ELSE @.times]]

\* an answer that tells the credits left
Credited(p, meter) == IF meter THEN credits \cup {p} ELSE credits

\* _trip_apollo_breaker
Trip(until) == breaker' = until /\ strikes' = 0

\* the same for a failure of Apollo, with _maybe_trip_apollo_provider_error_breaker
ApolloSignal(kind) ==
    /\ cooling' = Cooled(Apollo, kind)
    /\ IF kind = "error" /\ strikes + 1 >= Strikes THEN Trip("hour")
       ELSE /\ strikes' = IF kind = "error" THEN strikes + 1 ELSE 0
            /\ UNCHANGED breaker
    /\ UNCHANGED <<heard, credits>>

\* a people search goes out to Apollo
SearchSent == searches' = searches + 1

\* _materialize_shortlisted_candidate, for candidates without a link
Unlinked(new) == \A c \in new : link[c] = "none"
Materialized(new) == [c \in Contacts |-> IF c \in new THEN "shortlisted" ELSE link[c]]

\* _apply_contact_enrichment, and _is_terminal_enrichment_dead_end after it
Gained(c, got) == [email EXCEPT ![c] = @ \/ got = "address"]
DeadEnd(c, e, n) == ~e[c] /\ c \notin n

\* _apply_discovery_failure: a contact whose finders are all spent is exhausted
AfterFailure(c) == IF Open(c) = {} THEN [link EXCEPT ![c] = "exhausted"] ELSE link

-----------------------------------------------------------------------------
Init ==
    /\ stage = "people_search" /\ posting = "requires_contacts"
    /\ \E seeded \in SUBSET Contacts :
           link = [c \in Contacts |-> IF c \in seeded THEN "identified" ELSE "none"]
    /\ email = [c \in Contacts |-> FALSE]
    /\ named = {c \in Contacts : link[c] = "identified"}
    /\ heard = [c \in Contacts |-> [p \in Asked |-> [kind |-> "unheard", times |-> 0]]]
    /\ credits = {}
    /\ cooling = [p \in Providers |-> "none"]
    /\ strikes = 0 /\ breaker = "closed"
    /\ tries = 0 /\ cy = CyIdle
    /\ searches = 0 /\ uncounted = 0 /\ troubles = 0

\* The cycle ends with the run where it is.
Stay ==
    /\ cy' = CyIdle
    /\ tries' = IF stage = "people_search" THEN tries + 1 ELSE tries
    /\ UNCHANGED stage

\* The cycle ends with the run moved on.
Move(to) ==
    /\ stage' = to
    /\ cy' = CyIdle
    /\ tries' = IF stage = "people_search" THEN tries + 1 ELSE tries

\* An exception leaves the cycle without a result.
Lost == uncounted' = IF stage = "people_search" THEN uncounted + 1 ELSE uncounted

-----------------------------------------------------------------------------
(***************************************************************************)
(* People search.                                                          *)
(***************************************************************************)
\* A posting already ready is sent on, unless the retry limit comes first.
FoundReady ==
    /\ At("idle") /\ stage \in Working /\ posting = "ready_for_outreach"
    /\ Move(IF stage = "people_search" /\ Runaway THEN "escalated" ELSE "sending")
    /\ UNCHANGED <<rows, budget, history>>

StopRunaway ==
    /\ At("idle") /\ stage = "people_search" /\ posting = "requires_contacts"
    /\ SearchActionable /\ Runaway
    /\ Move("escalated")
    /\ UNCHANGED <<rows, budget, history>>

\* _shortlist_existing_intended_contacts
StartSearch ==
    /\ At("idle") /\ stage = "people_search" /\ posting = "requires_contacts"
    /\ SearchActionable /\ ~Runaway
    /\ link' = [c \in Contacts |-> IF link[c] = "identified" THEN "shortlisted" ELSE link[c]]
    /\ cy' = Goto("search")
    /\ UNCHANGED <<stage, posting, email, named, budget, tries, history>>

\* _ensure_apollo_request_allowed: the breaker is open and nothing is sent
Paused ==
    /\ At("search") \/ (At("enrich") /\ \E c \in cy.todo : ~email[c])
    /\ breaker # "closed"
    /\ ApolloSignal("paused")
    /\ Stay
    /\ UNCHANGED <<rows, history>>

\* _maybe_trip_apollo_usage_breaker_from_snapshots, before a company is resolved
UsageTrips(until) ==
    /\ At("search") /\ breaker = "closed" /\ Trouble
    /\ Trip(until)
    /\ UNCHANGED <<stage, rows, heard, credits, cooling, tries, cy, searches, uncounted>>

\* Apollo fails: the cycle waits for the cooldown.
ApolloFails(kind) ==
    /\ \/ At("search") /\ SearchSent
       \/ At("enrich") /\ (\E c \in cy.todo : ~email[c]) /\ UNCHANGED searches
    /\ breaker = "closed" /\ Trouble
    /\ ApolloSignal(kind)
    /\ Stay
    /\ UNCHANGED <<rows, uncounted>>

\* Apollo refuses the key, which is no cooldown outcome: the error is raised.
ApolloRefuses ==
    /\ \/ At("search") /\ SearchSent
       \/ At("enrich") /\ (\E c \in cy.todo : ~email[c]) /\ UNCHANGED searches
    /\ breaker = "closed" /\ Trouble
    /\ ApolloSignal("refused")
    /\ cy' = CyIdle
    /\ Lost
    /\ UNCHANGED <<stage, rows, tries>>

\* The candidates come back; new ones are materialized and shortlisted, some of
\* them known from other postings with a name and an address.
SearchReturns(new, faces, usable) ==
    /\ At("search") /\ breaker = "closed"
    /\ faces \subseteq new /\ usable \subseteq new /\ Unlinked(new)
    /\ SearchSent
    /\ link' = Materialized(new)
    /\ named' = named \cup faces
    /\ email' = [c \in Contacts |-> email[c] \/ c \in usable]
    /\ cy' = [cy EXCEPT !.pc = "enrich", !.todo = Shortlisted \cup new]
    /\ UNCHANGED <<stage, posting, budget, tries, uncounted, troubles>>

\* run_apollo_contact_enrichment for one contact: an address, a name or nothing;
\* a contact without either is removed
Enrich(c, got) ==
    /\ At("enrich") /\ c \in cy.todo
    /\ got = "nothing" \/ (breaker = "closed" /\ ~email[c])
    /\ ~email[c] => breaker = "closed"
    /\ email' = Gained(c, got)
    /\ named' = IF got = "name" THEN named \cup {c} ELSE named
    /\ link' = IF DeadEnd(c, email', named') THEN [link EXCEPT ![c] = "none"] ELSE link
    /\ cy' = [cy EXCEPT !.todo = @ \ {c}]
    /\ UNCHANGED <<stage, posting, budget, tries, history>>

\* The last transaction of the enrichment promotes the posting.
Enriched ==
    /\ At("enrich") /\ cy.todo = {}
    /\ posting' = Promoted(link, email)
    /\ cy' = Goto("decide")
    /\ UNCHANGED <<stage, link, email, named, budget, tries, history>>

SearchDecided ==
    /\ At("decide") /\ stage = "people_search"
    /\ Move(IF posting = "ready_for_outreach" THEN "sending"
            ELSE IF Shortlisted # {} THEN "email_discovery" ELSE "escalated")
    /\ UNCHANGED <<rows, budget, history>>

-----------------------------------------------------------------------------
(***************************************************************************)
(* E-mail discovery.                                                       *)
(***************************************************************************)
\* A run is taken up when a contact can be asked for, one is ready already, or
\* the frontier has to be settled.
StartDiscovery ==
    /\ At("idle") /\ stage = "email_discovery" /\ posting = "requires_contacts"
    /\ Actionable # {} \/ Ready(link, email) \/ Settlement(Pending)
    /\ posting' = Promoted(link, email)
    /\ cy' = IF posting' = "ready_for_outreach" THEN Goto("decide")
             ELSE [cy EXCEPT !.pc = "enrich", !.todo = Shortlisted]
    /\ UNCHANGED <<stage, link, email, named, budget, tries, history>>

\* _complete_exhausted_email_discovery, its first transaction
CloseIf(l) ==
    /\ posting' = IF NobodyLeft(l) THEN "completed" ELSE posting
    /\ IF NobodyLeft(l)
       THEN cy' = Goto("complete") /\ UNCHANGED <<stage, tries>>
       ELSE Stay

\* settle_role_targeted_email_discovery_exhausted_contacts, then the rest
Settle ==
    /\ ~CooldownOnly /\ Actionable = {}
    /\ link' = [c \in Contacts |-> IF c \in Hopeless THEN "exhausted" ELSE link[c]]
    /\ CloseIf(link')
    /\ UNCHANGED <<email, named, budget, history>>

Advance ==
    /\ At("decide") \/ At("conclude")
    /\ stage = "email_discovery" /\ posting = "ready_for_outreach"
    /\ Move("sending")
    /\ UNCHANGED <<rows, budget, history>>

\* Every pending contact waits for a cooldown, or after a round some can still
\* be asked for.
WaitForProviders ==
    /\ \/ At("decide") /\ CooldownOnly
       \/ At("conclude") /\ (CooldownOnly \/ Actionable # {})
    /\ stage = "email_discovery" /\ posting = "requires_contacts"
    /\ Stay
    /\ UNCHANGED <<rows, budget, history>>

SettleFrontier ==
    /\ At("decide") \/ At("conclude")
    /\ stage = "email_discovery" /\ posting = "requires_contacts"
    /\ Settle

StartRound ==
    /\ At("decide") /\ stage = "email_discovery" /\ posting = "requires_contacts"
    /\ Actionable # {}
    /\ cy' = [cy EXCEPT !.pc = "round", !.todo = Actionable]
    /\ UNCHANGED <<stage, rows, budget, tries, history>>

\* run_email_discovery_for_contact begins for the next contact
StartContact(c) ==
    /\ At("round") /\ c \in cy.todo
    /\ cy' = [pc |-> "asking", todo |-> cy.todo \ {c}, c |-> c, i |-> 1, found |-> FALSE]
    /\ UNCHANGED <<stage, rows, budget, tries, history>>

Finder == Finders[cy.i]
Asking == At("asking") /\ cy.i <= Len(Finders)

\* A spent finder, or one that is cooling down, is passed over.
PassFinder ==
    /\ Asking /\ (Spent(cy.c, Finder) \/ cooling[Finder] # "none")
    /\ cy' = [cy EXCEPT !.i = @ + 1]
    /\ UNCHANGED <<stage, rows, budget, tries, history>>

\* discover_email and the transaction of its budget signal.  A finder that can
\* do nothing with the contact says no without a request.
Ask(kind, meter) ==
    /\ Asking /\ ~Spent(cy.c, Finder) /\ cooling[Finder] = "none"
    /\ Finder \in Eligible(cy.c) \/ (kind = "no" /\ ~meter)
    /\ meter => Finder \in Metered
    /\ heard' = Heard(cy.c, Finder, kind)
    /\ cooling' = Cooled(Finder, kind)
    /\ credits' = Credited(Finder, meter)
    /\ cy' = IF kind = "found" THEN [cy EXCEPT !.pc = "record", !.found = TRUE]
             ELSE [cy EXCEPT !.i = @ + 1]
    /\ UNCHANGED <<stage, rows, strikes, breaker, tries, searches, uncounted>>

FinderAnswers(meter) == (\E kind \in Answers : Ask(kind, meter)) /\ UNCHANGED troubles
FinderFails(meter) == (\E kind \in Failures : Ask(kind, meter)) /\ Trouble

\* The transaction at the end: the attempt, _apply_discovery_success or
\* _apply_discovery_failure, and the promotion of the posting.
RecordAttempt ==
    /\ At("record") \/ (At("asking") /\ cy.i > Len(Finders))
    /\ email' = [email EXCEPT ![cy.c] = cy.found]
    /\ link' = IF cy.found THEN link ELSE AfterFailure(cy.c)
    /\ posting' = Promoted(link', email')
    /\ cy' = [CyIdle EXCEPT !.pc = IF cy.todo = {} THEN "conclude" ELSE "round",
                            !.todo = cy.todo]
    /\ UNCHANGED <<stage, named, budget, tries, history>>

\* After a round without a pending contact, and none ready: nobody is left, and
\* complete_pipeline_run follows.
NothingPending ==
    /\ At("conclude") /\ posting = "requires_contacts" /\ Pending = {}
    /\ NobodyLeft(link)
    /\ posting' = "completed"
    /\ cy' = Goto("complete")
    /\ UNCHANGED <<stage, link, email, named, budget, tries, history>>

CompleteRun ==
    /\ At("complete")
    /\ Move("completed")
    /\ UNCHANGED <<rows, budget, history>>

\* A completed posting is past the boundary of this action: the prerequisite
\* check fails and the run is escalated.
BlockedRun ==
    /\ At("idle") /\ stage = "email_discovery" /\ posting = "completed"
    /\ Move("escalated")
    /\ UNCHANGED <<rows, budget, history>>

-----------------------------------------------------------------------------
\* The process dies; a request to Apollo may be out.
Die ==
    /\ ~At("idle") /\ Trouble
    /\ cy' = CyIdle
    /\ Lost
    /\ searches' = IF At("search") /\ breaker = "closed" THEN searches + 1 ELSE searches
    /\ UNCHANGED <<stage, rows, budget, tries>>

\* Another posting's discovery meets a failing provider.
FailsElsewhere(p, kind) ==
    /\ At("idle") /\ stage \in Working /\ Trouble
    /\ cooling[p] = "none"
    /\ p = Apollo => breaker = "closed"
    /\ IF p = Apollo THEN ApolloSignal(kind)
       ELSE cooling' = Cooled(p, kind) /\ UNCHANGED <<heard, credits, strikes, breaker>>
    /\ UNCHANGED <<stage, rows, tries, cy, searches, uncounted>>

\* Time passes between cycles: a quarter of an hour, an hour, a day.
Cool(lengths) == [p \in Providers |-> IF cooling[p] \in lengths THEN "none" ELSE cooling[p]]

TimeOnly ==
    /\ At("idle") /\ stage \in Working
    /\ UNCHANGED <<stage, rows, heard, credits, tries, cy, history>>

MinutesPass ==
    /\ TimeOnly
    /\ cooling' = Cool({"short"})
    /\ strikes' \in 0 .. strikes
    /\ UNCHANGED breaker

HourPasses ==
    /\ TimeOnly
    /\ cooling' = Cool({"short"})
    /\ strikes' = 0
    /\ breaker' = IF breaker = "hour" THEN "closed" ELSE breaker

DayPasses ==
    /\ TimeOnly
    /\ cooling' = Cool({"short", "long"})
    /\ strikes' = 0
    /\ breaker' = "closed"

PeopleSearch ==
    \/ FoundReady \/ StopRunaway \/ StartSearch \/ Paused
    \/ \E until \in {"hour", "day"} : UsageTrips(until)
    \/ \E kind \in Failures : ApolloFails(kind)
    \/ ApolloRefuses
    \/ \E new, faces, usable \in SUBSET Contacts : SearchReturns(new, faces, usable)
    \/ \E c \in Contacts, got \in {"address", "name", "nothing"} : Enrich(c, got)
    \/ Enriched \/ SearchDecided

Discovery ==
    \/ StartDiscovery \/ Advance \/ WaitForProviders \/ SettleFrontier \/ StartRound
    \/ \E c \in Contacts : StartContact(c)
    \/ PassFinder
    \/ \E meter \in BOOLEAN : FinderAnswers(meter) \/ FinderFails(meter)
    \/ RecordAttempt \/ NothingPending \/ CompleteRun \/ BlockedRun

Environment ==
    \/ Die
    \/ \E p \in Providers, kind \in Failures : FailsElsewhere(p, kind)
    \/ MinutesPass \/ HourPasses \/ DayPasses

Next == PeopleSearch \/ Discovery \/ Environment

Spec == Init /\ [][Next]_vars

\* The scheduler takes the run up again and again, and time passes whatever the
\* cycles do: a day after day, however often a cycle is under way.
FairSpec ==
    /\ Spec
    /\ WF_vars(PeopleSearch) /\ WF_vars(Discovery)
    /\ SF_vars(DayPasses)

-----------------------------------------------------------------------------
TypeOK ==
    /\ stage \in Working \cup {"sending", "completed", "escalated"}
    /\ posting \in {"requires_contacts", "ready_for_outreach", "completed"}
    /\ link \in [Contacts -> Links] /\ email \in [Contacts -> BOOLEAN]
    /\ named \subseteq Contacts
    /\ heard \in [Contacts -> [Asked -> [kind : Answers \cup Failures \cup {"unheard"},
                                         times : 0 .. Repeats]]]
    /\ credits \subseteq Metered
    /\ cooling \in [Providers -> {"none", "short", "long"}]
    /\ strikes \in 0 .. Strikes - 1
    /\ breaker \in {"closed", "hour", "day"}
    /\ tries \in 0 .. Retries + 1
    /\ cy \in [pc : {"idle", "search", "enrich", "decide", "round", "asking", "record",
                     "conclude", "complete"},
               todo : SUBSET Contacts, c : Contacts \cup {"none"},
               i : 1 .. Len(Finders) + 1, found : BOOLEAN]
    /\ searches \in Nat /\ uncounted \in Nat /\ troubles \in 0 .. MaxTroubles

\* A contact is given up only when each finder that can look for it has said no
\* or has failed the same way the whole number of times in a row: never because
\* providers are resting, and never after an address was found and lost again
\* (FR-ED-09A, FR-ED-09C1; classify_role_targeted_email_discovery_contact_state).
ExhaustedForCause ==
    [][\A c \in Contacts :
         link'[c] = "exhausted" /\ link[c] # "exhausted" =>
            \A p \in Eligible(c) :
               \/ heard[c][p].kind = "no"
               \/ heard[c][p].kind \in {"error", "limited"} /\ heard[c][p].times = Repeats]_vars

\* A run reaches the sending stage only with a posting marked ready and somebody
\* to write to, although posting, contacts and run change in separate
\* transactions and the process may die between them.
SendsOnlyReady ==
    stage = "sending" => posting = "ready_for_outreach" /\ Ready(link, email)

\* A run is completed here only when no contact is left to be asked for
\* (_complete_exhausted_email_discovery, FR-ED-09C2).
NobodyDropped == stage = "completed" \/ posting = "completed" => Selected(link) = {}

\* FR-ED-00B4E: one visit of people_search sends Apollo the threshold of
\* searches, and one more for each cycle that ended without a result.
SearchBounded == searches <= Retries + uncounted

\* FR-ED-09C3: once the providers have stopped failing, the run leaves people
\* search and e-mail discovery: sending, completed or escalated.
DiscoverySettles == (stage \in Working) ~> (stage \notin Working)

=============================================================================
