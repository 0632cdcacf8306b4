------------------------- MODULE EmailDiscoveryProofs -------------------------
(***************************************************************************)
(* Proofs about EmailDiscovery, for any contacts, finders and thresholds.  *)
(*                                                                         *)
(* The argument: each step of a cycle belongs to one stage of the run and  *)
(* to one status of the posting (StepInv); whoever a round still has to    *)
(* ask for has no address and is selected (PersonInv), so that recording   *)
(* an attempt takes nobody's address away; so a ready posting keeps        *)
(* somebody to write to and a completed one nobody (OutcomeInv).           *)
(* SearchInv counts the searches against the cycles that ended.            *)
(***************************************************************************)
EXTENDS EmailDiscovery, TLAPS

(* What each variable the invariants speak of is, one name for each type.  *)
Event == [kind : Answers \cup Failures \cup {"unheard"}, times : 0 .. Repeats]
CycleType ==
    [pc : {"idle", "search", "enrich", "decide", "round", "asking", "record",
           "conclude", "complete"},
     todo : SUBSET Contacts, c : Contacts \cup {"none"},
     i : 1 .. Len(Finders) + 1, found : BOOLEAN]

-----------------------------------------------------------------------------
(***************************************************************************)
(* Lemmas about the operators.                                             *)
(***************************************************************************)
LEMMA FindersFacts ==
    /\ Len(Finders) \in Nat
    /\ \A i \in 1 .. Len(Finders) : Finders[i] \in Asked
    /\ Asked \subseteq Providers /\ Apollo \in Providers
  BY ProvidersAssumption DEF Asked, Providers

(* The finder a cycle is about to ask.                                     *)
LEMMA FinderAsked == ASSUME TypeOK, Asking PROVE Finder \in Asked
<1>1. cy.i \in 1 .. Len(Finders)
    BY FindersFacts DEF TypeOK, Asking
<1> QED
    BY <1>1, FindersFacts DEF Finder

(* _resolve_provider_cooldown_until and what is kept of it.                *)
LEMMA CooledType ==
  ASSUME TypeOK, NEW p \in Providers, NEW kind
  PROVE  Cooled(p, kind) \in [Providers -> {"none", "short", "long"}]
  BY DEF TypeOK, Cooled, Rest

(* The event of an answer: the run of equal outcomes is capped at Repeats. *)
LEMMA HeardType ==
  ASSUME TypeOK, NEW p \in Asked, NEW c \in Contacts \cup {"none"},
         NEW kind \in Answers \cup Failures
  PROVE  Heard(c, p, kind) \in [Contacts -> [Asked -> Event]]
<1> USE BoundsAssumption
<1>0. heard \in [Contacts -> [Asked -> Event]]
    BY DEF TypeOK, Event
<1>1. CASE c \notin Contacts
  <2>1. Heard(c, p, kind) = heard
      BY <1>0, <1>1 DEF Heard
  <2> QED
      BY <1>0, <2>1
<1>2. CASE c \in Contacts
  <2> DEFINE old == heard[c][p]
             times == IF old.kind # kind THEN 1
                      ELSE IF old.times < Repeats THEN old.times + 1 ELSE old.times
             new == [kind |-> kind, times |-> times]
  <2>1. old \in Event
      BY <1>0, <1>2
  <2>2. times \in 0 .. Repeats
      BY <2>1 DEF Event
  <2>3. new \in Event
      BY <2>2 DEF Event
  <2>4. Heard(c, p, kind) = [heard EXCEPT ![c] = [heard[c] EXCEPT ![p] = new]]
      BY <1>0, <1>2 DEF Heard
  <2>5. [heard[c] EXCEPT ![p] = new] \in [Asked -> Event]
      BY <1>0, <1>2, <2>3
  <2> QED
      BY <1>0, <2>4, <2>5
<1> QED
    BY <1>1, <1>2

(* A signal of Apollo leaves the finders alone and counts below the        *)
(* threshold, at which the breaker opens.                                  *)
LEMMA ApolloSignalType ==
  ASSUME TypeOK, NEW kind, ApolloSignal(kind)
  PROVE  /\ cooling' \in [Providers -> {"none", "short", "long"}]
         /\ strikes' \in 0 .. Strikes - 1
         /\ breaker' \in {"closed", "hour", "day"}
         /\ UNCHANGED <<heard, credits>>
<1> USE BoundsAssumption
<1>1. cooling' \in [Providers -> {"none", "short", "long"}]
    BY FindersFacts, CooledType DEF ApolloSignal
<1>2. UNCHANGED <<heard, credits>>
    BY DEF ApolloSignal
<1>3. CASE kind = "error" /\ strikes + 1 >= Strikes
    BY <1>1, <1>2, <1>3 DEF ApolloSignal, Trip
<1>4. CASE ~(kind = "error" /\ strikes + 1 >= Strikes)
    BY <1>1, <1>2, <1>4 DEF ApolloSignal, TypeOK
<1> QED
    BY <1>3, <1>4

-----------------------------------------------------------------------------
(***************************************************************************)
(* Type correctness.                                                       *)
(***************************************************************************)
LEMMA IdleType == CyIdle \in CycleType /\ CyIdle.pc = "idle"
  BY FindersFacts DEF CyIdle, CycleType

LEMMA TypeInit == Init => TypeOK
<1> SUFFICES ASSUME Init PROVE TypeOK
    OBVIOUS
<1> USE BoundsAssumption, FindersFacts DEF Init
<1>1. CyIdle \in CycleType
    BY IdleType
<1>2. link \in [Contacts -> Links]
    BY DEF Links
<1> QED
    BY <1>1, <1>2 DEF TypeOK, CycleType, Working, Answers, Failures

(* A cycle at people_search started below the retry limit, and its end     *)
(* counts one try: at most the limit, and one more for the cycle that      *)
(* escalates the run.                                                      *)
TriesInv ==
    stage = "people_search" =>
        /\ tries <= Retries
        /\ cy.pc # "idle" => tries < Retries

LEMMA TriesInit == Init => TriesInv
  BY BoundsAssumption DEF Init, TriesInv, CyIdle

Stages == Working \cup {"sending", "completed", "escalated"}

(* The end of a cycle, with the run where it is or moved on.               *)
LEMMA EndType ==
  ASSUME TypeOK, TriesInv, cy.pc # "idle", NEW to \in Stages \ {"people_search"},
         Stay \/ Move(to)
  PROVE  /\ cy' \in CycleType /\ cy'.pc = "idle"
         /\ tries' \in 0 .. Retries + 1
         /\ stage' \in Stages
         /\ stage' = "people_search" => tries' <= Retries
<1> USE BoundsAssumption, FindersFacts
<1>1. cy' \in CycleType /\ cy'.pc = "idle"
    BY IdleType DEF Stay, Move
<1>2. stage \in Stages /\ tries \in 0 .. Retries + 1
    BY DEF TypeOK, Stages
<1>3. stage' \in Stages /\ (stage' = "people_search" => stage = "people_search")
    BY <1>2 DEF Stay, Move
<1>4. tries' = IF stage = "people_search" THEN tries + 1 ELSE tries
    BY DEF Stay, Move
<1> QED
    BY <1>1, <1>2, <1>3, <1>4 DEF TriesInv

LEMMA TypeStep == TypeOK /\ TriesInv /\ [Next]_vars => TypeOK' /\ TriesInv'
<1> SUFFICES ASSUME TypeOK, TriesInv, [Next]_vars PROVE TypeOK' /\ TriesInv'
    OBVIOUS
<1> USE BoundsAssumption, FindersFacts
(* The rows a step of people search or of a discovery can rewrite.         *)
<1> DEFINE RowsOK == /\ posting \in {"requires_contacts", "ready_for_outreach", "completed"}
                     /\ link \in [Contacts -> Links] /\ email \in [Contacts -> BOOLEAN]
                     /\ named \subseteq Contacts
           BudgetOK == /\ heard \in [Contacts -> [Asked -> Event]] /\ credits \subseteq Metered
                       /\ cooling \in [Providers -> {"none", "short", "long"}]
                       /\ strikes \in 0 .. Strikes - 1
                       /\ breaker \in {"closed", "hour", "day"}
           CycleOK == /\ stage \in Stages /\ cy \in CycleType
                      /\ tries \in 0 .. Retries + 1
           HistoryOK == searches \in Nat /\ uncounted \in Nat /\ troubles \in 0 .. MaxTroubles
<1>a. TypeOK <=> RowsOK /\ BudgetOK /\ CycleOK /\ HistoryOK
    BY DEF TypeOK, Event, CycleType, Stages
<1>b. TypeOK' <=> RowsOK' /\ BudgetOK' /\ CycleOK' /\ HistoryOK'
    BY DEF TypeOK, Event, CycleType, Stages
<1>c. RowsOK /\ UNCHANGED rows => RowsOK'
    BY DEF rows
<1>d. BudgetOK /\ UNCHANGED budget => BudgetOK'
    BY DEF budget
<1>e. HistoryOK /\ UNCHANGED history => HistoryOK'
    BY DEF history
<1>f. HistoryOK /\ Trouble /\ uncounted' \in Nat /\ searches' \in Nat => HistoryOK'
    BY DEF Trouble
<1>g. Lost => uncounted' \in Nat
    BY <1>a DEF Lost
<1>h. /\ \A pc \in {"search", "decide", "complete"} : Goto(pc) \in CycleType /\ Goto(pc).pc = pc
    BY <1>a DEF Goto, CycleType
<1>i. Promoted(link', email') \in {"requires_contacts", "ready_for_outreach", "completed"}
    BY <1>a DEF Promoted
<1>j. Promoted(link, email) \in {"requires_contacts", "ready_for_outreach", "completed"}
    BY <1>a DEF Promoted
<1>k. \A c \in Contacts : AfterFailure(c) \in [Contacts -> Links]
    BY <1>a DEF AfterFailure, Links
<1>z. CyIdle \in CycleType /\ CyIdle.pc = "idle"
    BY IdleType
<1>l. TypeOK' /\ TriesInv' <=>
        RowsOK' /\ BudgetOK' /\ CycleOK' /\ HistoryOK' /\ TriesInv'
    BY <1>b
(* A step inside a cycle: the run, its tries and the cycle's being under   *)
(* way are as they were.                                                   *)
<1>m. cy.pc # "idle" /\ cy' \in CycleType /\ UNCHANGED <<stage, tries>> =>
        CycleOK' /\ TriesInv'
    BY <1>a DEF TriesInv
(* The end of a cycle.                                                     *)
<1>n. \A to \in Stages \ {"people_search"} :
        cy.pc # "idle" /\ (Stay \/ Move(to)) => CycleOK' /\ TriesInv'
    BY EndType DEF TriesInv
(* A cycle given up.                                                       *)
<1>o. cy' = CyIdle /\ UNCHANGED <<stage, tries>> => CycleOK' /\ TriesInv'
    BY <1>a, <1>z DEF TriesInv
<1>p. {"sending", "completed", "escalated", "email_discovery"} \subseteq Stages \ {"people_search"}
    BY DEF Stages, Working
<1>q. cy \in CycleType /\ stage \in Stages /\ tries \in 0 .. Retries + 1
    BY <1>a
<1>r. /\ posting \in {"requires_contacts", "ready_for_outreach", "completed"}
      /\ link \in [Contacts -> Links] /\ email \in [Contacts -> BOOLEAN]
      /\ named \subseteq Contacts
    BY <1>a
<1>s. /\ heard \in [Contacts -> [Asked -> Event]] /\ credits \subseteq Metered
      /\ cooling \in [Providers -> {"none", "short", "long"}]
      /\ strikes \in 0 .. Strikes - 1
      /\ breaker \in {"closed", "hour", "day"}
    BY <1>a
<1>t. searches \in Nat /\ uncounted \in Nat
    BY <1>a
<1>u. \A pc \in {"search", "enrich", "decide", "round", "asking", "record", "conclude", "complete"},
         todo \in SUBSET Contacts :
           [cy EXCEPT !.pc = pc, !.todo = todo] \in CycleType
    BY <1>q DEF CycleType
<1>1. CASE FoundReady
  <2>1. CycleOK' /\ TriesInv'
      BY <1>1, <1>p, <1>q, <1>z DEF FoundReady, Move, Runaway, TriesInv, At
  <2> QED
      BY <1>1, <2>1, <1>a, <1>c, <1>d, <1>e, <1>l DEF FoundReady
<1>2. CASE StopRunaway
  <2>1. CycleOK' /\ TriesInv'
      BY <1>2, <1>p, <1>q, <1>z DEF StopRunaway, Move, TriesInv, At
  <2> QED
      BY <1>2, <2>1, <1>a, <1>c, <1>d, <1>e, <1>l DEF StopRunaway
<1>3. CASE StartSearch
  <2>1. CycleOK' /\ TriesInv'
      BY <1>3, <1>q, <1>h DEF StartSearch, TriesInv, Runaway
  <2>2. RowsOK'
      BY <1>3, <1>r DEF StartSearch, Links
  <2> QED
      BY <1>3, <2>1, <2>2, <1>a, <1>d, <1>e, <1>l DEF StartSearch
<1>4. CASE Paused
  <2>1. CycleOK' /\ TriesInv'
      BY <1>4, <1>n, <1>p DEF Paused, At
  <2>2. BudgetOK'
      BY <1>4, <1>s, ApolloSignalType DEF Paused
  <2> QED
      BY <1>4, <2>1, <2>2, <1>a, <1>c, <1>e, <1>l DEF Paused
<1>5. ASSUME NEW until \in {"hour", "day"}, UsageTrips(until) PROVE TypeOK' /\ TriesInv'
  <2>1. BudgetOK'
      BY <1>5, <1>s DEF UsageTrips, Trip
  <2>2. CycleOK' /\ TriesInv'
      BY <1>5, <1>q DEF UsageTrips, TriesInv
  <2>3. HistoryOK'
      BY <1>5, <1>a, <1>f, <1>t DEF UsageTrips
  <2> QED
      BY <1>5, <2>1, <2>2, <2>3, <1>a, <1>c, <1>l DEF UsageTrips
<1>6. ASSUME NEW kind \in Failures, ApolloFails(kind) PROVE TypeOK' /\ TriesInv'
  <2>1. CycleOK' /\ TriesInv'
      BY <1>6, <1>n, <1>p DEF ApolloFails, At
  <2>2. BudgetOK'
      BY <1>6, <1>s, ApolloSignalType DEF ApolloFails
  <2>3. HistoryOK'
      BY <1>6, <1>a, <1>f, <1>t DEF ApolloFails, SearchSent
  <2> QED
      BY <1>6, <2>1, <2>2, <2>3, <1>a, <1>c, <1>l DEF ApolloFails
<1>7. CASE ApolloRefuses
  <2>1. CycleOK' /\ TriesInv'
      BY <1>7, <1>o DEF ApolloRefuses
  <2>2. BudgetOK'
      BY <1>7, <1>s, ApolloSignalType DEF ApolloRefuses
  <2>3. HistoryOK'
      BY <1>7, <1>a, <1>f, <1>g, <1>t DEF ApolloRefuses, SearchSent
  <2> QED
      BY <1>7, <2>1, <2>2, <2>3, <1>a, <1>c, <1>l DEF ApolloRefuses
<1>8. ASSUME NEW new \in SUBSET Contacts, NEW faces \in SUBSET Contacts,
             NEW usable \in SUBSET Contacts, SearchReturns(new, faces, usable)
      PROVE  TypeOK' /\ TriesInv'
  <2>1. CycleOK' /\ TriesInv'
      BY <1>8, <1>m, <1>u DEF SearchReturns, Shortlisted, At
  <2>2. RowsOK'
      BY <1>8, <1>r DEF SearchReturns, Materialized, Links
  <2>3. HistoryOK'
      BY <1>8, <1>a, <1>t DEF SearchReturns, SearchSent
  <2> QED
      BY <1>8, <2>1, <2>2, <2>3, <1>a, <1>d, <1>l DEF SearchReturns
<1>9. ASSUME NEW c \in Contacts, NEW got \in {"address", "name", "nothing"}, Enrich(c, got)
      PROVE  TypeOK' /\ TriesInv'
  <2>1. [cy EXCEPT !.todo = @ \ {c}] \in CycleType
      BY <1>q DEF CycleType
  <2>2. CycleOK' /\ TriesInv'
      BY <1>9, <1>m, <2>1 DEF Enrich, At
  <2>3. RowsOK'
      BY <1>9, <1>r DEF Enrich, Gained, Links
  <2> QED
      BY <1>9, <2>2, <2>3, <1>a, <1>d, <1>e, <1>l DEF Enrich
<1>10. CASE Enriched
  <2>1. CycleOK' /\ TriesInv'
      BY <1>10, <1>m, <1>h DEF Enriched, At
  <2>2. RowsOK'
      BY <1>10, <1>r, <1>j DEF Enriched
  <2> QED
      BY <1>10, <2>1, <2>2, <1>a, <1>d, <1>e, <1>l DEF Enriched
<1>11. CASE SearchDecided
  <2>1. CycleOK' /\ TriesInv'
      BY <1>11, <1>n, <1>p DEF SearchDecided, At
  <2> QED
      BY <1>11, <2>1, <1>a, <1>c, <1>d, <1>e, <1>l DEF SearchDecided
<1>12. CASE StartDiscovery
  <2>1. CycleOK' /\ TriesInv'
      BY <1>12, <1>q, <1>u, <1>h DEF StartDiscovery, TriesInv, Shortlisted
  <2>2. RowsOK'
      BY <1>12, <1>r, <1>j DEF StartDiscovery
  <2> QED
      BY <1>12, <2>1, <2>2, <1>a, <1>d, <1>e, <1>l DEF StartDiscovery
<1>13. CASE Advance
  <2>1. CycleOK' /\ TriesInv'
      BY <1>13, <1>n, <1>p DEF Advance, At
  <2> QED
      BY <1>13, <2>1, <1>a, <1>c, <1>d, <1>e, <1>l DEF Advance
<1>14. CASE WaitForProviders
  <2>1. CycleOK' /\ TriesInv'
      BY <1>14, <1>n, <1>p DEF WaitForProviders, At
  <2> QED
      BY <1>14, <2>1, <1>a, <1>c, <1>d, <1>e, <1>l DEF WaitForProviders
<1>15. CASE SettleFrontier
  <2>1. CycleOK' /\ TriesInv'
    <3>1. CASE NobodyLeft(link')
        BY <1>15, <3>1, <1>m, <1>h DEF SettleFrontier, Settle, CloseIf, At
    <3>2. CASE ~NobodyLeft(link')
        BY <1>15, <3>2, <1>n, <1>p DEF SettleFrontier, Settle, CloseIf, At
    <3> QED
        BY <3>1, <3>2
  <2>2. RowsOK'
      BY <1>15, <1>r DEF SettleFrontier, Settle, CloseIf, Links
  <2> QED
      BY <1>15, <2>1, <2>2, <1>a, <1>d, <1>e, <1>l DEF SettleFrontier, Settle
<1>16. CASE StartRound
  <2>1. CycleOK' /\ TriesInv'
      BY <1>16, <1>m, <1>u DEF StartRound, At, Actionable, Pending, Selected
  <2> QED
      BY <1>16, <2>1, <1>a, <1>c, <1>d, <1>e, <1>l DEF StartRound
<1>17. ASSUME NEW c \in Contacts, StartContact(c) PROVE TypeOK' /\ TriesInv'
  <2>1. [pc |-> "asking", todo |-> cy.todo \ {c}, c |-> c, i |-> 1, found |-> FALSE] \in CycleType
      BY <1>q DEF CycleType
  <2>2. CycleOK' /\ TriesInv'
      BY <1>17, <2>1, <1>m DEF StartContact, At
  <2> QED
      BY <1>17, <2>2, <1>a, <1>c, <1>d, <1>e, <1>l DEF StartContact
<1>v. Asking => [cy EXCEPT !.i = @ + 1] \in CycleType
  <2>1. \A i \in 1 .. Len(Finders) + 1 : [cy EXCEPT !.i = i] \in CycleType
      BY <1>q DEF CycleType
  <2>2. Asking => cy.i + 1 \in 1 .. Len(Finders) + 1
      BY <1>q, FindersFacts DEF Asking, CycleType
  <2> QED
      BY <2>1, <2>2
<1>w. Asking => [cy EXCEPT !.pc = "record", !.found = TRUE] \in CycleType
    BY <1>q DEF CycleType
<1>18. CASE PassFinder
  <2>1. CycleOK' /\ TriesInv'
      BY <1>18, <1>m, <1>v DEF PassFinder, Asking, At
  <2> QED
      BY <1>18, <2>1, <1>a, <1>c, <1>d, <1>e, <1>l DEF PassFinder
<1>19. ASSUME NEW meter \in BOOLEAN, NEW kind \in Answers \cup Failures, Ask(kind, meter)
       PROVE  RowsOK' /\ BudgetOK' /\ CycleOK' /\ TriesInv' /\ UNCHANGED <<searches, uncounted>>
  <2>1. CycleOK' /\ TriesInv'
      BY <1>19, <1>m, <1>v, <1>w DEF Ask, Asking, At
  <2>2. Finder \in Asked
      BY <1>19, FinderAsked DEF Ask
  <2>3. cy.c \in Contacts \cup {"none"}
      BY <1>q DEF CycleType
  <2>4. BudgetOK'
      BY <1>19, <1>s, <2>2, <2>3, HeardType, CooledType DEF Ask, Credited
  <2> QED
      BY <1>19, <2>1, <2>4, <1>a, <1>c DEF Ask
<1>20. ASSUME NEW meter \in BOOLEAN, FinderAnswers(meter) \/ FinderFails(meter)
       PROVE  TypeOK' /\ TriesInv'
  <2>1. RowsOK' /\ BudgetOK' /\ CycleOK' /\ TriesInv' /\ UNCHANGED <<searches, uncounted>>
      BY <1>19, <1>20 DEF FinderAnswers, FinderFails
  <2>2. HistoryOK'
      BY <1>20, <2>1, <1>a, <1>e, <1>f, <1>t DEF FinderAnswers, FinderFails, history
  <2> QED
      BY <2>1, <2>2, <1>l
<1>21. CASE RecordAttempt
  <2>1. \A pc \in {"conclude", "round"} :
           [CyIdle EXCEPT !.pc = pc, !.todo = cy.todo] \in CycleType
      BY <1>q, <1>z DEF CycleType
  <2>2. CycleOK' /\ TriesInv'
      BY <1>21, <2>1, <1>m DEF RecordAttempt, At
  <2>3. link' \in [Contacts -> Links]
      BY <1>21, <1>r DEF RecordAttempt, AfterFailure, Links
  <2>4. RowsOK'
      BY <1>21, <2>3, <1>q, <1>r, <1>i DEF RecordAttempt, CycleType
  <2> QED
      BY <1>21, <2>2, <2>4, <1>a, <1>d, <1>e, <1>l DEF RecordAttempt
<1>22. CASE NothingPending
  <2>1. CycleOK' /\ TriesInv'
      BY <1>22, <1>m, <1>h DEF NothingPending, At
  <2>2. RowsOK'
      BY <1>22, <1>r DEF NothingPending
  <2> QED
      BY <1>22, <2>1, <2>2, <1>a, <1>d, <1>e, <1>l DEF NothingPending
<1>23. CASE CompleteRun
  <2>1. CycleOK' /\ TriesInv'
      BY <1>23, <1>n, <1>p DEF CompleteRun, At
  <2> QED
      BY <1>23, <2>1, <1>a, <1>c, <1>d, <1>e, <1>l DEF CompleteRun
<1>24. CASE BlockedRun
  <2>1. CycleOK' /\ TriesInv'
      BY <1>24, <1>p, <1>q, <1>z DEF BlockedRun, Move, TriesInv, At
  <2> QED
      BY <1>24, <2>1, <1>a, <1>c, <1>d, <1>e, <1>l DEF BlockedRun
<1>25. CASE Die
  <2>1. CycleOK' /\ TriesInv'
      BY <1>25, <1>o DEF Die
  <2>2. HistoryOK'
      BY <1>25, <1>a, <1>f, <1>g, <1>t DEF Die
  <2> QED
      BY <1>25, <2>1, <2>2, <1>a, <1>c, <1>d, <1>l DEF Die
<1>26. ASSUME NEW p \in Providers, NEW kind \in Failures, FailsElsewhere(p, kind)
       PROVE  TypeOK' /\ TriesInv'
  <2>1. BudgetOK'
      BY <1>26, <1>s, ApolloSignalType, CooledType DEF FailsElsewhere
  <2>2. CycleOK' /\ TriesInv'
      BY <1>26, <1>q DEF FailsElsewhere, TriesInv
  <2>3. HistoryOK'
      BY <1>26, <1>a, <1>f, <1>t DEF FailsElsewhere
  <2> QED
      BY <1>26, <2>1, <2>2, <2>3, <1>a, <1>c, <1>l DEF FailsElsewhere
<1>27. CASE MinutesPass \/ HourPasses \/ DayPasses
  <2>1. BudgetOK'
      BY <1>27, <1>s DEF MinutesPass, HourPasses, DayPasses, TimeOnly, Cool
  <2>2. CycleOK' /\ TriesInv' /\ UNCHANGED <<rows, history>>
      BY <1>27, <1>q DEF MinutesPass, HourPasses, DayPasses, TimeOnly, TriesInv
  <2> QED
      BY <2>1, <2>2, <1>a, <1>c, <1>e, <1>l
<1>28. CASE UNCHANGED vars
  <2>1. CycleOK' /\ TriesInv'
      BY <1>28, <1>q DEF vars, TriesInv
  <2> QED
      BY <1>28, <2>1, <1>a, <1>c, <1>d, <1>e, <1>l DEF vars
<1> HIDE DEF RowsOK, BudgetOK, CycleOK, HistoryOK
<1> QED
    BY <1>1, <1>2, <1>3, <1>4, <1>5, <1>6, <1>7, <1>8, <1>9, <1>10, <1>11, <1>12, <1>13,
       <1>14, <1>15, <1>16, <1>17, <1>18, <1>20, <1>21, <1>22, <1>23, <1>24, <1>25,
       <1>26, <1>27, <1>28
    DEF Next, PeopleSearch, Discovery, Environment

(* TypeOK for any contacts, finders and thresholds.                        *)
THEOREM DiscoveryTypeCorrect == Spec => []TypeOK
<1>1. Init => TypeOK /\ TriesInv
    BY TypeInit, TriesInit
<1>2. (TypeOK /\ TriesInv) /\ [Next]_vars => (TypeOK /\ TriesInv)'
    BY TypeStep
<1> QED
    BY <1>1, <1>2, PTL DEF Spec

-----------------------------------------------------------------------------
(***************************************************************************)
(* SearchBounded.  A search that came back is counted when its cycle ends  *)
(* or dies (Sent); a cycle that begins one found fewer tries than the      *)
(* limit (TriesInv).                                                       *)
(***************************************************************************)
Sent == IF cy.pc \in {"enrich", "decide"} THEN 1 ELSE 0

SearchInv ==
    /\ cy.pc = "search" => stage = "people_search"
    /\ stage \notin Working => cy.pc = "idle"
    /\ searches <= uncounted + IF stage = "people_search" THEN tries + Sent ELSE Retries

LEMMA SearchStep ==
  TypeOK /\ TriesInv /\ SearchInv /\ [Next]_vars => SearchInv'
<1> SUFFICES ASSUME TypeOK, TriesInv, SearchInv, [Next]_vars PROVE SearchInv'
    OBVIOUS
<1> USE BoundsAssumption
<1>a. /\ tries \in Nat /\ searches \in Nat /\ uncounted \in Nat /\ Sent \in {0, 1}
      /\ cy \in CycleType /\ "people_search" \in Working /\ "email_discovery" \in Working
    BY DEF TypeOK, Sent, CycleType, Working
<1>b. CyIdle.pc = "idle"
    BY IdleType
(* A cycle that ends counts its try, moves the run on or is uncounted.     *)
<1>c. ASSUME NEW to \in Stages \ {"people_search"}, Stay \/ Move(to),
             stage \in Working, uncounted' = uncounted,
             searches' = searches
             \/ (cy.pc = "search" /\ searches' = searches + 1),
             cy.pc = "idle" /\ stage = "people_search" => Move(to)
      PROVE  SearchInv'
    BY <1>a, <1>b, <1>c DEF Stay, Move, SearchInv, TriesInv, Sent
<1>d. ASSUME cy' = CyIdle, Lost, UNCHANGED <<stage, tries>>,
             searches' = searches
             \/ (cy.pc = "search" /\ searches' = searches + 1)
      PROVE  SearchInv'
    BY <1>a, <1>b, <1>d DEF Lost, SearchInv, Sent, Working
<1>e. ASSUME cy.pc # "idle", cy'.pc \notin {"idle", "search"},
             UNCHANGED <<stage, tries, searches, uncounted>>,
             cy.pc \in {"enrich", "decide"} /\ stage = "people_search"
                 => cy'.pc \in {"enrich", "decide"}
      PROVE  SearchInv'
    BY <1>a, <1>e DEF SearchInv, Sent
<1>f. ASSUME UNCHANGED <<stage, tries, cy, searches, uncounted>> PROVE SearchInv'
    BY <1>f DEF SearchInv, Sent
<1>g. {"sending", "completed", "escalated", "email_discovery"} \subseteq Stages \ {"people_search"}
    BY DEF Stages, Working
<1>h. cy.pc # "idle" => stage \in Working
    BY DEF SearchInv
<1>1. CASE FoundReady
    BY <1>1, <1>c, <1>g DEF FoundReady, history, At
<1>2. CASE StopRunaway
    BY <1>2, <1>c, <1>g, <1>a DEF StopRunaway, history, At
<1>3. CASE StartSearch
  <2>1. cy'.pc = "search" /\ UNCHANGED <<stage, tries, searches, uncounted>>
        /\ cy.pc = "idle" /\ stage = "people_search"
      BY <1>3, <1>a DEF StartSearch, Goto, CycleType, history, At
  <2> QED
      BY <2>1, <1>a DEF SearchInv, Sent
<1>4. CASE Paused
    BY <1>4, <1>c, <1>g, <1>h DEF Paused, history, At
<1>5. ASSUME NEW until \in {"hour", "day"}, UsageTrips(until) PROVE SearchInv'
    BY <1>5, <1>f DEF UsageTrips
<1>6. ASSUME NEW kind \in Failures, ApolloFails(kind) PROVE SearchInv'
    BY <1>6, <1>c, <1>g, <1>h DEF ApolloFails, SearchSent, At
<1>7. CASE ApolloRefuses
    BY <1>7, <1>d DEF ApolloRefuses, SearchSent, At
<1>8. ASSUME NEW new \in SUBSET Contacts, NEW faces \in SUBSET Contacts,
             NEW usable \in SUBSET Contacts, SearchReturns(new, faces, usable)
      PROVE  SearchInv'
  <2>1. cy'.pc = "enrich"
      BY <1>8, <1>a DEF SearchReturns, CycleType
  <2>2. /\ cy.pc = "search" /\ searches' = searches + 1
        /\ UNCHANGED <<stage, tries, uncounted>>
      BY <1>8 DEF SearchReturns, SearchSent, At
  <2> QED
      BY <1>a, <2>1, <2>2 DEF SearchInv, Sent
<1>9. ASSUME NEW c \in Contacts, NEW got \in {"address", "name", "nothing"}, Enrich(c, got)
      PROVE  SearchInv'
  <2>1. cy'.pc = "enrich"
      BY <1>9, <1>a DEF Enrich, CycleType, At
  <2> QED
      BY <1>9, <2>1, <1>e DEF Enrich, history, At
<1>10. CASE Enriched
  <2>1. cy'.pc = "decide"
      BY <1>10, <1>a DEF Enriched, CycleType, Goto
  <2> QED
      BY <1>10, <2>1, <1>e DEF Enriched, history, At
<1>11. CASE SearchDecided
    BY <1>11, <1>c, <1>g, <1>h, <1>a DEF SearchDecided, history, At
<1>12. CASE StartDiscovery
  <2>1. cy'.pc \in {"decide", "enrich"}
      BY <1>12, <1>a DEF StartDiscovery, CycleType, Goto
  <2>2. stage = "email_discovery" /\ UNCHANGED <<stage, tries, searches, uncounted>>
      BY <1>12 DEF StartDiscovery, history
  <2> QED
      BY <1>a, <2>1, <2>2 DEF SearchInv
<1>13. CASE Advance
    BY <1>13, <1>c, <1>g, <1>a DEF Advance, history, At
<1>14. CASE WaitForProviders
    BY <1>14, <1>c, <1>g, <1>a DEF WaitForProviders, history, At
<1>15. CASE SettleFrontier
  <2>0. stage = "email_discovery" /\ cy.pc # "idle" /\ UNCHANGED <<searches, uncounted>>
      BY <1>15 DEF SettleFrontier, Settle, At, history
  <2>1. CASE NobodyLeft(link')
    <3>1. cy'.pc = "complete" /\ UNCHANGED <<stage, tries>>
        BY <1>15, <2>1, <1>a DEF SettleFrontier, Settle, CloseIf, Goto, CycleType
    <3> QED
        BY <2>0, <3>1, <1>e
  <2>2. CASE ~NobodyLeft(link')
      BY <1>15, <2>0, <2>2, <1>c, <1>g, <1>a DEF SettleFrontier, Settle, CloseIf
  <2> QED
      BY <2>1, <2>2
<1>16. CASE StartRound
  <2>1. cy'.pc = "round"
      BY <1>16, <1>a DEF StartRound, CycleType
  <2> QED
      BY <1>16, <2>1, <1>e DEF StartRound, history, At
<1>17. ASSUME NEW c \in Contacts, StartContact(c) PROVE SearchInv'
    BY <1>17, <1>e DEF StartContact, history, At
<1>18. CASE PassFinder
  <2>1. cy'.pc = "asking"
      BY <1>18, <1>a DEF PassFinder, CycleType, Asking, At
  <2> QED
      BY <1>18, <2>1, <1>e DEF PassFinder, Asking, history, At
<1>19. ASSUME NEW meter \in BOOLEAN, NEW kind, Ask(kind, meter) PROVE SearchInv'
  <2>1. cy'.pc \in {"asking", "record"}
      BY <1>19, <1>a DEF Ask, CycleType, Asking, At
  <2> QED
      BY <1>19, <2>1, <1>e DEF Ask, Asking, At
<1>20. ASSUME NEW meter \in BOOLEAN, FinderAnswers(meter) \/ FinderFails(meter)
       PROVE  SearchInv'
    BY <1>19, <1>20 DEF FinderAnswers, FinderFails
<1>21. CASE RecordAttempt
  <2>1. cy'.pc \in {"conclude", "round"}
      BY <1>21, IdleType DEF RecordAttempt, CycleType
  <2> QED
      BY <1>21, <2>1, <1>e DEF RecordAttempt, history, At
<1>22. CASE NothingPending
  <2>1. cy'.pc = "complete"
      BY <1>22, <1>a DEF NothingPending, CycleType, Goto
  <2> QED
      BY <1>22, <2>1, <1>e DEF NothingPending, history, At
<1>23. CASE CompleteRun
    BY <1>23, <1>c, <1>g, <1>h DEF CompleteRun, history, At
<1>24. CASE BlockedRun
    BY <1>24, <1>c, <1>g, <1>a DEF BlockedRun, history, At
<1>25. CASE Die
    BY <1>25, <1>d DEF Die, At
<1>26. ASSUME NEW p \in Providers, NEW kind \in Failures, FailsElsewhere(p, kind)
       PROVE  SearchInv'
    BY <1>26, <1>f DEF FailsElsewhere
<1>27. CASE MinutesPass \/ HourPasses \/ DayPasses
    BY <1>27, <1>f DEF MinutesPass, HourPasses, DayPasses, TimeOnly, history
<1>28. CASE UNCHANGED vars
    BY <1>28, <1>f DEF vars, history
<1> QED
    BY <1>1, <1>2, <1>3, <1>4, <1>5, <1>6, <1>7, <1>8, <1>9, <1>10, <1>11, <1>12, <1>13,
       <1>14, <1>15, <1>16, <1>17, <1>18, <1>20, <1>21, <1>22, <1>23, <1>24, <1>25,
       <1>26, <1>27, <1>28
    DEF Next, PeopleSearch, Discovery, Environment

(* SearchBounded for any thresholds: one visit of people_search sends      *)
(* Apollo the retry limit of searches, and one more for each cycle that    *)
(* ended without a result, whatever failed or died.                        *)
THEOREM SearchesBounded == Spec => []SearchBounded
<1>1. Init => SearchInv
    BY DEF Init, SearchInv, CyIdle, Sent, Working
<1>2. TypeOK /\ TriesInv /\ SearchInv => SearchBounded
  <2> SUFFICES ASSUME TypeOK, TriesInv, SearchInv PROVE SearchBounded
      OBVIOUS
  <2>1. tries \in Nat /\ Retries \in Nat /\ searches \in Nat /\ uncounted \in Nat
      BY BoundsAssumption DEF TypeOK
  <2>2. Sent \in {0, 1} /\ (Sent = 1 => cy.pc # "idle")
      BY DEF Sent
  <2> QED
      BY <2>1, <2>2 DEF TriesInv, SearchInv, SearchBounded
<1>3. Init => TypeOK /\ TriesInv
    BY TypeInit, TriesInit
<1> QED
    BY <1>1, <1>2, <1>3, TypeStep, SearchStep, PTL DEF Spec

-----------------------------------------------------------------------------
(***************************************************************************)
(* SendsOnlyReady and NobodyDropped.                                       *)
(***************************************************************************)
StepInv ==
    /\ cy.pc \in {"round", "asking", "record", "conclude", "complete"} =>
           stage = "email_discovery"
    /\ cy.pc \in {"search", "enrich"} => posting = "requires_contacts"
    /\ cy.pc \in {"round", "asking", "record"} => posting # "completed"
    /\ cy.pc = "complete" => posting = "completed"
    /\ stage \notin Working => cy.pc = "idle"

PersonInv ==
    /\ cy.pc \in {"round", "asking", "record"} => cy.todo \subseteq Pending
    /\ cy.pc \in {"asking", "record"} => cy.c \in Pending \ cy.todo

OutcomeInv ==
    /\ posting = "ready_for_outreach" => Ready(link, email)
    /\ posting = "completed" => NobodyLeft(link)
    /\ stage = "sending" => posting = "ready_for_outreach"
    /\ stage = "completed" => posting = "completed"

DiscoveryInv == StepInv /\ PersonInv /\ OutcomeInv

(* A promotion leaves the posting ready only with somebody to write to.    *)
LEMMA PromotedFacts ==
  ASSUME NEW l, NEW e, TypeOK
  PROVE  /\ Promoted(l, e) = "ready_for_outreach" =>
                posting = "ready_for_outreach" \/ Ready(l, e)
         /\ Promoted(l, e) = "completed" <=> posting = "completed"
         /\ posting = "ready_for_outreach" => Promoted(l, e) = "ready_for_outreach"
  BY DEF Promoted, TypeOK

LEMMA DiscoveryStep ==
  TypeOK /\ DiscoveryInv /\ [Next]_vars => DiscoveryInv'
<1> SUFFICES ASSUME TypeOK, DiscoveryInv, [Next]_vars PROVE DiscoveryInv'
    OBVIOUS
<1> USE DEF DiscoveryInv
<1>a. /\ cy \in CycleType /\ "people_search" \in Working /\ "email_discovery" \in Working
      /\ posting \in {"requires_contacts", "ready_for_outreach", "completed"}
      /\ link \in [Contacts -> Links] /\ email \in [Contacts -> BOOLEAN]
      /\ Working \cap {"sending", "completed", "escalated"} = {}
    BY DEF TypeOK, CycleType, Working
<1>b. CyIdle.pc = "idle"
    BY IdleType
(* The rows stay as they are: the run alone moves.                         *)
<1>c. ASSUME UNCHANGED rows, cy'.pc = "idle",
             stage' = "sending" => posting = "ready_for_outreach",
             stage' = "completed" => posting = "completed"
      PROVE  DiscoveryInv'
    BY <1>c DEF rows, StepInv, PersonInv, OutcomeInv, Ready, Selected, NobodyLeft
<1>d. ASSUME UNCHANGED <<rows, stage, cy>> PROVE DiscoveryInv'
    BY <1>d DEF rows, StepInv, PersonInv, OutcomeInv, Ready, Selected, NobodyLeft, Pending
(* Outside rounds the rows of people are rewritten only before the posting *)
(* is ready or completed.                                                  *)
<1>e. ASSUME posting' = "requires_contacts", stage' = stage, stage \in Working,
             cy'.pc \in {"search", "enrich", "decide", "idle"}
      PROVE  DiscoveryInv'
    BY <1>e, <1>a DEF StepInv, PersonInv, OutcomeInv
<1>f. ASSUME UNCHANGED <<rows, stage>>, cy'.pc = "decide", cy.pc # "idle" PROVE DiscoveryInv'
    BY <1>f DEF rows, StepInv, PersonInv, OutcomeInv, Ready, Selected, NobodyLeft
(* The end of a cycle where it is.                                         *)
<1>g. ASSUME UNCHANGED <<rows, stage>>, cy' = CyIdle PROVE DiscoveryInv'
    BY <1>b, <1>c, <1>g DEF OutcomeInv
<1>1. CASE FoundReady
    BY <1>1, <1>b, <1>c DEF FoundReady, Move
<1>2. CASE StopRunaway
    BY <1>2, <1>b, <1>c DEF StopRunaway, Move
<1>3. CASE StartSearch
  <2>1. cy'.pc = "search"
      BY <1>3, <1>a DEF StartSearch, Goto, CycleType
  <2> QED
      BY <1>3, <2>1, <1>a, <1>e DEF StartSearch
<1>4. CASE Paused
    BY <1>4, <1>g DEF Paused, Stay
<1>5. ASSUME NEW until \in {"hour", "day"}, UsageTrips(until) PROVE DiscoveryInv'
    BY <1>5, <1>d DEF UsageTrips
<1>6. ASSUME NEW kind \in Failures, ApolloFails(kind) PROVE DiscoveryInv'
    BY <1>6, <1>g DEF ApolloFails, Stay
<1>7. CASE ApolloRefuses
    BY <1>7, <1>g DEF ApolloRefuses
<1>8. ASSUME NEW new \in SUBSET Contacts, NEW faces \in SUBSET Contacts,
             NEW usable \in SUBSET Contacts, SearchReturns(new, faces, usable)
      PROVE  DiscoveryInv'
  <2>1. cy'.pc = "enrich"
      BY <1>8, <1>a DEF SearchReturns, CycleType
  <2>2. posting = "requires_contacts" /\ stage \in Working
      BY <1>8 DEF SearchReturns, StepInv, At
  <2> QED
      BY <1>8, <2>1, <2>2, <1>e DEF SearchReturns
<1>9. ASSUME NEW c \in Contacts, NEW got \in {"address", "name", "nothing"}, Enrich(c, got)
      PROVE  DiscoveryInv'
  <2>1. cy'.pc = "enrich"
      BY <1>9, <1>a DEF Enrich, CycleType, At
  <2>2. posting = "requires_contacts" /\ stage \in Working
      BY <1>9 DEF Enrich, StepInv, At
  <2> QED
      BY <1>9, <2>1, <2>2, <1>e DEF Enrich
<1>10. CASE Enriched
  <2>1. cy'.pc = "decide"
      BY <1>10, <1>a DEF Enriched, CycleType, Goto
  <2>2. posting = "requires_contacts" /\ stage \in Working
      BY <1>10 DEF Enriched, StepInv, At
  <2>3. posting' = "ready_for_outreach" => Ready(link', email')
      BY <1>10, <2>2 DEF Enriched, Promoted, Ready, Selected
  <2>4. posting' # "completed"
      BY <1>10, <2>2, PromotedFacts DEF Enriched
  <2> QED
      BY <1>10, <2>1, <2>2, <2>3, <2>4, <1>a DEF Enriched, StepInv, PersonInv, OutcomeInv
<1>11. CASE SearchDecided
    BY <1>11, <1>b, <1>c DEF SearchDecided, Move
<1>12. CASE StartDiscovery
  <2>1. posting' = "ready_for_outreach" => Ready(link', email')
      BY <1>12 DEF StartDiscovery, Promoted, Ready, Selected
  <2>2. posting' \in {"ready_for_outreach", "requires_contacts"}
      BY <1>12 DEF StartDiscovery, Promoted
  <2>3. cy'.pc = IF posting' = "ready_for_outreach" THEN "decide" ELSE "enrich"
      BY <1>12, <1>a DEF StartDiscovery, CycleType, Goto
  <2>4. stage' = "email_discovery"
      BY <1>12 DEF StartDiscovery
  <2> QED
      BY <2>1, <2>2, <2>3, <2>4, <1>a DEF StepInv, PersonInv, OutcomeInv
<1>13. CASE Advance
    BY <1>13, <1>b, <1>c DEF Advance, Move
<1>14. CASE WaitForProviders
    BY <1>14, <1>g DEF WaitForProviders, Stay
<1>15. CASE SettleFrontier
  <2>1. /\ stage = "email_discovery" /\ posting = "requires_contacts"
        /\ posting' = IF NobodyLeft(link') THEN "completed" ELSE posting
      BY <1>15 DEF SettleFrontier, Settle, CloseIf
  <2>2. CASE NobodyLeft(link')
    <3>1. cy'.pc = "complete" /\ stage' = stage
        BY <1>15, <2>2, <1>a DEF SettleFrontier, Settle, CloseIf, Goto, CycleType
    <3> QED
        BY <2>1, <2>2, <3>1, <1>a DEF StepInv, PersonInv, OutcomeInv
  <2>3. CASE ~NobodyLeft(link')
    <3>1. cy'.pc = "idle" /\ stage' = stage
        BY <1>15, <2>3, <1>b DEF SettleFrontier, Settle, CloseIf, Stay
    <3> QED
        BY <2>1, <2>3, <3>1, <1>a, <1>e
  <2> QED
      BY <2>2, <2>3
<1>16. CASE StartRound
  <2>1. cy'.pc = "round" /\ cy'.todo = Actionable
      BY <1>16, <1>a DEF StartRound, CycleType
  <2>2. UNCHANGED <<stage, rows>> /\ stage = "email_discovery" /\ posting = "requires_contacts"
      BY <1>16 DEF StartRound
  <2>3. Actionable \subseteq Pending'
      BY <2>2 DEF Actionable, Pending, Selected, rows
  <2> QED
      BY <2>1, <2>2, <2>3, <1>a DEF StepInv, PersonInv, OutcomeInv, rows
(* The rows and the run stay, and the cycle asks on for the same contact.  *)
<1>h. ASSUME cy.pc = "asking", cy'.pc \in {"asking", "record"}, cy'.todo = cy.todo, cy'.c = cy.c,
             UNCHANGED <<stage, rows>>
      PROVE  DiscoveryInv'
    BY <1>h DEF rows, StepInv, PersonInv, OutcomeInv, Ready, Selected, NobodyLeft, Pending
<1>17. ASSUME NEW c \in Contacts, StartContact(c) PROVE DiscoveryInv'
  <2>1. /\ cy.pc = "round" /\ c \in cy.todo
        /\ cy'.pc = "asking" /\ cy'.todo = cy.todo \ {c} /\ cy'.c = c
        /\ UNCHANGED <<stage, rows>>
      BY <1>17 DEF StartContact, At
  <2> QED
      BY <2>1 DEF rows, StepInv, PersonInv, OutcomeInv, Ready, Selected, NobodyLeft, Pending
<1>18. CASE PassFinder
  <2>1. cy'.pc = "asking" /\ cy'.todo = cy.todo /\ cy'.c = cy.c
      BY <1>18, <1>a DEF PassFinder, CycleType, Asking, At
  <2> QED
      BY <1>18, <2>1, <1>h DEF PassFinder, Asking, At
<1>19. ASSUME NEW meter \in BOOLEAN, NEW kind, Ask(kind, meter) PROVE DiscoveryInv'
  <2>1. cy'.pc \in {"asking", "record"} /\ cy'.todo = cy.todo /\ cy'.c = cy.c
      BY <1>19, <1>a DEF Ask, CycleType, Asking, At
  <2> QED
      BY <1>19, <2>1, <1>h DEF Ask, Asking, At
<1>20. ASSUME NEW meter \in BOOLEAN, FinderAnswers(meter) \/ FinderFails(meter)
       PROVE  DiscoveryInv'
    BY <1>19, <1>20 DEF FinderAnswers, FinderFails
(* Nobody else's rows are touched, and the contact asked for had no        *)
(* address: who made the posting ready still does.                         *)
<1>21. CASE RecordAttempt
  <2>1. /\ cy'.pc \in {"conclude", "round"} /\ cy'.todo = cy.todo
        /\ UNCHANGED stage /\ posting' = Promoted(link', email')
        /\ cy.pc \in {"asking", "record"}
      BY <1>21, IdleType DEF RecordAttempt, CycleType, At
  <2>2. cy.c \in Pending \ cy.todo /\ cy.todo \subseteq Pending /\ stage = "email_discovery"
        /\ posting # "completed"
      BY <2>1 DEF PersonInv, StepInv
  <2>3. \A d \in Contacts \ {cy.c} : link'[d] = link[d] /\ email'[d] = email[d]
      BY <1>21, <1>a DEF RecordAttempt, AfterFailure
  <2>4. Ready(link, email) => Ready(link', email')
      BY <2>2, <2>3 DEF Ready, Selected, Pending
  <2>5. posting' # "completed" /\ (posting' = "ready_for_outreach" => Ready(link', email'))
      BY <2>1, <2>2, <2>4, PromotedFacts DEF OutcomeInv
  <2>6. cy.todo \subseteq Pending'
      BY <2>2, <2>3 DEF Pending, Selected
  <2> QED
      BY <2>1, <2>2, <2>5, <2>6, <1>a DEF StepInv, PersonInv, OutcomeInv
<1>22. CASE NothingPending
  <2>1. /\ cy'.pc = "complete" /\ cy.pc = "conclude" /\ posting' = "completed"
        /\ NobodyLeft(link) /\ UNCHANGED <<stage, link>>
      BY <1>22, <1>a DEF NothingPending, CycleType, Goto, At
  <2> QED
      BY <2>1, <1>a DEF StepInv, PersonInv, OutcomeInv, NobodyLeft, Selected
<1>23. CASE CompleteRun
    BY <1>23, <1>b, <1>c DEF CompleteRun, Move, StepInv, At
<1>24. CASE BlockedRun
    BY <1>24, <1>b, <1>c DEF BlockedRun, Move
<1>25. CASE Die
    BY <1>25, <1>g DEF Die
<1>26. ASSUME NEW p \in Providers, NEW kind \in Failures, FailsElsewhere(p, kind)
       PROVE  DiscoveryInv'
    BY <1>26, <1>d DEF FailsElsewhere
<1>27. CASE MinutesPass \/ HourPasses \/ DayPasses
    BY <1>27, <1>d DEF MinutesPass, HourPasses, DayPasses, TimeOnly
<1>28. CASE UNCHANGED vars
    BY <1>28, <1>d DEF vars
<1> QED
    BY <1>1, <1>2, <1>3, <1>4, <1>5, <1>6, <1>7, <1>8, <1>9, <1>10, <1>11, <1>12, <1>13,
       <1>14, <1>15, <1>16, <1>17, <1>18, <1>20, <1>21, <1>22, <1>23, <1>24, <1>25,
       <1>26, <1>27, <1>28
    DEF Next, PeopleSearch, Discovery, Environment

LEMMA DiscoveryHolds == Spec => []DiscoveryInv
<1>1. Init => DiscoveryInv
    BY DEF Init, DiscoveryInv, StepInv, PersonInv, OutcomeInv, CyIdle, Working
<1> QED
    BY <1>1, DiscoveryTypeCorrect, DiscoveryStep, PTL DEF Spec

(* SendsOnlyReady for any contacts: whatever transaction the process died  *)
(* after, a run in the sending stage has a ready posting and somebody to   *)
(* write to.                                                               *)
THEOREM OnlyReadySent == Spec => []SendsOnlyReady
<1>1. DiscoveryInv => SendsOnlyReady
    BY DEF DiscoveryInv, OutcomeInv, SendsOnlyReady
<1> QED
    BY <1>1, DiscoveryHolds, PTL

(* NobodyDropped for any contacts: a run or a posting completed here left  *)
(* nobody to be asked for.                                                 *)
THEOREM NobodyIsDropped == Spec => []NobodyDropped
<1>1. DiscoveryInv => NobodyDropped
    BY DEF DiscoveryInv, OutcomeInv, NobodyDropped, NobodyLeft
<1> QED
    BY <1>1, DiscoveryHolds, PTL

-----------------------------------------------------------------------------
(***************************************************************************)
(* ExhaustedForCause: only a settlement and a failed attempt exhaust a     *)
(* contact, and both ask first which finders are still open.               *)
(***************************************************************************)
(* A finder that is spent has said no or failed Repeats times alike.       *)
LEMMA SpentForCause ==
  ASSUME NEW c \in Contacts, Open(c) = {}, NEW p \in Eligible(c)
  PROVE  \/ heard[c][p].kind = "no"
         \/ heard[c][p].kind \in {"error", "limited"} /\ heard[c][p].times = Repeats
  BY DEF Open, Spent

LEMMA ExhaustedOnlySpent ==
  ASSUME TypeOK, [Next]_vars, NEW c \in Contacts, link'[c] = "exhausted", link[c] # "exhausted"
  PROVE  Open(c) = {}
<1>a. link \in [Contacts -> Links]
    BY DEF TypeOK
<1>b. link' # link
    OBVIOUS
<1>1. ASSUME NEW new \in SUBSET Contacts, NEW faces \in SUBSET Contacts,
             NEW usable \in SUBSET Contacts, SearchReturns(new, faces, usable)
      PROVE  FALSE
    BY <1>1, <1>a DEF SearchReturns, Materialized
<1>2. ASSUME NEW d \in Contacts, NEW got \in {"address", "name", "nothing"}, Enrich(d, got)
      PROVE  FALSE
    BY <1>2, <1>a DEF Enrich
<1>3. CASE StartSearch
    BY <1>3, <1>a DEF StartSearch
<1>4. CASE SettleFrontier
    BY <1>4, <1>a DEF SettleFrontier, Settle, Hopeless
<1>5. CASE RecordAttempt
    BY <1>5, <1>a DEF RecordAttempt, AfterFailure
<1>6. ASSUME NEW meter \in BOOLEAN, FinderAnswers(meter) \/ FinderFails(meter) PROVE FALSE
    BY <1>6, <1>b DEF FinderAnswers, FinderFails, Ask, rows
<1>7. ASSUME \/ FoundReady \/ StopRunaway \/ Paused \/ ApolloRefuses \/ Enriched \/ SearchDecided
             \/ \E until \in {"hour", "day"} : UsageTrips(until)
             \/ \E kind \in Failures : ApolloFails(kind)
      PROVE  FALSE
    BY <1>7, <1>b DEF FoundReady, StopRunaway, Paused, ApolloRefuses, Enriched, SearchDecided,
                      UsageTrips, ApolloFails, rows
<1>8. ASSUME \/ StartDiscovery \/ Advance \/ WaitForProviders \/ StartRound \/ PassFinder
             \/ NothingPending \/ CompleteRun \/ BlockedRun
             \/ \E d \in Contacts : StartContact(d)
      PROVE  FALSE
    BY <1>8, <1>b DEF StartDiscovery, Advance, WaitForProviders, StartRound, PassFinder,
                      NothingPending, CompleteRun, BlockedRun, StartContact, rows
<1>9. ASSUME Environment \/ UNCHANGED vars PROVE FALSE
    BY <1>9, <1>b DEF Environment, Die, FailsElsewhere, MinutesPass, HourPasses, DayPasses,
                      TimeOnly, vars, rows
<1> QED
    BY <1>1, <1>2, <1>3, <1>4, <1>5, <1>6, <1>7, <1>8, <1>9
    DEF Next, PeopleSearch, Discovery

(* ExhaustedForCause for any finders and any number of repeats.            *)
THEOREM ContactsExhaustedForCause == Spec => ExhaustedForCause
<1>1. TypeOK /\ [Next]_vars =>
        [\A c \in Contacts :
           link'[c] = "exhausted" /\ link[c] # "exhausted" =>
              \A p \in Eligible(c) :
                 \/ heard[c][p].kind = "no"
                 \/ heard[c][p].kind \in {"error", "limited"} /\ heard[c][p].times = Repeats]_vars
    BY ExhaustedOnlySpent, SpentForCause
<1> QED
    BY <1>1, DiscoveryTypeCorrect, PTL DEF Spec, ExhaustedForCause

=============================================================================
