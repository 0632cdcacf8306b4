--------------------------- MODULE LeadIntakeProofs ---------------------------
(***************************************************************************)
(* Proofs about LeadIntake, for any number of leads, polls and deaths and  *)
(* any feed.                                                               *)
(***************************************************************************)
EXTENDS LeadIntake, FiniteSetTheorems, NaturalsInduction, WellFoundedInduction, TLAPS

LeadRow == [status : LeadStatuses, view : Views \cup {NoView},
            at : 0 .. MaxPolls, people : SUBSET People]

\* What a lead may be shown as is a recommendation.
LEMMA FeedViews == \A l \in Leads : \A r \in Feed[l] : r \in Views /\ r # NoView
    BY FeedAssumption DEF Views

LEMMA ViewFields ==
    \A r \in Views : /\ r.text \in BOOLEAN /\ r.usable \in BOOLEAN
                     /\ r.people \subseteq People /\ r # NoView
    BY FeedAssumption DEF Views, Recommendation

-----------------------------------------------------------------------------
(***************************************************************************)
(* Type correctness.                                                       *)
(***************************************************************************)
LEMMA TypeInit == Init => TypeOK
<1> SUFFICES ASSUME Init PROVE TypeOK
    OBVIOUS
<1> USE BoundsAssumption DEF Init, TypeOK, Idle, NoBatch, LeadStatuses, PostingStatuses, Steps
<1>1. lead \in [Leads -> LeadRow]
    BY DEF LeadRow
<1>2. cy \in [step : Steps, batch : [Leads -> Views \cup {NoView}], todo : SUBSET Leads]
    OBVIOUS
<1> QED
    BY <1>1, <1>2 DEF LeadRow

LEMMA TypeStep == TypeOK /\ [Next]_vars => TypeOK'
<1> SUFFICES ASSUME TypeOK, [Next]_vars PROVE TypeOK'
    OBVIOUS
<1> USE BoundsAssumption DEF TypeOK, Steps
<1>1. CASE PollCollects
  <2>1. PICK batch \in [Leads -> Views \cup {NoView}] :
           cy' = [step |-> "write", batch |-> batch, todo |-> {l \in Leads : batch[l] # NoView}]
      BY <1>1 DEF PollCollects
  <2> QED
      BY <1>1, <2>1 DEF PollCollects
<1>2. CASE PollRefused
    BY <1>2 DEF PollRefused
<1>3. ASSUME NEW l \in Leads, WriteLead(l) PROVE TypeOK'
    BY <1>3 DEF WriteLead, Files
<1>4. CASE CommitBatch
  <2>1. \A l \in Leads : cy.batch[l] # NoView =>
           Observed(l) \in LeadRow /\ Observed(l).view # NoView /\ Observed(l).status # "none"
      BY ViewFields DEF Observed, Contacted, InitialStatus, LeadRow, LeadStatuses
  <2>2. lead' \in [Leads -> LeadRow]
      BY <1>4, <2>1 DEF CommitBatch, LeadRow
  <2>3. \A l \in Leads : (lead'[l].view = NoView) <=> (lead'[l].status = "none")
      BY <1>4, <2>1 DEF CommitBatch
  <2>4. /\ cy' \in [step : Steps, batch : [Leads -> Views \cup {NoView}], todo : SUBSET Leads]
        /\ cy'.todo = {}
      BY <1>4 DEF CommitBatch, Idle, NoBatch
  <2> QED
      BY <1>4, <2>2, <2>3, <2>4 DEF CommitBatch, LeadRow
<1>5. CASE RecordPoll
    BY <1>5 DEF RecordPoll, Idle, NoBatch
<1>6. CASE Die
    BY <1>6 DEF Die, Idle, NoBatch
(* A review changes the status of a lead that has a view, to a status.     *)
<1>7. ASSUME NEW statuses \in [Leads -> LeadStatuses \ {"none"}],
             NEW S \in SUBSET Leads, \A l \in S : lead[l].status # "none",
             lead' = [l \in Leads |->
                        IF l \in S THEN [lead[l] EXCEPT !.status = statuses[l]] ELSE lead[l]]
      PROVE  /\ lead' \in [Leads -> LeadRow]
             /\ \A l \in Leads : (lead'[l].view = NoView) <=> (lead'[l].status = "none")
  <2>1. \A l \in Leads : \A s \in LeadStatuses :
           /\ [lead[l] EXCEPT !.status = s] \in LeadRow
           /\ [lead[l] EXCEPT !.status = s].view = lead[l].view
           /\ [lead[l] EXCEPT !.status = s].status = s
      BY DEF LeadRow
  <2>2. lead \in [Leads -> LeadRow]
      BY DEF LeadRow
  <2> QED
      BY <1>7, <2>1, <2>2
<1>8. \A l \in Leads : Reviewed(l) \in LeadStatuses \ {"none"}
    BY DEF Reviewed, LeadStatuses
<1>9. Candidates \in SUBSET Leads /\ \A l \in Candidates : lead[l].status # "none"
    BY DEF Candidates
<1>10. CASE ReviewOnly
  <2> DEFINE st == [l \in Leads |-> Reviewed(l)]
  <2>1. st \in [Leads -> LeadStatuses \ {"none"}]
      BY <1>8
  <2>2. lead' = [l \in Leads |->
                   IF l \in Candidates THEN [lead[l] EXCEPT !.status = st[l]] ELSE lead[l]]
      BY <1>10 DEF ReviewOnly
  <2>3. /\ lead' \in [Leads -> LeadRow]
        /\ \A l \in Leads : (lead'[l].view = NoView) <=> (lead'[l].status = "none")
      BY <1>7, <1>9, <2>1, <2>2
  <2> QED
      BY <1>10, <2>3 DEF ReviewOnly, LeadRow
<1>11. ASSUME NEW l \in Leads, Promote(l) PROVE TypeOK'
  <2>0. l \in Candidates
      BY <1>11 DEF Promote, FirstOf, CompanyWinners, Eligible
  <2> DEFINE st == [k \in Leads |-> IF k = l THEN "promoted" ELSE Reviewed(k)]
  <2>1. st \in [Leads -> LeadStatuses \ {"none"}]
      BY <1>8 DEF LeadStatuses
  <2>2. lead' = [k \in Leads |->
                   IF k \in Candidates THEN [lead[k] EXCEPT !.status = st[k]] ELSE lead[k]]
      BY <1>11, <2>0 DEF Promote
  <2>3. /\ lead' \in [Leads -> LeadRow]
        /\ \A k \in Leads : (lead'[k].view = NoView) <=> (lead'[k].status = "none")
      BY <1>7, <1>9, <2>1, <2>2
  <2>4. posting' \in [Leads -> [status : PostingStatuses, escalated : BOOLEAN,
                                people : SUBSET People]]
      BY <1>11 DEF Promote, Upserted, Carried, PostingStatuses, Live, Preparing
  <2> QED
      BY <1>11, <2>3, <2>4 DEF Promote, LeadRow
<1>12. ASSUME NEW l \in Leads, PostingMoves(l) \/ RunEscalates(l) \/ RunReopens(l)
       PROVE  TypeOK'
  <2>1. posting' \in [Leads -> [status : PostingStatuses, escalated : BOOLEAN,
                                people : SUBSET People]]
    <3>1. CASE PostingMoves(l)
      <4>1. PICK move \in Onward : posting' = [posting EXCEPT ![l].status = move[2]]
          BY <3>1 DEF PostingMoves
      <4>2. move[2] \in PostingStatuses
          BY DEF Onward, PostingStatuses, Live, Preparing
      <4> QED
          BY <4>1, <4>2
    <3>2. CASE RunEscalates(l) \/ RunReopens(l)
      <4>1. PICK b \in BOOLEAN : posting' = [posting EXCEPT ![l].escalated = b]
          BY <3>2 DEF RunEscalates, RunReopens
      <4> QED
          BY <4>1
    <3> QED
        BY <1>12, <3>1, <3>2
  <2> QED
      BY <1>12, <2>1 DEF PostingMoves, RunEscalates, RunReopens
<1>13. CASE QuarterPasses
    BY <1>13 DEF QuarterPasses
<1>14. CASE UNCHANGED vars
    BY <1>14 DEF vars
<1> QED
    BY <1>1, <1>2, <1>3, <1>4, <1>5, <1>6, <1>10, <1>11, <1>12, <1>13, <1>14
    DEF Next, Poll, Ingest, Review, Pipeline

(* Every reachable lead, posting and cycle has the declared values.        *)
THEOREM TypeCorrect == Spec => []TypeOK
    BY TypeInit, TypeStep, PTL DEF Spec

-----------------------------------------------------------------------------
(***************************************************************************)
(* The inductive invariant.  Once the files of a lead are written they are *)
(* of the batch under way; only the postings that went on after an         *)
(* escalation can exceed the cap or share a company.                       *)
(***************************************************************************)
FilesAhead ==
    /\ \A l \in Leads : file[l] <= polls
    /\ cy.step = "write" =>
         \A l \in Leads \ cy.todo :
             cy.batch[l] # NoView /\ cy.batch[l].text => file[l] = polls

Crowd == Counted(Live) \ reopened

CompaniesApart ==
    \A l, k \in Counted(Live) : l # k /\ Company[l] = Company[k] => l \in reopened \/ k \in reopened

IntakeInv ==
    /\ TypeOK /\ FilesAhead /\ JdOnDisk /\ SeedsKept
    /\ Cardinality(Crowd) <= Cap /\ CompaniesApart

LEMMA CrowdFinite ==
    ASSUME TypeOK
    PROVE  /\ IsFiniteSet(Counted(Live)) /\ IsFiniteSet(Crowd) /\ IsFiniteSet(reopened)
           /\ Cardinality(Counted(Live)) \in Nat /\ Cardinality(Crowd) \in Nat
<1>1. Counted(Live) \in SUBSET Leads /\ Crowd \in SUBSET Leads /\ reopened \in SUBSET Leads
    BY DEF TypeOK, Counted, Crowd
<1> QED
    BY <1>1, LeadsAssumption, FS_Subset, FS_CardinalityType

LEMMA IntakeInit == Init => IntakeInv
<1> SUFFICES ASSUME Init PROVE IntakeInv
    OBVIOUS
<1>1. Counted(Live) = {} /\ Crowd = {}
    BY DEF Init, Counted, Crowd, Live, Preparing
<1>2. Cardinality(Crowd) <= Cap
    BY <1>1, FS_EmptySet, BoundsAssumption
<1> QED
    BY <1>1, <1>2, TypeInit, BoundsAssumption
    DEF Init, Idle, IntakeInv, FilesAhead, JdOnDisk, SeedsKept, CompaniesApart

\* A job description on disk stays, or makes room for the batch's.
LEMMA FilesStep == TypeOK /\ FilesAhead /\ JdOnDisk /\ [Next]_vars => FilesAhead' /\ JdOnDisk'
<1> SUFFICES ASSUME TypeOK, FilesAhead, JdOnDisk, [Next]_vars PROVE FilesAhead' /\ JdOnDisk'
    OBVIOUS
<1> USE DEF TypeOK, FilesAhead, JdOnDisk
<1>0. polls \in Nat /\ \A l \in Leads : file[l] \in Nat /\ lead[l].at \in Nat
    BY BoundsAssumption
<1>1. CASE PollCollects
  <2>1. PICK batch \in [Leads -> Views \cup {NoView}] :
           cy' = [step |-> "write", batch |-> batch, todo |-> {l \in Leads : batch[l] # NoView}]
      BY <1>1 DEF PollCollects
  <2> QED
      BY <1>0, <1>1, <2>1 DEF PollCollects
<1>2. ASSUME NEW l \in Leads, WriteLead(l) PROVE FilesAhead' /\ JdOnDisk'
  <2>1. /\ \A k \in Leads : file'[k] = IF k = l THEN Files(l) ELSE file[k]
        /\ Files(l) \in {polls, file[l]} /\ (cy.batch[l].text => Files(l) = polls)
      BY <1>2 DEF WriteLead, Files
  <2>2. /\ cy'.step = cy.step /\ cy'.batch = cy.batch /\ cy'.todo = cy.todo \ {l}
        /\ cy.step = "write" /\ lead' = lead /\ polls' = polls
      BY <1>2 DEF WriteLead
  <2>3. FilesAhead'
      BY <1>0, <2>1, <2>2
  <2>4. JdOnDisk'
      BY <1>0, <2>1, <2>2
  <2> QED
      BY <2>3, <2>4
<1>3. CASE CommitBatch
  <2>1. \A l \in Leads : lead'[l] = IF cy.batch[l] = NoView THEN lead[l] ELSE Observed(l)
      BY <1>3 DEF CommitBatch
  <2>2. \A l \in Leads : Observed(l).view = cy.batch[l] /\ Observed(l).at = polls
      BY DEF Observed
  <2>3. /\ cy.step = "write" /\ cy.todo = {} /\ cy'.step = "record"
        /\ file' = file /\ polls' = polls
      BY <1>3 DEF CommitBatch, Idle
  <2> QED
      BY <1>0, <2>1, <2>2, <2>3
<1>4. CASE RecordPoll \/ Die
    BY <1>4 DEF RecordPoll, Die, Idle
(* A review changes the status of a row, and nothing else of it.           *)
<1>5. CASE Review
  <2>1. /\ \A l \in Leads : lead'[l].view = lead[l].view /\ lead'[l].at = lead[l].at
        /\ file' = file /\ cy' = cy /\ polls' = polls
    <3>1. CASE ReviewOnly
        BY <3>1 DEF ReviewOnly
    <3>2. ASSUME NEW l \in Leads, Promote(l)
          PROVE  \A k \in Leads : lead'[k].view = lead[k].view /\ lead'[k].at = lead[k].at
        BY <3>2 DEF Promote
    <3> QED
        BY <1>5, <3>1, <3>2 DEF Review, ReviewOnly, Promote
  <2> QED
      BY <2>1
<1>6. CASE PollRefused \/ Pipeline \/ QuarterPasses \/ UNCHANGED vars
    BY <1>6 DEF PollRefused, Pipeline, PostingMoves, RunEscalates, RunReopens, QuarterPasses, vars
<1> QED
    BY <1>1, <1>2, <1>3, <1>4, <1>5, <1>6 DEF Next, Poll, Ingest

\* The contacts of a lead only grow; a promotion copies those it has.
LEMMA SeedsStep == TypeOK /\ SeedsKept /\ [Next]_vars => SeedsKept'
<1> SUFFICES ASSUME TypeOK, SeedsKept, [Next]_vars PROVE SeedsKept'
    OBVIOUS
<1> USE DEF TypeOK, SeedsKept
<1>1. CASE CommitBatch
  <2>1. \A l \in Leads : lead[l].people \subseteq lead'[l].people
      BY <1>1 DEF CommitBatch, Observed, Contacted
  <2> QED
      BY <1>1, <2>1 DEF CommitBatch
<1>2. CASE ReviewOnly
    BY <1>2 DEF ReviewOnly
<1>3. ASSUME NEW l \in Leads, Promote(l) PROVE SeedsKept'
  <2>1. \A k \in Leads : lead'[k].people = lead[k].people
      BY <1>3 DEF Promote
  <2>2. Upserted(l).people = posting[l].people \cup lead[l].people
      BY DEF Upserted, Carried
  <2> QED
      BY <1>3, <2>1, <2>2 DEF Promote
<1>4. ASSUME NEW l \in Leads, PostingMoves(l) \/ RunEscalates(l) \/ RunReopens(l)
      PROVE  SeedsKept'
  <2>1. \A k \in Leads : posting'[k].people = posting[k].people
    <3>1. CASE PostingMoves(l)
        BY <3>1 DEF PostingMoves
    <3>2. CASE RunEscalates(l) \/ RunReopens(l)
        BY <3>2 DEF RunEscalates, RunReopens
    <3> QED
        BY <1>4, <3>1, <3>2
  <2> QED
      BY <1>4, <2>1 DEF PostingMoves, RunEscalates, RunReopens
<1>5. CASE \/ Poll \/ (\E l \in Leads : WriteLead(l)) \/ RecordPoll \/ Die
           \/ QuarterPasses \/ UNCHANGED vars
    BY <1>5 DEF Poll, PollCollects, PollRefused, WriteLead, RecordPoll, Die, QuarterPasses, vars
<1> QED
    BY <1>1, <1>2, <1>3, <1>4, <1>5 DEF Next, Ingest, Review, Pipeline

\* A promotion needs room and a company of its own; a posting whose
\* escalation ends is one of the reopened.
LEMMA CrowdStep ==
    TypeOK /\ Cardinality(Crowd) <= Cap /\ CompaniesApart /\ [Next]_vars
        => (Cardinality(Crowd) <= Cap)' /\ CompaniesApart'
<1> SUFFICES ASSUME TypeOK, Cardinality(Crowd) <= Cap, CompaniesApart, [Next]_vars
             PROVE  Cardinality(Crowd') <= Cap /\ CompaniesApart'
    OBVIOUS
<1> USE DEF TypeOK, CompaniesApart
<1>0. /\ IsFiniteSet(Counted(Live)) /\ IsFiniteSet(Crowd)
      /\ Cardinality(Counted(Live)) \in Nat /\ Cardinality(Crowd) \in Nat /\ Cap \in Nat
    BY CrowdFinite, BoundsAssumption
<1>1. ASSUME NEW l \in Leads, Promote(l) PROVE Cardinality(Crowd') <= Cap /\ CompaniesApart'
  <2>1. /\ \A k \in Leads : posting'[k] = IF k = l THEN Upserted(l) ELSE posting[k]
        /\ reopened' = reopened /\ HasRoom
      BY <1>1 DEF Promote
  <2>2. Counted(Live)' \subseteq Counted(Live) \cup {l}
      BY <2>1 DEF Counted
  <2>3. \A k \in Counted(Live) : Company[k] # Company[l]
      BY <1>1 DEF Promote, FirstOf, CompanyWinners, Eligible, Passes
  <2>4. CompaniesApart'
      BY <2>1, <2>2, <2>3
  <2>5. /\ IsFiniteSet(Counted(Live) \cup {l})
        /\ Cardinality(Counted(Live) \cup {l}) <= Cardinality(Counted(Live)) + 1
        /\ Cardinality(Counted(Live) \cup {l}) \in Nat
    <3>1. IsFiniteSet(Counted(Live) \cup {l})
        BY <1>0, FS_AddElement
    <3>2. Cardinality(Counted(Live) \cup {l}) \in Nat
        BY <3>1, FS_CardinalityType
    <3>3. \/ Cardinality(Counted(Live) \cup {l}) = Cardinality(Counted(Live))
          \/ Cardinality(Counted(Live) \cup {l}) = Cardinality(Counted(Live)) + 1
      <4> DEFINE C == Counted(Live)
      <4>1. IsFiniteSet(C)
          BY <1>0
      <4> HIDE DEF C
      <4>2. Cardinality(C \cup {l}) = Cardinality(C) \/ Cardinality(C \cup {l}) = Cardinality(C) + 1
          BY <4>1, FS_AddElement
      <4> QED
          BY <4>2 DEF C
    <3> QED
        BY <1>0, <3>1, <3>2, <3>3
  <2>6. Crowd' \subseteq Counted(Live) \cup {l}
      BY <2>2 DEF Crowd
  <2>7. Cardinality(Crowd') <= Cardinality(Counted(Live) \cup {l})
      BY <2>5, <2>6, FS_Subset
  <2>8. IsFiniteSet(Crowd') /\ Cardinality(Crowd') \in Nat
      BY <2>5, <2>6, FS_Subset, FS_CardinalityType
  <2> QED
      BY <1>0, <2>1, <2>4, <2>5, <2>7, <2>8 DEF HasRoom
(* No other step counts a posting that was not, but for the reopened.      *)
<1>2. ASSUME Counted(Live)' \subseteq Counted(Live) \cup reopened', reopened \subseteq reopened'
      PROVE  Cardinality(Crowd') <= Cap /\ CompaniesApart'
  <2>1. Crowd' \subseteq Crowd
      BY <1>2 DEF Crowd
  <2>2. Cardinality(Crowd') <= Cardinality(Crowd) /\ Cardinality(Crowd') \in Nat
      BY <1>0, <2>1, FS_Subset, FS_CardinalityType
  <2> QED
      BY <1>0, <1>2, <2>2
<1>3. ASSUME NEW l \in Leads, PostingMoves(l)
      PROVE  Counted(Live)' \subseteq Counted(Live) /\ reopened' = reopened
  <2>1. PICK move \in Onward :
           posting[l].status = move[1] /\ posting' = [posting EXCEPT ![l].status = move[2]]
      BY <1>3 DEF PostingMoves
  <2>2. move[1] \in Live
      BY DEF Onward, Live, Preparing
  <2> QED
      BY <1>3, <2>1, <2>2 DEF PostingMoves, Counted
<1>4. ASSUME NEW l \in Leads, RunEscalates(l)
      PROVE  Counted(Live)' \subseteq Counted(Live) /\ reopened' = reopened
    BY <1>4 DEF RunEscalates, Counted
<1>5. ASSUME NEW l \in Leads, RunReopens(l)
      PROVE  Counted(Live)' \subseteq Counted(Live) \cup {l} /\ reopened' = reopened \cup {l}
    BY <1>5 DEF RunReopens, Counted
<1>6. CASE Poll \/ Ingest \/ ReviewOnly \/ Die \/ QuarterPasses \/ UNCHANGED vars
  <2>1. posting' = posting /\ reopened' = reopened
      BY <1>6 DEF Poll, PollCollects, PollRefused, Ingest, WriteLead, CommitBatch, RecordPoll,
                  ReviewOnly, Die, QuarterPasses, vars
  <2> QED
      BY <1>2, <2>1 DEF Counted
<1> QED
    BY <1>1, <1>2, <1>3, <1>4, <1>5, <1>6 DEF Next, Review, Pipeline

THEOREM IntakeInvariant == Spec => []IntakeInv
<1>1. IntakeInv /\ [Next]_vars => IntakeInv'
    BY TypeStep, FilesStep, SeedsStep, CrowdStep DEF IntakeInv
<1> QED
    BY <1>1, IntakeInit, PTL DEF Spec

-----------------------------------------------------------------------------
(* What ingestion and promotion promise.                                   *)

(* The row of a lead never refers to a job description newer than the one  *)
(* on disk, wherever ingestion dies.                                       *)
THEOREM RowsBehindFiles == Spec => []JdOnDisk
<1>1. IntakeInv => JdOnDisk
    BY DEF IntakeInv
<1> QED
    BY <1>1, IntakeInvariant, PTL

(* A contact carried into a posting stays a contact of its lead.           *)
THEOREM ContactsKept == Spec => []SeedsKept
<1>1. IntakeInv => SeedsKept
    BY DEF IntakeInv
<1> QED
    BY <1>1, IntakeInvariant, PTL

(* The active postings exceed the cap, and share a company, by no more than *)
(* the postings whose escalated run went on.                               *)
THEOREM CapKept == Spec => []NoCrowding
<1>1. IntakeInv => NoCrowding
  <2> SUFFICES ASSUME IntakeInv PROVE NoCrowding
      OBVIOUS
  <2>1. /\ IsFiniteSet(Crowd) /\ IsFiniteSet(reopened) /\ IsFiniteSet(Counted(Live))
        /\ Cardinality(Crowd) \in Nat /\ Cardinality(Counted(Live)) \in Nat
      BY CrowdFinite DEF IntakeInv
  <2>2. /\ IsFiniteSet(Crowd \cup reopened)
        /\ Cardinality(Crowd \cup reopened)
             = Cardinality(Crowd) + Cardinality(reopened) - Cardinality(Crowd \cap reopened)
      BY <2>1, FS_Union
  <2>3. Crowd \cap reopened = {} /\ Counted(Live) \subseteq Crowd \cup reopened
      BY DEF Crowd
  <2>4. Cardinality(Crowd \cap reopened) = 0 /\ Cardinality(reopened) \in Nat
      BY <2>1, <2>3, FS_EmptySet, FS_CardinalityType
  <2>5. Cardinality(Counted(Live)) <= Cardinality(Crowd \cup reopened)
      BY <2>2, <2>3, FS_Subset
  <2> QED
      BY <2>1, <2>2, <2>4, <2>5, BoundsAssumption DEF IntakeInv, NoCrowding, CompaniesApart
<1> QED
    BY <1>1, IntakeInvariant, PTL

(* A lead becomes a posting once, however often it is recommended again.   *)
THEOREM NeverPromotedTwice == Spec => PromotedOnce
<1> DEFINE Once == \A l \in Leads : posting[l].status # "none" =>
                       (posting'[l].status = "sourced" => posting[l].status = "sourced")
<1>1. TypeOK /\ [Next]_vars => Once
  <2> SUFFICES ASSUME TypeOK, [Next]_vars PROVE Once
      OBVIOUS
  <2> USE DEF TypeOK
  <2>1. ASSUME NEW l \in Leads, Promote(l) PROVE Once
    <3>1. posting[l].status = "none"
        BY <2>1 DEF Promote, FirstOf, CompanyWinners, Eligible, Candidates, Materialized
    <3> QED
        BY <2>1, <3>1 DEF Promote
  <2>2. ASSUME NEW l \in Leads, PostingMoves(l) PROVE Once
    <3>1. PICK move \in Onward : posting' = [posting EXCEPT ![l].status = move[2]]
        BY <2>2 DEF PostingMoves
    <3>2. move[2] # "sourced"
        BY DEF Onward
    <3> QED
        BY <3>1, <3>2
  <2>3. ASSUME NEW l \in Leads, RunEscalates(l) \/ RunReopens(l) PROVE Once
      BY <2>3 DEF RunEscalates, RunReopens
  <2>4. CASE Poll \/ Ingest \/ ReviewOnly \/ Die \/ QuarterPasses \/ UNCHANGED vars
      BY <2>4 DEF Poll, PollCollects, PollRefused, Ingest, WriteLead, CommitBatch, RecordPoll,
                  ReviewOnly, Die, QuarterPasses, vars
  <2> QED
      BY <2>1, <2>2, <2>3, <2>4 DEF Next, Review, Pipeline
<1>2. TypeOK /\ [Next]_vars => [Once]_vars
    BY <1>1
<1>3. IntakeInv => TypeOK
    BY DEF IntakeInv
<1>4. Spec => [][Once]_vars
    BY <1>2, <1>3, IntakeInvariant, PTL DEF Spec
<1> QED
    BY <1>4 DEF PromotedOnce

-----------------------------------------------------------------------------
(***************************************************************************)
(* Pairwise comparison, first within a company and then between the        *)
(* winners, finds the best lead.  Beats lets the connection decide only    *)
(* when the scores are at most five points apart, which need not give an   *)
(* order; on the eligible leads it does, because there five points are     *)
(* what a personal connection adds to the worth of a lead: Beats compares  *)
(* worth first, then quality, connections, recency and seniority (Ahead).  *)
(* So every nonempty set of eligible leads has a first one.                *)
(***************************************************************************)
Ahead(l, k) ==
    \/ Worth(l) > Worth(k)
    \/ /\ Worth(l) = Worth(k)
       /\ \/ Quality(lead[l].view) > Quality(lead[k].view)
          \/ /\ Quality(lead[l].view) = Quality(lead[k].view)
             /\ \/ Total(lead[l].view) > Total(lead[k].view)
                \/ /\ Total(lead[l].view) = Total(lead[k].view)
                   /\ \/ lead[l].at > lead[k].at
                      \/ lead[l].at = lead[k].at /\ Seniority[l] < Seniority[k]

\* What is compared of a lead that has a view are numbers.
LEMMA Compared ==
    ASSUME TypeOK, NEW l \in Leads, lead[l].view # NoView
    PROVE  /\ lead[l].view.score \in Int /\ Worth(l) \in Int /\ Total(lead[l].view) \in Int
           /\ Quality(lead[l].view) \in {0, 1, 2} /\ lead[l].at \in Int /\ Seniority[l] \in Int
           /\ Worth(l) = lead[l].view.score + (IF Quality(lead[l].view) = 2 THEN 5 ELSE 0)
<1>1. lead[l].view \in Recommendation
    BY FeedAssumption DEF TypeOK, Views
<1>2. /\ lead[l].view.score \in Int /\ lead[l].view.personal \in Nat
      /\ lead[l].view.social \in Nat /\ lead[l].view.named \in BOOLEAN
    BY <1>1 DEF Recommendation
<1>3. Public(lead[l].view) \in Nat
    BY <1>2 DEF Public
<1>4. lead[l].at \in Int /\ Seniority[l] \in Int
    BY LeadsAssumption, BoundsAssumption DEF TypeOK
<1>5. /\ Quality(lead[l].view) \in {0, 1, 2}
      /\ Quality(lead[l].view) = 2 <=> lead[l].view.personal > 0
    BY <1>2, <1>3 DEF Quality
<1> QED
    BY <1>2, <1>3, <1>4, <1>5 DEF Worth, Total

LEMMA EligibleRanked ==
    ASSUME TypeOK, NEW l \in Eligible
    PROVE  l \in Leads /\ lead[l].view # NoView /\ Quality(lead[l].view) \in {1, 2}
<1>1. l \in Leads /\ lead[l].view # NoView /\ Quality(lead[l].view) > 0
    BY DEF Eligible, Candidates, Passes, TypeOK
<1> QED
    BY <1>1, Compared

\* On eligible leads the comparison is the lexicographic one.
LEMMA BeatsIsAhead ==
    ASSUME TypeOK, NEW l \in Eligible, NEW k \in Eligible
    PROVE  Beats(l, k) <=> Ahead(l, k)
<1> DEFINE sl == lead[l].view.score
           sk == lead[k].view.score
           ql == Quality(lead[l].view)
           qk == Quality(lead[k].view)
           tl == Total(lead[l].view)
           tk == Total(lead[k].view)
<1>1. /\ sl \in Int /\ sk \in Int /\ ql \in {1, 2} /\ qk \in {1, 2}
      /\ tl \in Int /\ tk \in Int
      /\ Worth(l) = sl + (IF ql = 2 THEN 5 ELSE 0)
      /\ Worth(k) = sk + (IF qk = 2 THEN 5 ELSE 0)
    BY EligibleRanked, Compared
<1>2. Beats(l, k) <=>
        LET gap == IF sl > sk THEN sl - sk ELSE sk - sl
        IN  IF gap <= 5 /\ ql # qk THEN ql > qk
            ELSE IF sl # sk THEN sl > sk
            ELSE IF ql # qk THEN ql > qk
            ELSE IF tl # tk THEN tl > tk
            ELSE IF lead[l].at # lead[k].at THEN lead[l].at > lead[k].at
            ELSE Seniority[l] < Seniority[k]
    BY DEF Beats
<1>3. /\ lead[l].at \in Int /\ lead[k].at \in Int
      /\ Seniority[l] \in Int /\ Seniority[k] \in Int
    BY EligibleRanked, Compared
<1>4. Ahead(l, k) <=>
        \/ Worth(l) > Worth(k)
        \/ /\ Worth(l) = Worth(k)
           /\ \/ ql > qk
              \/ /\ ql = qk
                 /\ \/ tl > tk
                    \/ /\ tl = tk
                       /\ \/ lead[l].at > lead[k].at
                          \/ lead[l].at = lead[k].at /\ Seniority[l] < Seniority[k]
    BY DEF Ahead
<1> HIDE DEF sl, sk, ql, qk, tl, tk
<1> QED
    BY <1>1, <1>2, <1>3, <1>4

\* It is a strict total order there.
LEMMA AheadOrders ==
    ASSUME TypeOK
    PROVE  /\ \A l \in Eligible : ~Ahead(l, l)
           /\ \A l, k \in Eligible : l # k => Ahead(l, k) \/ Ahead(k, l)
           /\ \A l, k, m \in Eligible : Ahead(l, k) /\ Ahead(k, m) => Ahead(l, m)
<1>1. \A l \in Eligible : /\ Worth(l) \in Int /\ Total(lead[l].view) \in Int
                          /\ Quality(lead[l].view) \in Int
                          /\ lead[l].at \in Int /\ Seniority[l] \in Int /\ l \in Leads
    BY EligibleRanked, Compared
<1>2. \A l \in Eligible : ~Ahead(l, l)
    BY <1>1 DEF Ahead
<1>3. \A l, k \in Eligible : l # k => Ahead(l, k) \/ Ahead(k, l)
  <2>1. \A l, k \in Leads : Seniority[l] = Seniority[k] => l = k
      BY LeadsAssumption
  <2> QED
      BY <1>1, <2>1 DEF Ahead
<1>4. \A l, k, m \in Eligible : Ahead(l, k) /\ Ahead(k, m) => Ahead(l, m)
    BY <1>1 DEF Ahead
<1> QED
    BY <1>2, <1>3, <1>4

\* A nonempty set of natural numbers has a least element.
LEMMA LeastNumber ==
    ASSUME NEW T \in SUBSET Nat, T # {}
    PROVE  \E least \in T : \A n \in T : least <= n
<1> DEFINE R == OpToRel(<, Nat)
<1>1. IsWellFoundedOn(R, Nat)
    BY NatLessThanWellFounded
<1>2. \A m, n \in Nat : <<m, n>> \in R <=> m < n
    BY DEF OpToRel
<1> HIDE DEF R
<1>3. PICK least \in T : \A n \in T : ~(<<n, least>> \in R)
    BY <1>1, WFMin
<1>4. \A n \in T : ~(n < least)
    BY <1>2, <1>3
<1> QED
    BY <1>4

\* Every nonempty set of eligible leads has a first one: the one that the
\* fewest of the set are ahead of.
LEMMA HasFirst ==
    ASSUME TypeOK, NEW S \in SUBSET Eligible, S # {}
    PROVE  \E w \in S : w \in FirstOf(S)
<1> DEFINE Better(x) == {y \in S : Ahead(y, x)}
<1>1. IsFiniteSet(S)
    BY LeadsAssumption, EligibleRanked, FS_Subset
<1>2. \A x \in S : IsFiniteSet(Better(x)) /\ Cardinality(Better(x)) \in Nat
  <2>1. \A x \in S : Better(x) \in SUBSET S
      OBVIOUS
  <2> QED
      BY <1>1, <2>1, FS_Subset, FS_CardinalityType
<1>3. PICK w \in S : \A x \in S : Cardinality(Better(w)) <= Cardinality(Better(x))
  <2> DEFINE T == {Cardinality(Better(x)) : x \in S}
  <2>1. T \in SUBSET Nat /\ T # {}
      BY <1>2
  <2>2. PICK least \in T : \A n \in T : least <= n
      BY <2>1, LeastNumber
  <2> QED
      BY <2>2
<1>4. ASSUME NEW x \in S, Ahead(x, w) PROVE FALSE
  <2>1. Better(x) \subseteq Better(w) /\ x \in Better(w) /\ x \notin Better(x)
      BY <1>4, AheadOrders
  <2> HIDE DEF Better
  <2>2. Cardinality(Better(x)) <= Cardinality(Better(w)) /\ Better(x) # Better(w)
      BY <1>2, <2>1, FS_Subset
  <2>3. Cardinality(Better(w)) = Cardinality(Better(x)) => Better(w) = Better(x)
      BY <1>2, <2>1, FS_Subset
  <2> QED
      BY <1>2, <1>3, <2>2, <2>3
<1>5. \A x \in S \ {w} : Beats(w, x)
    BY <1>4, AheadOrders, BeatsIsAhead
<1> QED
    BY <1>5 DEF FirstOf

\* The lead promoted is ahead of every other eligible one.
LEMMA FirstWinnerAhead ==
    ASSUME TypeOK, NEW l \in FirstOf(CompanyWinners), NEW k \in Eligible
    PROVE  l \in Eligible /\ (l = k \/ Ahead(l, k))
<1>1. l \in CompanyWinners /\ \A w \in CompanyWinners \ {l} : Beats(l, w)
    BY DEF FirstOf
<1>2. CompanyWinners \subseteq Eligible
    BY DEF CompanyWinners
<1> DEFINE S == {x \in Eligible : Company[x] = Company[k]}
<1>3. PICK w \in S : w \in FirstOf(S)
    BY HasFirst
<1>4. w \in CompanyWinners
    BY <1>3 DEF CompanyWinners
<1>5. w = k \/ Ahead(w, k)
    BY <1>3, BeatsIsAhead DEF FirstOf
<1>6. l = w \/ Ahead(l, w)
    BY <1>1, <1>2, <1>4, BeatsIsAhead
<1> QED
    BY <1>1, <1>2, <1>3, <1>5, <1>6, AheadOrders

(* A lead whose row says promoted has a posting.                           *)
PromotedHasPosting ==
    \A l \in Leads : lead[l].status = "promoted" => posting[l].status # "none"

LEMMA PromotedStep == TypeOK /\ PromotedHasPosting /\ [Next]_vars => PromotedHasPosting'
<1> SUFFICES ASSUME TypeOK, PromotedHasPosting, [Next]_vars PROVE PromotedHasPosting'
    OBVIOUS
<1> USE DEF TypeOK, PromotedHasPosting
<1>1. CASE CommitBatch
  <2>1. \A l \in Leads : Observed(l).status # "promoted"
      BY DEF Observed, InitialStatus
  <2> QED
      BY <1>1, <2>1 DEF CommitBatch
<1>2. \A l \in Leads : Reviewed(l) # "promoted"
    BY DEF Reviewed
<1>3. CASE ReviewOnly
    BY <1>2, <1>3 DEF ReviewOnly
<1>4. ASSUME NEW l \in Leads, Promote(l) PROVE PromotedHasPosting'
  <2>1. \A k \in Leads : lead'[k].status = "promoted" => k = l \/ lead[k].status = "promoted"
      BY <1>2, <1>4 DEF Promote
  <2>2. \A k \in Leads : posting'[k] = IF k = l THEN Upserted(l) ELSE posting[k]
      BY <1>4 DEF Promote
  <2>3. Upserted(l).status # "none"
      BY DEF Upserted
  <2> QED
      BY <2>1, <2>2, <2>3
<1>5. ASSUME NEW l \in Leads, PostingMoves(l) PROVE PromotedHasPosting'
  <2>1. PICK move \in Onward : posting' = [posting EXCEPT ![l].status = move[2]]
      BY <1>5 DEF PostingMoves
  <2>2. move[2] # "none"
      BY DEF Onward
  <2> QED
      BY <1>5, <2>1, <2>2 DEF PostingMoves
<1>6. ASSUME NEW l \in Leads, RunEscalates(l) \/ RunReopens(l) PROVE PromotedHasPosting'
    BY <1>6 DEF RunEscalates, RunReopens
<1>7. CASE \/ Poll \/ (\E l \in Leads : WriteLead(l)) \/ RecordPoll \/ Die
           \/ QuarterPasses \/ UNCHANGED vars
    BY <1>7 DEF Poll, PollCollects, PollRefused, WriteLead, RecordPoll, Die, QuarterPasses, vars
<1> QED
    BY <1>1, <1>3, <1>4, <1>5, <1>6, <1>7 DEF Next, Ingest, Review, Pipeline

(* The lead promoted is worth most of all leads that deserve promotion,    *)
(* counting a personal connection as five points, and none with a better   *)
(* connection is passed over on a tie, whatever the feed shows.            *)
THEOREM BestLeadPromoted == Spec => BestPromoted
<1> DEFINE Best ==
        \A l, k \in Leads :
            posting[l].status = "none" /\ posting'[l].status # "none" /\ Deserving(k) =>
                \/ Worth(l) > Worth(k)
                \/ Worth(l) = Worth(k) /\ Quality(lead[l].view) >= Quality(lead[k].view)
<1>1. ASSUME TypeOK, [Next]_vars, NEW l \in Leads,
             posting[l].status = "none", posting'[l].status # "none"
      PROVE  l \in FirstOf(CompanyWinners)
  <2>1. ASSUME NEW m \in Leads, Promote(m) PROVE m = l
      BY <1>1, <2>1 DEF Promote, TypeOK
  <2>2. ASSUME NEW m \in Leads, PostingMoves(m) PROVE FALSE
    <3>1. posting[m].status # "none"
        BY <2>2 DEF PostingMoves, Onward
    <3> QED
        BY <1>1, <2>2, <3>1 DEF PostingMoves, TypeOK
  <2>3. ASSUME NEW m \in Leads, RunEscalates(m) \/ RunReopens(m) PROVE FALSE
      BY <1>1, <2>3 DEF RunEscalates, RunReopens, TypeOK
  <2>4. CASE Poll \/ Ingest \/ ReviewOnly \/ Die \/ QuarterPasses \/ UNCHANGED vars
      BY <1>1, <2>4 DEF Poll, PollCollects, PollRefused, Ingest, WriteLead, CommitBatch,
                        RecordPoll, ReviewOnly, Die, QuarterPasses, vars
  <2> QED
      BY <1>1, <2>1, <2>2, <2>3, <2>4 DEF Next, Review, Pipeline, Promote
<1>2. ASSUME TypeOK, PromotedHasPosting, NEW k \in Leads, Deserving(k)
      PROVE  k \in Eligible
    BY <1>2 DEF Deserving, Eligible, Candidates, Materialized, PromotedHasPosting, TypeOK
<1>3. ASSUME TypeOK, PromotedHasPosting, [Next]_vars PROVE Best
  <2> SUFFICES ASSUME NEW l \in Leads, NEW k \in Leads, posting[l].status = "none",
                      posting'[l].status # "none", Deserving(k)
               PROVE  \/ Worth(l) > Worth(k)
                      \/ Worth(l) = Worth(k) /\ Quality(lead[l].view) >= Quality(lead[k].view)
      OBVIOUS
  <2>1. /\ l \in Eligible /\ k \in Eligible /\ (l = k \/ Ahead(l, k))
      BY <1>1, <1>2, <1>3, FirstWinnerAhead
  <2>2. /\ Worth(l) \in Int /\ Quality(lead[l].view) \in Int
        /\ Worth(k) \in Int /\ Quality(lead[k].view) \in Int
      BY <1>3, <2>1, EligibleRanked, Compared
  <2> QED
      BY <2>1, <2>2 DEF Ahead
<1>4. TypeOK /\ PromotedHasPosting /\ [Next]_vars => [Best]_vars
    BY <1>3
<1>5. Init => PromotedHasPosting
    BY DEF Init, PromotedHasPosting
<1>6. IntakeInv => TypeOK
    BY DEF IntakeInv
<1>7. Spec => [][Best]_vars
    BY <1>4, <1>5, <1>6, PromotedStep, IntakeInvariant, PTL DEF Spec
<1> QED
    BY <1>7 DEF BestPromoted
=============================================================================
