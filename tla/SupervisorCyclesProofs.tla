----------------------- MODULE SupervisorCyclesProofs -----------------------
(***************************************************************************)
(* Proofs about SupervisorCycles, for any number of workers, contacts and  *)
(* days: the cycles implement the lease they run under, and the one batch  *)
(* of a day and the one mail of a contact rest on that lease alone.        *)
(***************************************************************************)
EXTENDS SupervisorCycles, RuntimeLeaseProofs, SequenceTheorems, WellFoundedInduction

(***************************************************************************)
(* Every step of the composition is a step of the lease or leaves it       *)
(* alone.                                                                  *)
(***************************************************************************)
LEMMA LeaseMoves == [CyclesNext]_all => [Next]_vars
<1> SUFFICES ASSUME [CyclesNext]_all PROVE [Next]_vars
    OBVIOUS
<1>1. ASSUME NEW w \in Workers, StartCycle(w) PROVE [Next]_vars
    BY <1>1 DEF StartCycle, Next
<1>2. ASSUME NEW w \in Workers, CycleStep(w) PROVE [Next]_vars
  <2>1. CASE TakeLease(w) \/ SelectWork(w) \/ FinishCycle(w) \/ RaiseInCycle(w)
             \/ EndCycle(w)
      BY <2>1 DEF TakeLease, SelectWork, FinishCycle, RaiseInCycle, EndCycle, Next, Work
  <2>2. CASE WorkOn(w)
      BY <2>2 DEF WorkOn, lease, vars
  <2> QED
      BY <1>2, <2>1, <2>2 DEF CycleStep
<1>3. ASSUME NEW w \in Workers, DieInCycle(w) PROVE [Next]_vars
    BY <1>3 DEF DieInCycle, Next
<1>4. CASE TimePasses
    BY <1>4 DEF TimePasses, Next
<1>5. CASE Outside
    BY <1>5 DEF Outside, lease, vars
<1>6. CASE UNCHANGED all
    BY <1>6 DEF all, lease, vars
<1> QED
    BY <1>1, <1>2, <1>3, <1>4, <1>5, <1>6 DEF CyclesNext

(* Spec of RuntimeLease: what was proved of the lease holds of the cycles  *)
(* with their work (run_supervisor_cycle).                                 *)
THEOREM CyclesImplementLease == CyclesSpec => Spec
<1>1. CyclesInit => Init
    BY DEF CyclesInit
<1> QED
    BY <1>1, LeaseMoves, PTL DEF CyclesSpec, Spec

-----------------------------------------------------------------------------
(***************************************************************************)
(* OneBatchADay.  BatchInv is inductive: as long as no cycle was granted   *)
(* the lease while another worked there is one that works at most, only it *)
(* prepares a batch, and its day still has none.                           *)
(***************************************************************************)
Alone == \A v, w \in Workers : Holding(v) /\ Holding(w) => v = w

BatchInv ==
    /\ pc \in [Workers -> Steps]
    /\ day \in [Workers -> 0 .. MaxDay]
    /\ today \in 0 .. MaxDay
    /\ builder \in [Workers -> {"idle", "chosen", "building"}]
    /\ batches \in Seq(Batches)
    /\ \A w \in Workers : builder[w] # "idle" => pc[w] = "acting"
    /\ ~overlapped =>
          /\ Alone
          /\ \A j, k \in DOMAIN batches : j # k => batches[j].day # batches[k].day
          /\ \A w \in Workers : builder[w] = "building" => Due(day[w])

LEMMA BatchInit == CyclesInit => BatchInv
<1> SUFFICES ASSUME CyclesInit PROVE BatchInv
    OBVIOUS
<1> USE MaintenanceBounds
<1>1. pc = [w \in Workers |-> "idle"] /\ ~overlapped
    BY DEF CyclesInit, Init
<1>2. /\ today \in 0 .. MaxDay
      /\ day = [w \in Workers |-> 0]
      /\ builder = [w \in Workers |-> "idle"]
      /\ batches \in {<<>>, [k \in 1 .. today + 1 |->
                             [day |-> k - 1, status |-> "not_approved", approving |-> FALSE]]}
    BY DEF CyclesInit, MaintenanceInit
<1>3. batches \in Seq(Batches)
  <2>1. CASE batches = <<>>
      BY <2>1
  <2>2. CASE batches = [k \in 1 .. today + 1 |->
                         [day |-> k - 1, status |-> "not_approved", approving |-> FALSE]]
    <3>1. \A k \in 1 .. today + 1 :
             [day |-> k - 1, status |-> "not_approved", approving |-> FALSE] \in Batches
        BY <1>2 DEF Batches, BatchStatuses
    <3>2. today + 1 \in Nat
        BY <1>2
    <3> QED
        BY <2>2, <3>1, <3>2
  <2> QED
      BY <1>2, <2>1, <2>2
<1>4. \A j, k \in DOMAIN batches : j # k => batches[j].day # batches[k].day
    BY <1>2
<1>5. Alone
    BY <1>1 DEF Alone, Holding
<1> QED
    BY <1>1, <1>2, <1>3, <1>4, <1>5 DEF BatchInv, Steps

LEMMA BatchStep == BatchInv /\ [CyclesNext]_all => BatchInv'
<1> SUFFICES ASSUME BatchInv, [CyclesNext]_all PROVE BatchInv'
    OBVIOUS
<1> USE MaintenanceBounds DEF BatchInv, Alone, Steps, Holding
(* A step that touches the lease only: nobody begins to work.              *)
<1>0. ASSUME pc' \in [Workers -> Steps], overlapped' = overlapped,
             UNCHANGED <<today, day, builder, batches>>,
             \A w \in Workers : Holding(w)' => Holding(w),
             \A w \in Workers : builder[w] # "idle" => pc'[w] = "acting"
      PROVE  BatchInv'
    BY <1>0 DEF Due
<1>1. ASSUME NEW w \in Workers, StartCycle(w) PROVE BatchInv'
  <2>1. /\ pc[w] = "idle" /\ pc' = [pc EXCEPT ![w] = "started"]
        /\ day' = [day EXCEPT ![w] = today]
        /\ UNCHANGED <<today, builder, batches, overlapped>>
      BY <1>1 DEF StartCycle, Start
  <2> QED
      BY <2>1 DEF Due
<1>2. ASSUME NEW w \in Workers, TakeLease(w) PROVE BatchInv'
  <2>1. /\ pc[w] = "started" /\ pc' = [pc EXCEPT ![w] = "gate"]
        /\ UNCHANGED <<today, day, builder, batches>>
      BY <1>2 DEF TakeLease, Acquire, Reclaim, Grant, maintaining
  <2>2. ~overlapped' => ~overlapped /\ \A v \in Workers : ~Holding(v)
      BY <1>2 DEF TakeLease
  <2> QED
      BY <2>1, <2>2 DEF Due
<1>3. ASSUME NEW w \in Workers, SelectWork(w) PROVE BatchInv'
  <2>1. /\ pc[w] = "gate" /\ pc' = [pc EXCEPT ![w] = "acting"]
        /\ UNCHANGED <<today, day, batches, overlapped>>
        /\ builder' = builder \/ builder' = [builder EXCEPT ![w] = "chosen"]
      BY <1>3 DEF SelectWork, PassGate, Choose, ChooseMaintenance, maintaining
  <2> QED
      BY <2>1 DEF Due
<1>4. ASSUME NEW w \in Workers, WorkOn(w) PROVE BatchInv'
  <2> /\ pc' = pc /\ overlapped' = overlapped
      BY <1>4 DEF WorkOn, lease, vars
  <2>1. CASE UNCHANGED maintaining
      BY <2>1 DEF maintaining, Due
  <2>2. CASE Build(w)
      BY <2>2 DEF Build, Due
  <2>3. CASE NotDue(w)
      BY <2>3 DEF NotDue, Due
  <2>4. ASSUME NEW passed \in BOOLEAN, InsertBatch(w, passed) PROVE BatchInv'
    <3> DEFINE row == [day |-> day[w], approving |-> FALSE,
                       status |-> IF passed THEN "pending" ELSE "failed_validation"]
    <3>1. row \in Batches /\ row.day = day[w]
        BY DEF Batches, BatchStatuses
    <3> HIDE DEF row
    <3>2. /\ pc[w] = "acting" /\ builder[w] = "building"
          /\ batches' = Append(batches, row)
          /\ builder' = [builder EXCEPT ![w] = "idle"]
          /\ UNCHANGED <<today, day>>
        BY <2>4 DEF InsertBatch, row
    <3>3. /\ batches' \in Seq(Batches)
          /\ DOMAIN batches' = DOMAIN batches \cup {Len(batches) + 1}
          /\ \A k \in DOMAIN batches : batches'[k] = batches[k]
          /\ batches'[Len(batches) + 1] = row
        BY <3>1, <3>2
    <3>4. ASSUME ~overlapped
          PROVE  /\ \A v \in Workers : builder'[v] # "building"
                 /\ \A j, k \in DOMAIN batches' : j # k => batches'[j].day # batches'[k].day
        BY <3>1, <3>2, <3>3, <3>4 DEF Due
    <3> QED
        BY <3>2, <3>3, <3>4
  <2> QED
      BY <1>4, <2>1, <2>2, <2>3, <2>4 DEF WorkOn, MaintenanceStep
<1>5. ASSUME NEW w \in Workers, FinishCycle(w) PROVE BatchInv'
  <2>1. /\ pc' = [pc EXCEPT ![w] = "releasing"] /\ pc[w] = "acting"
        /\ builder[w] = "idle" /\ overlapped' = overlapped
        /\ UNCHANGED <<today, day, builder, batches>>
      BY <1>5 DEF FinishCycle, Finish, Unoccupied, maintaining
  <2> QED
      BY <1>0, <2>1
<1>6. ASSUME NEW w \in Workers, RaiseInCycle(w) PROVE BatchInv'
  <2>1. /\ pc' = [pc EXCEPT ![w] = "releasing"] /\ pc[w] = "acting"
        /\ builder' = [builder EXCEPT ![w] = "idle"]
        /\ UNCHANGED <<today, day, batches, overlapped>>
      BY <1>6 DEF RaiseInCycle, Finish, Forgotten
  <2> QED
      BY <2>1 DEF Due
<1>7. ASSUME NEW w \in Workers, EndCycle(w) \/ DieInCycle(w) PROVE BatchInv'
  <2>1. /\ pc' = [pc EXCEPT ![w] = "idle"]
        /\ day' = [day EXCEPT ![w] = 0]
        /\ builder' = [builder EXCEPT ![w] = "idle"] \/ (builder' = builder /\ pc[w] # "acting")
        /\ UNCHANGED <<today, batches, overlapped>>
      BY <1>7 DEF EndCycle, DieInCycle, Defer, Release, Die, Ended, DayOver, Forgotten
  <2> QED
      BY <2>1 DEF Due
<1>8. CASE TimePasses
    BY <1>0, <1>8 DEF TimePasses, Tick, maintaining
<1>9. CASE Outside
  <2> /\ pc' = pc /\ overlapped' = overlapped
      BY <1>9 DEF Outside, lease, vars
  <2>1. CASE UNCHANGED maintaining
      BY <1>0, <2>1 DEF maintaining
  <2>2. CASE Midnight
      BY <2>2 DEF Midnight, Due
  <2>3. CASE Review
    <3>1. PICK k \in DOMAIN batches :
             RejectBatch(k) \/ MergeBatch(k) \/ \E killed \in BOOLEAN : EndApproval(k, killed)
        BY <2>3 DEF Review
    <3>2. UNCHANGED <<today, day, builder>>
        BY <3>1 DEF RejectBatch, MergeBatch, EndApproval
    <3>3. batches[k] \in Batches
        OBVIOUS
    <3>4. PICK row \in Batches : row.day = batches[k].day /\ batches' = [batches EXCEPT ![k] = row]
      <4> DEFINE new(st, ap) == [day |-> batches[k].day, status |-> st, approving |-> ap]
      <4>1. \A st \in BatchStatuses, ap \in BOOLEAN :
               new(st, ap) \in Batches /\ new(st, ap).day = batches[k].day
          BY <3>3 DEF Batches
      <4>2. \E st \in BatchStatuses, ap \in BOOLEAN : batches' = [batches EXCEPT ![k] = new(st, ap)]
          BY <3>1, <3>3 DEF RejectBatch, MergeBatch, EndApproval, Marked, Batches, BatchStatuses
      <4> QED
          BY <4>1, <4>2
    <3>5. /\ batches' \in Seq(Batches) /\ DOMAIN batches' = DOMAIN batches
          /\ \A j \in DOMAIN batches : batches'[j].day = batches[j].day
        BY <3>4
    <3> QED
        BY <3>2, <3>5 DEF Due
  <2> QED
      BY <1>9, <2>1, <2>2, <2>3 DEF Outside
<1>10. CASE UNCHANGED all
    BY <1>0, <1>10 DEF all, lease, vars, maintaining
<1> QED
    BY <1>1, <1>2, <1>3, <1>4, <1>5, <1>6, <1>7, <1>8, <1>9, <1>10
    DEF CyclesNext, CycleStep

(* OneBatchADay for any number of workers, days and crashes: the check and *)
(* the row of run_daily_maintenance_cycle stay together while the lease    *)
(* keeps cycles apart.                                                     *)
THEOREM BatchesOnceADay == CyclesSpec => []OneBatchADay
<1>1. BatchInv => OneBatchADay
    BY DEF BatchInv, OneBatchADay
<1> QED
    BY BatchInit, BatchStep, <1>1, PTL DEF CyclesSpec

-----------------------------------------------------------------------------
(***************************************************************************)
(* LearnersMailedOnce.  A contact has one message at most (OneMessage),    *)
(* and only a cycle that acts has a contact in hand (HandsInv).  As long   *)
(* as no cycle was granted the lease while another worked (MailedInv), the *)
(* message in hand is still a draft, and while a contact's message may yet *)
(* be sent every acceptance but one in hand is among the unknown ones.     *)
(***************************************************************************)
Message == [row : Rows, file : Rows \cup {"none"}]
Answered == {"sent", "unsure", "failed", "guarded"}
WriterType ==
    [step : WriterSteps, who : Learners \cup {"none"}, mail : Nat,
     outcome : Answered \cup {"none", "found", "no", "rests"}, accepted : BOOLEAN, i : Nat]

LearningTypes ==
    /\ person \in [Learners -> [status : Statuses, email : BOOLEAN]]
    /\ mails \in [Learners -> Seq(Message)]
    /\ spent \in [Learners -> SUBSET FinderNames] /\ resting \subseteq FinderNames
    /\ writer \in [Workers -> WriterType]
    /\ received \in [Learners -> Nat] /\ unknown \in [Learners -> Nat]

(* The steps with a message in hand.                                       *)
WithMail == {"drafted", "ready", "answered"}

HandsInv ==
    \A w \in Workers :
        /\ writer[w].step # "idle" => pc[w] = "acting" /\ writer[w].who \in Learners
        /\ writer[w].step \in WithMail => writer[w].mail \in DOMAIN mails[writer[w].who]
        /\ writer[w].step = "answered" => writer[w].outcome \in Answered
        /\ writer[w].accepted => writer[w].step = "answered"

OneMessage == \A c \in Learners : Len(mails[c]) <= 1

(* The row of the one message.                                             *)
RowIn(messages) == IF messages = <<>> THEN "none" ELSE messages[1].row

(* An acceptance that the cycle in whose hands it is has not recorded.     *)
InHand(c) == \E w \in Workers : writer[w].accepted /\ writer[w].who = c

MailedInv ==
    ~overlapped =>
        /\ Alone
        /\ \A w \in Workers :
              writer[w].step \in WithMail => RowIn(mails[writer[w].who]) = "generated"
        /\ \A c \in Learners :
              received[c] <= unknown[c]
                             + IF RowIn(mails[c]) \in {"none", "generated"} /\ ~InHand(c)
                               THEN 0 ELSE 1

MailInv == pc \in [Workers -> Steps] /\ LearningTypes /\ HandsInv /\ OneMessage /\ MailedInv

LEMMA IdleWriter ==
    /\ WriterIdle \in WriterType
    /\ WriterIdle.step = "idle" /\ ~WriterIdle.accepted
  BY DEF WriterIdle, WriterType, WriterSteps

LEMMA LatestIsOnly ==
  ASSUME MailInv, NEW c \in Learners
  PROVE  /\ LatestRow(c) = RowIn(mails[c])
         /\ mails[c] # <<>> => Len(mails[c]) = 1 /\ DOMAIN mails[c] = {1}
         /\ mails[c] = <<>> => DOMAIN mails[c] = {}
         /\ \A k \in DOMAIN mails[c] : k = 1 /\ mails[c] # <<>> /\ mails[c][k] \in Message
<1>1. mails[c] \in Seq(Message) /\ Len(mails[c]) <= 1
    BY DEF MailInv, LearningTypes, OneMessage
<1>2. mails[c] # <<>> => Len(mails[c]) = 1
  <2> DEFINE n == Len(mails[c])
  <2>1. mails[c] # <<>> => n \in Nat \ {0}
      BY <1>1, EmptySeq
  <2>2. n <= 1
      BY <1>1
  <2> HIDE DEF n
  <2>3. n \in Nat \ {0} => n = 1
      BY <2>2
  <2> QED
      BY <2>1, <2>3 DEF n
<1> QED
    BY <1>1, <1>2 DEF LatestRow, RowIn

(* A nonempty set of natural numbers has a least element.                  *)
LEMMA LeastNumber ==
  ASSUME NEW T \in SUBSET Nat, T # {}
  PROVE  \E least \in T : \A n \in T : least <= n
<1> DEFINE R == OpToRel(<, Nat)
<1>1. IsWellFoundedOn(R, Nat)
    BY NatLessThanWellFounded
<1>2. \A m, n \in Nat : <<m, n>> \in R <=> m < n
    BY DEF OpToRel
<1> HIDE DEF R
<1>3. PICK least \in T : \A n \in T : ~(<<n, least>> \in R)
    BY <1>1, WFMin
<1>4. \A n \in T : ~(n < least)
    BY <1>2, <1>3
<1> QED
    BY <1>4

(* The finder asked next is one of those that can be asked.                *)
LEMMA NextFinder ==
  ASSUME MailInv, NEW w \in Workers, Askable(w) # {}
  PROVE  LET i == CHOOSE j \in Askable(w) : \A k \in Askable(w) : j <= k
         IN  i \in Nat /\ Finders[i] \in FinderNames
<1>1. writer[w].i \in Nat /\ Len(Finders) \in Nat
    BY LearningAssumption DEF MailInv, LearningTypes, WriterType
<1>2. Askable(w) \subseteq 1 .. Len(Finders)
    BY <1>1 DEF Askable
<1>3. \E j \in Askable(w) : \A k \in Askable(w) : j <= k
    BY <1>2, LeastNumber
<1> QED
    BY <1>2, <1>3 DEF FinderNames

(* A step of the cycle of w that acts on contact d: what is asked of it.   *)
LEMMA WriterMoves ==
  ASSUME MailInv, LearningTypes', NEW w \in Workers,
         pc[w] = "acting", pc' \in [Workers -> Steps],
         \A v \in Workers : Holding(v)' => Holding(v),
         \A v \in Workers \ {w} : pc'[v] = pc[v] /\ writer'[v] = writer[v],
         OneMessage', ~overlapped' => ~overlapped,
         \A c \in Learners : DOMAIN mails[c] \subseteq DOMAIN mails'[c],
         writer'[w].step # "idle" => pc'[w] = "acting" /\ writer'[w].who \in Learners,
         writer'[w].step \in WithMail =>
             /\ writer'[w].mail \in DOMAIN mails'[writer'[w].who]
             /\ ~overlapped => RowIn(mails'[writer'[w].who]) = "generated",
         writer'[w].step = "answered" => writer'[w].outcome \in Answered,
         writer'[w].accepted => writer'[w].step = "answered",
         ~overlapped =>
             \A c \in Learners :
                 received'[c] <= unknown'[c]
                                 + IF /\ RowIn(mails'[c]) \in {"none", "generated"}
                                      /\ ~(writer'[w].accepted /\ writer'[w].who = c)
                                   THEN 0 ELSE 1
  PROVE  MailInv'
<1>1. HandsInv'
  <2> SUFFICES ASSUME NEW v \in Workers
               PROVE  /\ writer'[v].step # "idle" => pc'[v] = "acting" /\ writer'[v].who \in Learners
                      /\ writer'[v].step \in WithMail =>
                             writer'[v].mail \in DOMAIN mails'[writer'[v].who]
                      /\ writer'[v].step = "answered" => writer'[v].outcome \in Answered
                      /\ writer'[v].accepted => writer'[v].step = "answered"
      BY DEF HandsInv
  <2>1. CASE v = w
      BY <2>1
  <2>2. CASE v # w
      BY <2>2 DEF MailInv, HandsInv, WithMail
  <2> QED
      BY <2>1, <2>2
<1>2. MailedInv'
  <2> SUFFICES ASSUME ~overlapped' PROVE MailedInv'
      BY DEF MailedInv
  <2>1. ~overlapped /\ Alone
      BY DEF MailInv, MailedInv
  <2>2. Alone'
      BY <2>1 DEF Alone
  (* Nobody else has anything in hand.                                     *)
  <2>3. \A v \in Workers \ {w} : writer'[v].step = "idle" /\ ~writer'[v].accepted
    <3> SUFFICES ASSUME NEW v \in Workers \ {w}
                 PROVE  writer[v].step = "idle" /\ ~writer[v].accepted
        OBVIOUS
    <3>1. ~Holding(v)
        BY <2>1 DEF Alone, Holding
    <3> QED
        BY <3>1 DEF MailInv, HandsInv, Holding
  <2>4. \A v \in Workers : writer'[v].step \in WithMail => v = w
      BY <2>3 DEF WithMail
  <2>5. \A c \in Learners : writer'[w].accepted /\ writer'[w].who = c => InHand(c)'
      BY DEF InHand
  <2>6. \A c \in Learners : received'[c] \in Nat /\ unknown'[c] \in Nat
      BY DEF LearningTypes
  <2>7. \A c \in Learners :
           received'[c] <= unknown'[c]
                          + IF RowIn(mails'[c]) \in {"none", "generated"} /\ ~(InHand(c)')
                            THEN 0 ELSE 1
    <3> SUFFICES ASSUME NEW c \in Learners
                 PROVE  received'[c] <= unknown'[c]
                          + IF RowIn(mails'[c]) \in {"none", "generated"} /\ ~(InHand(c)')
                            THEN 0 ELSE 1
        OBVIOUS
    <3> DEFINE open == RowIn(mails'[c]) \in {"none", "generated"}
               told == writer'[w].accepted /\ writer'[w].who = c
    <3>1. received'[c] <= unknown'[c] + IF open /\ ~told THEN 0 ELSE 1
        BY <2>1
    <3>2. told => InHand(c)'
        BY <2>5
    <3>3. received'[c] \in Nat /\ unknown'[c] \in Nat
        BY <2>6
    <3> HIDE DEF open, told
    <3>4. received'[c] <= unknown'[c] + IF open /\ ~(InHand(c)') THEN 0 ELSE 1
        BY <3>1, <3>2, <3>3
    <3> QED
        BY <3>4 DEF open
  <2>8. \A v \in Workers :
           writer'[v].step \in WithMail => RowIn(mails'[writer'[v].who]) = "generated"
      BY <2>1, <2>4
  <2> QED
      BY <2>2, <2>7, <2>8 DEF MailedInv, RowIn
<1> QED
    BY <1>1, <1>2 DEF MailInv

(***************************************************************************)
(* The steps of outreach and search that act on the contact in hand.       *)
(***************************************************************************)
LEMMA LearningKeeps ==
  ASSUME MailInv, NEW w \in Workers, LearningStep(w), UNCHANGED <<pc, overlapped>>
  PROVE  MailInv'
<1> DEFINE c == writer[w].who
           Fits == LearningTypes' /\ OneMessage'
(* What holds of the writer and of its contact before the step.            *)
<1>a. /\ writer \in [Workers -> WriterType] /\ writer[w] \in WriterType
      /\ person \in [Learners -> [status : Statuses, email : BOOLEAN]]
      /\ mails \in [Learners -> Seq(Message)]
      /\ spent \in [Learners -> SUBSET FinderNames] /\ resting \subseteq FinderNames
      /\ received \in [Learners -> Nat] /\ unknown \in [Learners -> Nat]
      /\ pc \in [Workers -> Steps]
    BY DEF MailInv, LearningTypes
<1>b. ASSUME writer[w].step # "idle" PROVE pc[w] = "acting" /\ c \in Learners
    BY <1>b DEF MailInv, HandsInv
(* The bound, seen from the only cycle that may have anything in hand.     *)
<1>c. ASSUME ~overlapped, pc[w] = "acting"
      PROVE  /\ writer[w].step \in WithMail => RowIn(mails[c]) = "generated"
             /\ \A d \in Learners :
                   received[d] <= unknown[d]
                                  + IF /\ RowIn(mails[d]) \in {"none", "generated"}
                                       /\ ~(writer[w].accepted /\ c = d)
                                    THEN 0 ELSE 1
  <2>1. \A v \in Workers \ {w} : ~writer[v].accepted
      BY <1>c DEF MailInv, MailedInv, HandsInv, Alone, Holding
  <2>2. \A d \in Learners : InHand(d) => writer[w].accepted /\ c = d
      BY <2>1 DEF InHand
  <2> QED
      BY <1>c, <2>2, <1>a DEF MailInv, MailedInv
(* A step that leaves the messages alone, of a writer that has not sent.   *)
<1>d. ASSUME pc[w] = "acting", ~writer[w].accepted, UNCHANGED <<mails, received, unknown>>,
             writer' \in [Workers -> WriterType],
             \A v \in Workers \ {w} : writer'[v] = writer[v],
             person' \in [Learners -> [status : Statuses, email : BOOLEAN]],
             spent' \in [Learners -> SUBSET FinderNames], resting' \subseteq FinderNames,
             writer'[w].step # "idle" => writer'[w].who \in Learners,
             ~writer'[w].accepted,
             writer'[w].step \in WithMail =>
                 /\ writer'[w].mail \in DOMAIN mails[writer'[w].who]
                 /\ ~overlapped => RowIn(mails[writer'[w].who]) = "generated",
             writer'[w].step = "answered" => writer'[w].outcome \in Answered
      PROVE  MailInv'
  <2>1. LearningTypes' /\ OneMessage'
      BY <1>a, <1>d DEF LearningTypes, MailInv, OneMessage
  <2> QED
      BY <1>a, <1>c, <1>d, <2>1, WriterMoves DEF Holding
<1>e. c \in Learners =>
        /\ LatestRow(c) = RowIn(mails[c])
        /\ mails[c] # <<>> => Len(mails[c]) = 1 /\ DOMAIN mails[c] = {1}
        /\ mails[c] = <<>> => DOMAIN mails[c] = {}
    BY LatestIsOnly
<1>f. writer[w].step # "answered" => ~writer[w].accepted
    BY DEF MailInv, HandsInv
<1>1. CASE Draft(w)
  <2> DEFINE row == [row |-> "generated", file |-> "none"]
  <2>1. /\ pc[w] = "acting" /\ writer[w].step = "write" /\ c \in Learners
        /\ mails[c] = <<>> /\ ~writer[w].accepted
      BY <1>1, <1>b, <1>f DEF Draft, WriterAt
  <2>2. row \in Message
      BY DEF Message, Rows
  <2>3. mails' = [mails EXCEPT ![c] = <<row>>]
      BY <1>1, <1>a, <2>1, <2>2 DEF Draft
  <2>4. mails' \in [Learners -> Seq(Message)] /\ OneMessage'
      BY <1>a, <2>1, <2>2, <2>3 DEF MailInv, OneMessage
  <2>5. /\ writer' \in [Workers -> WriterType]
        /\ \A v \in Workers \ {w} : writer'[v] = writer[v]
        /\ writer'[w].step = "drafted" /\ writer'[w].mail = 1 /\ writer'[w].who = c
        /\ writer'[w].accepted = writer[w].accepted
    <3> DEFINE new == [writer[w] EXCEPT !.step = "drafted", !.mail = 1]
    <3>1. writer' = [writer EXCEPT ![w] = new]
      <4>1. writer' = [writer EXCEPT ![w].step = "drafted", ![w].mail = Len(mails[c]) + 1]
          BY <1>1 DEF Draft
      <4>2. Len(mails[c]) + 1 = 1
          BY <2>1, EmptySeq
      <4>3. writer' = [writer EXCEPT ![w].step = "drafted", ![w].mail = 1]
          BY <4>1, <4>2
      <4> QED
          BY <1>a, <4>3
    <3>2. new \in WriterType
        BY <1>a DEF WriterType, WriterSteps
    <3> QED
        BY <1>a, <3>1, <3>2 DEF WriterType
  <2>6. LearningTypes'
      BY <1>1, <1>a, <2>4, <2>5 DEF Draft, LearningTypes
  <2>7. /\ RowIn(mails'[c]) = "generated" /\ DOMAIN mails'[c] = {1} /\ DOMAIN mails[c] = {}
        /\ \A d \in Learners \ {c} : mails'[d] = mails[d]
      BY <1>a, <1>e, <2>1, <2>3 DEF RowIn
  <2>8. ASSUME ~overlapped
        PROVE  \A d \in Learners :
                 received'[d] <= unknown'[d]
                                 + IF /\ RowIn(mails'[d]) \in {"none", "generated"}
                                      /\ ~(writer'[w].accepted /\ writer'[w].who = d)
                                   THEN 0 ELSE 1
    <3>1. RowIn(mails[c]) = "none"
        BY <2>1 DEF RowIn
    <3> QED
        BY <1>1, <1>c, <2>1, <2>5, <2>7, <2>8, <3>1 DEF Draft
  <2> QED
      BY <1>a, <2>1, <2>4, <2>5, <2>6, <2>7, <2>8, WriterMoves DEF Holding, WithMail
<1>2. CASE PublishDraft(w)
  <2>1. /\ pc[w] = "acting" /\ writer[w].step = "drafted" /\ c \in Learners
        /\ writer[w].mail \in DOMAIN mails[c] /\ ~writer[w].accepted
      BY <1>2, <1>b, <1>f DEF PublishDraft, WriterAt, MailInv, HandsInv, WithMail
  <2>2. mails[c] # <<>> /\ writer[w].mail = 1 /\ mails[c][1] \in Message
      BY <2>1, LatestIsOnly
  <2>3. /\ mails' \in [Learners -> Seq(Message)]
        /\ \A d \in Learners : Len(mails'[d]) = Len(mails[d]) /\ DOMAIN mails'[d] = DOMAIN mails[d]
                               /\ RowIn(mails'[d]) = RowIn(mails[d])
      BY <1>2, <1>a, <2>1, <2>2 DEF PublishDraft, Message, Rows, RowIn
  <2>4. /\ writer' \in [Workers -> WriterType]
        /\ \A v \in Workers \ {w} : writer'[v] = writer[v]
        /\ writer'[w].step = "ready" /\ writer'[w].mail = writer[w].mail /\ writer'[w].who = c
        /\ ~writer'[w].accepted
      BY <1>2, <1>a, <2>1 DEF PublishDraft, Onward, WriterType, WriterSteps
  <2>5. LearningTypes' /\ OneMessage'
      BY <1>2, <1>a, <2>3, <2>4 DEF PublishDraft, LearningTypes, MailInv, OneMessage
  <2>6. UNCHANGED <<received, unknown>> /\ writer[w].step \in WithMail
      BY <1>2, <2>1 DEF PublishDraft, WithMail
  <2> QED
      BY <1>a, <1>c, <2>1, <2>3, <2>4, <2>5, <2>6, WriterMoves DEF Holding, WithMail
(* What is left of a cycle's work when it is given up or recorded.         *)
<1>g. ASSUME writer' = [writer EXCEPT ![w] = WriterIdle]
      PROVE  /\ writer' \in [Workers -> WriterType]
             /\ \A v \in Workers \ {w} : writer'[v] = writer[v]
             /\ writer'[w].step = "idle" /\ ~writer'[w].accepted
    BY <1>a, <1>g, IdleWriter
<1>3. CASE Resume(w)
  <2>1. /\ pc[w] = "acting" /\ writer[w].step = "write" /\ c \in Learners
        /\ mails[c] # <<>> /\ ~writer[w].accepted /\ MayWrite(c)
      BY <1>3, <1>b, <1>f DEF Resume, WriterAt
  <2>2. Len(mails[c]) = 1 /\ DOMAIN mails[c] = {1} /\ RowIn(mails[c]) = "generated"
    <3>1. mails[c][1] \in Message /\ LatestRow(c) \in {"none", "generated"}
        BY <2>1, LatestIsOnly DEF MayWrite
    <3> QED
        BY <1>e, <2>1, <3>1 DEF RowIn, Message, Rows
  <2>3. writer' = [writer EXCEPT ![w].step = "ready", ![w].mail = 1]
      BY <1>3, <2>2 DEF Resume
  <2>4. /\ writer' \in [Workers -> WriterType]
        /\ \A v \in Workers \ {w} : writer'[v] = writer[v]
        /\ writer'[w].step = "ready" /\ writer'[w].mail = 1 /\ writer'[w].who = c
        /\ writer'[w].accepted = writer[w].accepted
    <3> DEFINE new == [writer[w] EXCEPT !.step = "ready", !.mail = 1]
    <3>1. writer' = [writer EXCEPT ![w] = new]
        BY <1>a, <2>3
    <3>2. new \in WriterType
        BY <1>a DEF WriterType, WriterSteps
    <3> QED
        BY <1>a, <3>1, <3>2 DEF WriterType
  <2> QED
      BY <1>3, <1>a, <1>d, <2>1, <2>2, <2>4 DEF Resume
<1>4. CASE Refuse(w)
  <2>1. pc[w] = "acting" /\ ~writer[w].accepted
      BY <1>4, <1>f DEF Refuse, WriterAt
  <2> QED
      BY <1>4, <1>a, <1>d, <1>g, <2>1 DEF Refuse, WithMail
<1>5. CASE Guard(w)
  <2>1. /\ pc[w] = "acting" /\ writer[w].step = "ready" /\ c \in Learners
        /\ writer[w].mail \in DOMAIN mails[c] /\ ~writer[w].accepted
      BY <1>5, <1>b, <1>f DEF Guard, WriterAt, MailInv, HandsInv, WithMail
  <2>2. /\ writer' \in [Workers -> WriterType]
        /\ \A v \in Workers \ {w} : writer'[v] = writer[v]
        /\ writer'[w].step = "answered" /\ writer'[w].outcome = "guarded"
        /\ writer'[w].mail = writer[w].mail /\ writer'[w].who = c
        /\ writer'[w].accepted = writer[w].accepted
    <3> DEFINE new == [writer[w] EXCEPT !.step = "answered", !.outcome = "guarded"]
    <3>1. writer' = [writer EXCEPT ![w] = new]
        BY <1>5, <1>a DEF Guard
    <3>2. new \in WriterType
        BY <1>a DEF WriterType, WriterSteps, Answered
    <3> QED
        BY <1>a, <3>1, <3>2 DEF WriterType
  <2> QED
      BY <1>5, <1>a, <1>c, <1>d, <2>1, <2>2 DEF Guard, WithMail, Answered
<1>6. ASSUME NEW outcome \in Outcomes, NEW accepted \in BOOLEAN, Send(w, outcome, accepted)
      PROVE  MailInv'
  <2>1. /\ pc[w] = "acting" /\ writer[w].step = "ready" /\ c \in Learners
        /\ writer[w].mail \in DOMAIN mails[c] /\ ~writer[w].accepted
        /\ writer[w].step \in WithMail
      BY <1>6, <1>b, <1>f DEF Send, WriterAt, MailInv, HandsInv, WithMail
  <2>2. /\ writer' \in [Workers -> WriterType]
        /\ \A v \in Workers \ {w} : writer'[v] = writer[v]
        /\ writer'[w].step = "answered" /\ writer'[w].outcome = outcome
        /\ writer'[w].mail = writer[w].mail /\ writer'[w].who = c
        /\ writer'[w].accepted = accepted
    <3> DEFINE new == [writer[w] EXCEPT !.step = "answered", !.outcome = outcome,
                                        !.accepted = accepted]
    <3>1. writer' = [writer EXCEPT ![w] = new]
        BY <1>6, <1>a DEF Send
    <3>2. new \in WriterType
        BY <1>a DEF WriterType, WriterSteps, Answered, Outcomes
    <3> QED
        BY <1>a, <3>1, <3>2 DEF WriterType
  <2>3. /\ UNCHANGED <<person, mails, spent, resting, unknown>>
        /\ received' \in [Learners -> Nat]
        /\ \A d \in Learners : received'[d] = received[d] + IF accepted /\ d = c THEN 1 ELSE 0
      BY <1>6, <1>a, <2>1 DEF Send
  <2>4. LearningTypes' /\ OneMessage'
      BY <1>a, <2>2, <2>3 DEF LearningTypes, MailInv, OneMessage
  <2>5. ASSUME ~overlapped
        PROVE  \A d \in Learners :
                 received'[d] <= unknown'[d]
                                 + IF /\ RowIn(mails'[d]) \in {"none", "generated"}
                                      /\ ~(writer'[w].accepted /\ writer'[w].who = d)
                                   THEN 0 ELSE 1
    <3> SUFFICES ASSUME NEW d \in Learners
                 PROVE  received'[d] <= unknown[d]
                                 + IF /\ RowIn(mails[d]) \in {"none", "generated"}
                                      /\ ~(accepted /\ c = d)
                                   THEN 0 ELSE 1
        BY <2>2, <2>3
    <3>1. received[d] <= unknown[d]
                         + IF RowIn(mails[d]) \in {"none", "generated"} THEN 0 ELSE 1
        BY <1>c, <2>1, <2>5
    <3>2. c = d => RowIn(mails[d]) = "generated"
        BY <1>c, <2>1, <2>5
    <3>3. received[d] \in Nat /\ unknown[d] \in Nat
        BY <1>a
    <3>4. CASE c = d
        BY <2>3, <3>1, <3>2, <3>3, <3>4
    <3>5. CASE c # d
        BY <2>3, <3>1, <3>3, <3>5
    <3> QED
        BY <3>4, <3>5
  <2>6. ~overlapped => RowIn(mails[c]) = "generated"
      BY <1>c, <2>1
  <2>7. outcome \in Answered
      BY DEF Outcomes, Answered
  <2> QED
      BY <1>a, <2>1, <2>2, <2>3, <2>4, <2>5, <2>6, <2>7, WriterMoves DEF Holding, WithMail
(* An outcome is recorded: no draft is left.                               *)
<1>7. ASSUME NEW row \in {"sent", "blocked", "failed"}, writer[w].step = "answered",
             mails' = Told(c, writer[w].mail, row),
             writer' = [writer EXCEPT ![w] = WriterIdle],
             person' \in [Learners -> [status : Statuses, email : BOOLEAN]],
             UNCHANGED <<spent, resting, received, unknown>>
      PROVE  MailInv'
  <2>1. /\ pc[w] = "acting" /\ c \in Learners /\ writer[w].mail \in DOMAIN mails[c]
      BY <1>7, <1>b DEF MailInv, HandsInv, WithMail
  <2>2. writer[w].mail = 1 /\ mails[c] # <<>> /\ Len(mails[c]) = 1
      BY <2>1, LatestIsOnly
  <2>3. [row |-> row, file |-> row] \in Message
      BY DEF Message, Rows
  <2>4. /\ mails' \in [Learners -> Seq(Message)]
        /\ \A d \in Learners : Len(mails'[d]) = Len(mails[d]) /\ DOMAIN mails'[d] = DOMAIN mails[d]
        /\ \A d \in Learners \ {c} : mails'[d] = mails[d]
        /\ mails'[c] # <<>> /\ mails'[c][1].row = row
      BY <1>7, <1>a, <2>1, <2>2, <2>3 DEF Told
  <2>5. RowIn(mails'[c]) = row
      BY <2>4 DEF RowIn
  <2>6. LearningTypes' /\ OneMessage'
      BY <1>7, <1>a, <1>g, <2>4 DEF LearningTypes, MailInv, OneMessage
  <2>7. ASSUME ~overlapped, NEW d \in Learners
        PROVE  received'[d] <= unknown'[d]
                                 + IF /\ RowIn(mails'[d]) \in {"none", "generated"}
                                      /\ ~(writer'[w].accepted /\ writer'[w].who = d)
                                   THEN 0 ELSE 1
    <3>1. received[d] <= unknown[d]
                         + IF /\ RowIn(mails[d]) \in {"none", "generated"}
                              /\ ~(writer[w].accepted /\ c = d)
                           THEN 0 ELSE 1
        BY <1>c, <2>1, <2>7
    <3>2. received[d] \in Nat /\ unknown[d] \in Nat
        BY <1>a
    <3>3. CASE c = d
        BY <1>7, <2>5, <3>1, <3>2, <3>3
    <3>4. CASE c # d
        BY <1>7, <1>g, <2>4, <3>1, <3>2, <3>4
    <3> QED
        BY <3>3, <3>4
  <2> QED
      BY <1>7, <1>a, <1>g, <2>1, <2>4, <2>6, <2>7, WriterMoves DEF Holding, WithMail
<1>8. CASE RecordSent(w)
  <2>1. writer[w].step = "answered" /\ c \in Learners
      BY <1>8, <1>b DEF RecordSent, WriterAt
  <2>2. person' \in [Learners -> [status : Statuses, email : BOOLEAN]]
      BY <1>8, <1>a, <2>1 DEF RecordSent, Statuses
  <2> QED
      BY <1>8, <1>7, <2>1, <2>2 DEF RecordSent
<1>9. CASE RecordUnsent(w)
  <2>1. writer[w].step = "answered" /\ writer[w].outcome \in Answered
      BY <1>9 DEF RecordUnsent, WriterAt, MailInv, HandsInv
  <2>2. RowOf(writer[w].outcome) \in {"blocked", "failed"}
      BY <1>9, <2>1 DEF RecordUnsent, RowOf, Answered
  <2> QED
      BY <1>9, <1>7, <1>a, <2>1, <2>2 DEF RecordUnsent
<1>10. CASE BeginSearch(w)
  <2>1. /\ pc[w] = "acting" /\ writer[w].step = "search" /\ ~writer[w].accepted /\ c \in Learners
      BY <1>10, <1>b, <1>f DEF BeginSearch, WriterAt
  <2>2. /\ writer' \in [Workers -> WriterType]
        /\ \A v \in Workers \ {w} : writer'[v] = writer[v]
        /\ writer'[w].step = "asking" /\ writer'[w].who = c /\ ~writer'[w].accepted
      BY <1>10, <1>a, <2>1 DEF BeginSearch, Onward, WriterType, WriterSteps
  <2> QED
      BY <1>10, <1>a, <1>d, <2>1, <2>2 DEF BeginSearch, WithMail
<1>11. CASE Settle(w)
  <2>1. /\ pc[w] = "acting" /\ ~writer[w].accepted /\ c \in Learners
      BY <1>11, <1>b, <1>f DEF Settle, WriterAt
  <2>2. person' \in [Learners -> [status : Statuses, email : BOOLEAN]]
      BY <1>11, <1>a, <2>1 DEF Settle, Settled, Statuses
  <2> QED
      BY <1>11, <1>a, <1>d, <1>g, <2>1, <2>2 DEF Settle, WithMail
<1>12. ASSUME NEW answer \in {"found", "no", "rests"}, AskFinder(w, answer) PROVE MailInv'
  <2> DEFINE i == CHOOSE j \in Askable(w) : \A k \in Askable(w) : j <= k
             finder == Finders[i]
  <2>0. Askable(w) # {}
      BY <1>12 DEF AskFinder
  <2>1. i \in Nat /\ finder \in FinderNames
      BY <2>0, NextFinder
  <2>2. /\ pc[w] = "acting" /\ writer[w].step = "asking" /\ ~writer[w].accepted /\ c \in Learners
      BY <1>12, <1>b, <1>f DEF AskFinder, WriterAt
  <2>3. /\ writer' = [writer EXCEPT ![w].i = i, ![w].outcome = answer]
        /\ spent' = [spent EXCEPT ![c] = IF answer = "no" THEN spent[c] \cup {finder} ELSE spent[c]]
        /\ resting' = IF answer = "rests" THEN resting \cup {finder} ELSE resting
        /\ UNCHANGED <<person, mails, received, unknown>>
      BY <1>12 DEF AskFinder
  <2> HIDE DEF i, finder
  <2>4. /\ writer' \in [Workers -> WriterType]
        /\ \A v \in Workers \ {w} : writer'[v] = writer[v]
        /\ writer'[w].step = "asking" /\ writer'[w].who = c /\ ~writer'[w].accepted
    <3> DEFINE new == [writer[w] EXCEPT !.i = i, !.outcome = answer]
    <3>1. writer' = [writer EXCEPT ![w] = new]
        BY <1>a, <2>3
    <3>2. new \in WriterType
        BY <1>a, <2>1 DEF WriterType
    <3> QED
        BY <1>a, <2>2, <3>1, <3>2 DEF WriterType
  <2>5. spent' \in [Learners -> SUBSET FinderNames] /\ resting' \subseteq FinderNames
      BY <1>a, <2>1, <2>2, <2>3
  <2> QED
      BY <1>a, <1>d, <2>2, <2>3, <2>4, <2>5 DEF WithMail
<1> QED
    BY <1>1, <1>2, <1>3, <1>4, <1>5, <1>6, <1>8, <1>9, <1>10, <1>11, <1>12 DEF LearningStep

-----------------------------------------------------------------------------
LEMMA MailInit == CyclesInit => MailInv
<1> SUFFICES ASSUME CyclesInit PROVE MailInv
    OBVIOUS
<1> USE DEF CyclesInit
<1>1. pc = [w \in Workers |-> "idle"] /\ writer = [w \in Workers |-> WriterIdle]
    BY DEF Init, LearningInit
<1>2. LearningTypes
  <2>1. person \in [Learners -> [status : Statuses, email : BOOLEAN]]
    <3> DEFINE found == {[status |-> st, email |-> FALSE] :
                          st \in {"identified", "exhausted"}}
    <3>1. \A st \in {"identified", "exhausted"} :
             [status |-> st, email |-> FALSE] \in [status : Statuses, email : BOOLEAN]
        BY DEF Statuses
    <3>2. found \subseteq [status : Statuses, email : BOOLEAN]
        BY <3>1
    <3>3. person \in [Learners -> found]
        BY DEF LearningInit
    <3> HIDE DEF found
    <3> QED
        BY <3>2, <3>3
  <2>2. mails \in [Learners -> Seq(Message)]
      BY EmptySeq DEF LearningInit
  <2>3. writer \in [Workers -> WriterType]
      BY <1>1, IdleWriter
  <2> QED
      BY <2>1, <2>2, <2>3 DEF LearningInit, LearningTypes
<1>3. HandsInv
    BY <1>1, IdleWriter DEF HandsInv, WithMail
<1>4. OneMessage
    BY DEF LearningInit, OneMessage
<1>5. MailedInv
    BY <1>1, IdleWriter DEF LearningInit, MailedInv, Alone, Holding, WithMail, RowIn
<1> QED
    BY <1>1, <1>2, <1>3, <1>4, <1>5 DEF MailInv, Steps

(* The cycle of w is over, or raised: what it had in hand is forgotten, and *)
(* an acceptance in it is one that no row will tell of.                     *)
LEMMA AbandonKeeps ==
  ASSUME MailInv, NEW w \in Workers, Abandon(w), overlapped' = overlapped,
         pc[w] \in Steps \ {"idle"}, NEW to \in {"idle", "releasing"},
         to = "releasing" => Holding(w), pc' = [pc EXCEPT ![w] = to]
  PROVE  MailInv'
<1> DEFINE c == writer[w].who
           silent == writer[w].step = "answered" /\ writer[w].accepted
<1>a. /\ writer \in [Workers -> WriterType] /\ mails \in [Learners -> Seq(Message)]
      /\ received \in [Learners -> Nat] /\ unknown \in [Learners -> Nat]
      /\ pc \in [Workers -> Steps]
    BY DEF MailInv, LearningTypes
<1>b. /\ writer' = [writer EXCEPT ![w] = WriterIdle]
      /\ unknown' = IF silent THEN [unknown EXCEPT ![c] = unknown[c] + 1] ELSE unknown
      /\ UNCHANGED <<person, mails, spent, resting, received>>
    BY DEF Abandon
<1>c. /\ writer' \in [Workers -> WriterType] /\ \A v \in Workers \ {w} : writer'[v] = writer[v]
      /\ writer'[w].step = "idle" /\ ~writer'[w].accepted
    BY <1>a, <1>b, IdleWriter
<1>d. /\ pc' \in [Workers -> Steps] /\ \A v \in Workers \ {w} : pc'[v] = pc[v]
      /\ \A v \in Workers : Holding(v)' => Holding(v)
    BY <1>a DEF Steps, Holding
<1>e. LearningTypes' /\ OneMessage'
  <2>1. silent => c \in Learners
      BY DEF MailInv, HandsInv
  <2>2. unknown' \in [Learners -> Nat]
      BY <1>a, <1>b, <2>1
  <2> QED
      BY <1>b, <1>c, <2>2 DEF LearningTypes, MailInv, OneMessage
<1>1. CASE pc[w] = "acting"
  <2>1. silent => c \in Learners
      BY DEF MailInv, HandsInv
  <2>2. \A d \in Learners : unknown'[d] = unknown[d] + IF silent /\ d = c THEN 1 ELSE 0
      BY <1>a, <1>b, <2>1
  <2>3. ASSUME ~overlapped, NEW d \in Learners
        PROVE  received'[d] <= unknown'[d]
                               + IF /\ RowIn(mails'[d]) \in {"none", "generated"}
                                    /\ ~(writer'[w].accepted /\ writer'[w].who = d)
                                 THEN 0 ELSE 1
    <3>1. InHand(d) => silent /\ d = c
        BY <1>1, <2>3 DEF InHand, MailInv, MailedInv, HandsInv, Alone, Holding
    <3>2. received[d] <= unknown[d] + IF RowIn(mails[d]) \in {"none", "generated"} /\ ~InHand(d)
                                      THEN 0 ELSE 1
        BY <2>3 DEF MailInv, MailedInv
    <3>3. received[d] \in Nat /\ unknown[d] \in Nat
        BY <1>a
    <3>4. CASE InHand(d)
        BY <1>b, <2>2, <3>1, <3>2, <3>3, <3>4
    <3>5. CASE ~InHand(d)
        BY <1>b, <2>2, <3>2, <3>3, <3>5
    <3> QED
        BY <3>4, <3>5
  <2> QED
      BY <1>1, <1>b, <1>c, <1>d, <1>e, <2>3, WriterMoves DEF WithMail
<1>2. CASE pc[w] # "acting"
  <2>1. writer[w].step = "idle" /\ ~writer[w].accepted
      BY <1>2 DEF MailInv, HandsInv
  <2>2. /\ UNCHANGED <<mails, received, unknown>>
        /\ \A v \in Workers :
               writer'[v].step # "idle" \/ writer'[v].accepted => writer'[v] = writer[v] /\ v # w
      BY <1>b, <1>c, <2>1
  <2>3. HandsInv'
      BY <1>c, <1>d, <2>2 DEF MailInv, HandsInv, WithMail
  <2>4. MailedInv'
    <3>1. \A d \in Learners : InHand(d)' <=> InHand(d)
        BY <1>c, <2>1 DEF InHand
    <3>2. \A v \in Workers : writer'[v].step \in WithMail => v # w
        BY <1>c DEF WithMail
    <3> QED
        BY <1>c, <1>d, <2>2, <3>1, <3>2 DEF MailInv, MailedInv, Alone, RowIn
  <2> QED
      BY <1>d, <1>e, <2>3, <2>4 DEF MailInv
<1> QED
    BY <1>1, <1>2

LEMMA MailStep == MailInv /\ [CyclesNext]_all => MailInv'
<1> SUFFICES ASSUME MailInv, [CyclesNext]_all PROVE MailInv'
    OBVIOUS
(* A step that touches the lease only: nobody begins to work.              *)
<1>0. ASSUME pc' \in [Workers -> Steps], UNCHANGED <<learning, overlapped>>,
             \A w \in Workers : Holding(w)' => Holding(w),
             \A w \in Workers : pc[w] = "acting" /\ writer[w].step # "idle" => pc'[w] = "acting"
      PROVE  MailInv'
  <2> UNCHANGED <<person, mails, spent, resting, writer, received, unknown>>
      BY <1>0 DEF learning
  <2>1. LearningTypes' /\ OneMessage'
      BY DEF MailInv, LearningTypes, OneMessage
  <2>2. HandsInv'
      BY <1>0 DEF MailInv, HandsInv
  <2>3. MailedInv'
      BY <1>0 DEF MailInv, MailedInv, Alone, InHand
  <2> QED
      BY <1>0, <2>1, <2>2, <2>3 DEF MailInv
<1>a. pc \in [Workers -> Steps] /\ writer \in [Workers -> WriterType]
    BY DEF MailInv, LearningTypes
<1>1. ASSUME NEW w \in Workers, StartCycle(w) PROVE MailInv'
    BY <1>0, <1>1, <1>a DEF StartCycle, Start, Steps, Holding
<1>2. ASSUME NEW w \in Workers, TakeLease(w) PROVE MailInv'
  <2>1. /\ pc[w] = "started" /\ pc' = [pc EXCEPT ![w] = "gate"]
        /\ UNCHANGED <<person, mails, spent, resting, writer, received, unknown>>
        /\ overlapped' = (overlapped \/ \E v \in Workers : Holding(v))
      BY <1>2 DEF TakeLease, Acquire, Reclaim, Grant, learning
  <2>2. LearningTypes' /\ OneMessage' /\ pc' \in [Workers -> Steps]
      BY <1>a, <2>1 DEF MailInv, LearningTypes, OneMessage, Steps
  <2>3. HandsInv'
      BY <1>a, <2>1 DEF MailInv, HandsInv
  <2>4. MailedInv'
      BY <1>a, <2>1 DEF MailInv, MailedInv, Alone, InHand, Holding
  <2> QED
      BY <2>2, <2>3, <2>4 DEF MailInv
<1>3. ASSUME NEW w \in Workers, SelectWork(w) PROVE MailInv'
  <2>1. /\ pc[w] = "gate" /\ pc' = [pc EXCEPT ![w] = "acting"] /\ overlapped' = overlapped
        /\ writer[w].step = "idle" /\ ~writer[w].accepted
      BY <1>3 DEF SelectWork, PassGate, MailInv, HandsInv
  <2>2. UNCHANGED <<person, mails, spent, resting, received, unknown>>
      BY <1>3 DEF SelectWork, Choose, learning
  <2>3. \/ writer' = writer
        \/ \E c \in Learners, step \in {"write", "search"} :
              writer' = [writer EXCEPT ![w] = [WriterIdle EXCEPT !.step = step, !.who = c]]
      BY <1>3 DEF SelectWork, Choose, learning, ChooseToWrite, ChooseToSearch, ToWrite, ToSearch
  <2>4. /\ writer' \in [Workers -> WriterType]
        /\ \A v \in Workers \ {w} : writer'[v] = writer[v]
        /\ writer'[w].step \in {"idle", "write", "search"} /\ ~writer'[w].accepted
        /\ writer'[w].step # "idle" => writer'[w].who \in Learners
    <3>1. CASE writer' = writer
        BY <1>a, <2>1, <3>1
    <3>2. ASSUME NEW c \in Learners, NEW step \in {"write", "search"},
                 writer' = [writer EXCEPT ![w] = [WriterIdle EXCEPT !.step = step, !.who = c]]
          PROVE  /\ writer' \in [Workers -> WriterType]
                 /\ \A v \in Workers \ {w} : writer'[v] = writer[v]
                 /\ writer'[w].step \in {"idle", "write", "search"} /\ ~writer'[w].accepted
                 /\ writer'[w].step # "idle" => writer'[w].who \in Learners
      <4> DEFINE new == [WriterIdle EXCEPT !.step = step, !.who = c]
      <4>1. /\ new \in WriterType /\ new.step = step /\ new.who = c /\ ~new.accepted
          BY DEF WriterType, WriterSteps, WriterIdle
      <4>2. writer' = [writer EXCEPT ![w] = new]
          BY <3>2
      <4> HIDE DEF new
      <4> QED
          BY <1>a, <4>1, <4>2
    <3> QED
        BY <2>3, <3>1, <3>2
  <2>5. LearningTypes' /\ OneMessage' /\ pc' \in [Workers -> Steps]
      BY <1>a, <2>1, <2>2, <2>4 DEF MailInv, LearningTypes, OneMessage, Steps
  <2>6. HandsInv'
      BY <1>a, <2>1, <2>2, <2>4 DEF MailInv, HandsInv, WithMail
  <2>7. MailedInv'
    <3>1. \A d \in Learners : InHand(d)' <=> InHand(d)
        BY <2>1, <2>4 DEF InHand
    <3>2. \A v \in Workers : Holding(v)' <=> Holding(v)
        BY <1>a, <2>1 DEF Holding
    <3> QED
        BY <2>1, <2>2, <2>4, <3>1, <3>2 DEF MailInv, MailedInv, Alone, WithMail, RowIn
  <2> QED
      BY <2>5, <2>6, <2>7 DEF MailInv
<1>4. ASSUME NEW w \in Workers, WorkOn(w) PROVE MailInv'
  <2>1. UNCHANGED <<pc, overlapped>> /\ (LearningStep(w) \/ UNCHANGED learning)
      BY <1>4 DEF WorkOn, lease, vars
  <2> QED
      BY <1>0, <1>a, <2>1, LearningKeeps DEF Holding
<1>5. ASSUME NEW w \in Workers, FinishCycle(w) PROVE MailInv'
    BY <1>0, <1>5, <1>a DEF FinishCycle, Finish, Unoccupied, Steps, Holding
<1>6. ASSUME NEW w \in Workers, RaiseInCycle(w) PROVE MailInv'
    BY <1>6, <1>a, AbandonKeeps DEF RaiseInCycle, Finish, Forgotten, Holding, Steps
<1>7. ASSUME NEW w \in Workers, DieInCycle(w) PROVE MailInv'
    BY <1>7, <1>a, AbandonKeeps DEF DieInCycle, Die, Ended, Forgotten, Steps
<1>8. ASSUME NEW w \in Workers, EndCycle(w) PROVE MailInv'
  <2>1. /\ pc' = [pc EXCEPT ![w] = "idle"] /\ pc[w] # "acting"
        /\ UNCHANGED <<learning, overlapped>>
      BY <1>8 DEF EndCycle, Defer, Release, Ended
  <2> QED
      BY <1>0, <1>a, <2>1 DEF Steps, Holding
<1>9. CASE TimePasses
    BY <1>0, <1>9, <1>a DEF TimePasses, Tick, Holding
<1>10. CASE Outside
  <2>1. UNCHANGED <<pc, overlapped>>
      BY <1>10 DEF Outside, lease, vars
  <2>2. CASE UNCHANGED learning
      BY <1>0, <1>a, <2>1, <2>2 DEF Holding
  <2>3. CASE CooldownEnds
    <3>1. resting' = {} /\ UNCHANGED <<person, mails, spent, writer, received, unknown>>
        BY <2>3 DEF CooldownEnds
    <3> QED
        BY <2>1, <3>1 DEF MailInv, LearningTypes, HandsInv, OneMessage, MailedInv, Alone,
                          Holding, InHand, RowIn
  <2> QED
      BY <1>10, <2>2, <2>3 DEF Outside
<1>11. CASE UNCHANGED all
    BY <1>0, <1>11, <1>a DEF all, lease, vars, Holding
<1> QED
    BY <1>1, <1>2, <1>3, <1>4, <1>5, <1>6, <1>7, <1>8, <1>9, <1>10, <1>11
    DEF CyclesNext, CycleStep

LEMMA MailHolds == CyclesSpec => []MailInv
  BY MailInit, MailStep, PTL DEF CyclesSpec

(* LearnersMailedOnce for any number of workers, contacts, finders and     *)
(* crashes: rows and guardrails keep a contact from a second mail, but for *)
(* acceptances that no row tells of, while the lease keeps cycles apart.   *)
THEOREM MailedOnce == CyclesSpec => []LearnersMailedOnce
<1>1. MailInv => LearnersMailedOnce
  <2> SUFFICES ASSUME MailInv, ~overlapped, NEW c \in Learners
               PROVE  received[c] <= 1 + unknown[c]
      BY DEF LearnersMailedOnce
  <2>1. received[c] \in Nat /\ unknown[c] \in Nat
      BY DEF MailInv, LearningTypes
  <2>2. received[c] <= unknown[c] + 0 \/ received[c] <= unknown[c] + 1
      BY <2>1 DEF MailInv, MailedInv
  <2> QED
      BY <2>1, <2>2
<1> QED
    BY <1>1, MailHolds, PTL

(* The types of the composition: the lease, the contacts of general        *)
(* learning and the maintenance batches.                                   *)
THEOREM CyclesTypeCorrect == CyclesSpec => []CyclesTypeOK
<1>1. MailInv => LearningTypeOK
  <2> SUFFICES ASSUME MailInv PROVE LearningTypeOK
      OBVIOUS
  <2>1. \A w \in Workers : writer[w].step \in WriterSteps
      BY DEF MailInv, LearningTypes, WriterType
  <2>2. \A c \in Learners :
           /\ person[c].status \in Statuses /\ person[c].email \in BOOLEAN
           /\ spent[c] \subseteq FinderNames
           /\ received[c] \in Nat /\ unknown[c] \in Nat
      BY DEF MailInv, LearningTypes
  <2>3. \A c \in Learners : \A k \in DOMAIN mails[c] :
           mails[c][k].row \in Rows /\ mails[c][k].file \in Rows \cup {"none"}
      BY LatestIsOnly DEF Message
  <2> QED
      BY <2>1, <2>2, <2>3 DEF LearningTypeOK, MailInv, LearningTypes
<1>2. BatchInv => MaintenanceTypeOK
    BY DEF BatchInv, MaintenanceTypeOK
<1> QED
    BY <1>1, <1>2, CyclesImplementLease, TypeCorrect, MailHolds, BatchInit, BatchStep, PTL
    DEF CyclesSpec, CyclesTypeOK

(* What was proved of the lease holds of the cycles with their work.       *)
THEOREM CyclesExclusive ==
    CyclesSpec => [](ExclusiveWithinTtl /\ LatestHolderOwnsLease)
  BY CyclesImplementLease, Exclusion, ReleaseIsOwnersOnly, PTL

=============================================================================
