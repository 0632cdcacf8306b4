------------------------- MODULE MCSupervisorCycles -------------------------
(***************************************************************************)
(* A contact to write to and no batch due, or batches to prepare and       *)
(* nobody to write to: the two kinds of work meet only where a cycle       *)
(* chooses between them.                                                   *)
(***************************************************************************)
EXTENDS SupervisorCycles

MCFinders == <<"prospeo">>

MCInit ==
    /\ CyclesInit
    /\ \/ today = 0 /\ \A c \in Learners : person[c].status = "exhausted"
       \/ today = MaxDay /\ ~Due(today)

MCSpec == MCInit /\ [][CyclesNext]_all /\ Fairness

=============================================================================
