----------------------------- MODULE TouchLedger -----------------------------
(***************************************************************************)
(* What a contact may see of the program: the original once, then the      *)
(* follow-ups in order and each at most once.  The only exception is a     *)
(* copy of the original for an acceptance the program never learned of,    *)
(* and no copy follows once a follow-up was sent.                          *)
(*                                                                         *)
(* Abstract: no senders, no database, no clock.  Messaging implements it.  *)
(***************************************************************************)
EXTENDS Naturals, Sequences

CONSTANTS
    People,     \* the contacts
    MaxTouches  \* the highest follow-up sequence

VARIABLES
    received, \* the touches of each contact: 0 the original, k the k-th follow-up
    spare     \* acceptances of each original that were lost and not made up for

LedgerInit ==
    /\ received = [p \in People |-> <<>>]
    /\ spare = [p \in People |-> 0]

First(p) ==
    /\ received[p] = <<>>
    /\ received' = [received EXCEPT ![p] = <<0>>]
    /\ UNCHANGED spare

NextTouch(p) ==
    /\ received[p] # <<>>
    /\ received[p][Len(received[p])] < MaxTouches
    /\ received' = [received EXCEPT ![p] = Append(@, @[Len(@)] + 1)]
    /\ UNCHANGED spare

\* The original once more.
Repeat(p) ==
    /\ received[p] # <<>> /\ received[p][Len(received[p])] = 0
    /\ spare[p] > 0
    /\ spare' = [spare EXCEPT ![p] = @ - 1]
    /\ received' = [received EXCEPT ![p] = Append(@, 0)]

LoseAnswer(p) ==
    /\ received[p] # <<>> /\ received[p][Len(received[p])] = 0
    /\ spare' = [spare EXCEPT ![p] = @ + 1]
    /\ UNCHANGED received

LedgerNext == \E p \in People : LoseAnswer(p) \/ First(p) \/ NextTouch(p) \/ Repeat(p)

LedgerSpec == LedgerInit /\ [][LedgerNext]_<<received, spare>>

=============================================================================
