----------------------------- MODULE MCMessaging -----------------------------
(***************************************************************************)
(* A posting with one contact, or two in priority order; the first may     *)
(* answer.  Hour 1 prefers the follow-ups and hour 3 the originals.        *)
(***************************************************************************)
EXTENDS PostingRetirement

MCWave == <<"c1", "c2">>
MCAnswering == {"c1"}
MCBlockHours == {1, 3}

\* Bound: a posting with two contacts meets answers or troubles, not both.
AnswersOrTroubles ==
    (\A c \in Contacts : link[c] # "identified") =>
        troubles = 0 \/ \A c \in Contacts : mail[c] = {}

Commanded == retired # {} \/ ~OwnIs("idle") \/ posting \in OtherStatuses

\* Bound: the owner takes out a posting that nobody has answered, in an hour of the
\* originals, and feedback is not synced.  With one contact the follow-up worker goes
\* on, up to one follow-up, and nothing breaks; with two only the sending goes on, with
\* its troubles, and the command is the backlog's.
CommandsAlone ==
    Commanded => /\ hour = 3 /\ fb = FbIdle
                 /\ \A c \in Contacts : mail[c] = {}
                 /\ IF \E c \in Contacts : link[c] = "identified"
                    THEN troubles = 0 /\ \A c \in Contacts : Sent(c) <= 1
                    ELSE /\ fw = FwIdle /\ thread = [c \in Contacts |-> <<>>]
                         /\ own.kind = "backlog" \/ OwnIs("idle")

=============================================================================
