---------------------------- MODULE MCLeadIntake ----------------------------
(***************************************************************************)
(* Three leads, two of one company; the feed has a lead with a personal    *)
(* connection, one with public connections only, and one whose job         *)
(* description is missing the first or the second time it is shown.        *)
(***************************************************************************)
EXTENDS LeadIntake

MCCompany == [l \in Leads |-> IF l = "l2" THEN "other" ELSE "acme"]
MCSeniority == [l \in Leads |-> CASE l = "l1" -> 1 [] l = "l2" -> 2 [] l = "l3" -> 3]

Ad(text, usable, score, personal, social, people) ==
    [text |-> text, usable |-> usable, lane |-> "ai", barred |-> FALSE, score |-> score,
     personal |-> personal, social |-> social, named |-> FALSE, people |-> people]

Bare == Ad(FALSE, FALSE, 90, 1, 0, {})             \* no job description
Friend == Ad(TRUE, TRUE, 75, 1, 0, {"friend"})     \* a personal connection
Crowd == Ad(TRUE, TRUE, 80, 0, 2, {"one"})         \* public connections only

MCFeed == [l \in Leads |-> CASE l = "l1" -> {Bare, Friend}
                             [] l = "l2" -> {Crowd}
                             [] l = "l3" -> {Friend}]

=============================================================================
