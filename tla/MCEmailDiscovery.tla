--------------------------- MODULE MCEmailDiscovery ---------------------------
(* Two contacts and two finders; the second contact is out of reach of one. *)
EXTENDS EmailDiscovery

MCFinders == <<"prospeo", "hunter">>
MCReach == [c \in Contacts |-> IF c = "c1" THEN {"prospeo", "hunter"} ELSE {"hunter"}]

=============================================================================
