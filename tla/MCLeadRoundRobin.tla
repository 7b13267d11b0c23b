-------------------------- MODULE MCLeadRoundRobin --------------------------
(* Small instances of LeadRoundRobin: three members, leads of a company or of none. *)
EXTENDS LeadRoundRobin, TLC

CONSTANTS x, y, none, t1

\* member 3 is not allowed in the company
MCAllowed == 1 :> {x} @@ 2 :> {x} @@ 3 :> {}
MCTeamCompany == t1 :> none
Of(members) == t1 :> [members |-> members, round_robin |-> TRUE]

Off == t1 :> [members |-> {1, 2}, round_robin |-> FALSE]

MCRosters == {Of({1, 2}), Of({1, 3}), Off}
=============================================================================
