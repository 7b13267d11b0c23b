----------------------------- MODULE MCMailQueue -----------------------------
(***************************************************************************)
(* Small instances of MailQueue: retries by two screens without a history, *)
(* and a history beside one screen.                                        *)
(***************************************************************************)
EXTENDS MailQueue, TLC

CONSTANTS unset

Symmetry == Permutations(Mails) \cup Permutations(Admins)

NoHistory == {[enabled |-> FALSE, days |-> 0]}
MCSettings == {[enabled |-> TRUE, days |-> unset], [enabled |-> FALSE, days |-> -1]}
=============================================================================
