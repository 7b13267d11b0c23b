-------------------------- MODULE MCUserLifecycle --------------------------
(***************************************************************************)
(* Small instances of UserLifecycle: a dormancy period of at least two     *)
(* days, dates of today and of tomorrow.                                   *)
(***************************************************************************)
EXTENDS UserLifecycle, TLC

CONSTANTS unset, permanent

Symmetry == Permutations(Users)

Policy(enabled, days) ==
  [enabled |-> enabled, days |-> days, notify |-> [k \in Kinds |-> TRUE],
   include_never_logged |-> days = 0]

\* a period too short, and the default
MCSettings == {Policy(TRUE, 0), Policy(TRUE, unset)}
OneSetting == {Policy(TRUE, unset)}
MCDates == {0, 1}
MCZones == {-1, 0, 1}
=============================================================================
