-------------------------- MODULE UserReactivation --------------------------
(***************************************************************************)
(* The small instances of UserLifecycle with a history variable: how long  *)
(* ago each user was re-activated.  It is set by the steps of              *)
(* UserLifecycle and no step depends on it.                                *)
(***************************************************************************)
EXTENDS MCUserLifecycle

\* days since a user whom a run had archived was re-activated, counted up to
\* MinDays; MinDays too when somebody has set another date since
VARIABLE back

BackAfter(u) ==
  IF (user[u].by_dormancy \/ user[u].by_expiry) /\ user'[u].active THEN 0
  ELSE IF edits' # edits /\ user'[u].date # user[u].date THEN MinDays
  ELSE IF NextDay /\ back[u] < MinDays THEN back[u] + 1
  ELSE back[u]

BackInit == Init /\ back = [u \in Users |-> MinDays]

BackNext == Next /\ back' = [u \in Users |-> BackAfter(u)]

BackSpec == BackInit /\ [][BackNext]_<<vars, back>>

\* The comments on write() in both modules, and the README of the second: a
\* user whom a run had archived is not archived again the next night, "so the next
\* dormancy period is counted from fresh activity, not the old one".
ReactivationLasts ==
  [][\A k \in Kinds, u \in Users : Committed(k, u) => back[u] = MinDays]_<<vars, back>>
=============================================================================
