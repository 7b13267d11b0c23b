-------------------------- MODULE MCScheduledExport --------------------------
(***************************************************************************)
(* Small instances of ScheduledExport: days of two hours, the first month  *)
(* has one day, the second has two.                                        *)
(***************************************************************************)
EXTENDS ScheduledExport, TLC

CONSTANTS ann, root, x, y

Symmetry == Permutations(Exports)

MCOwner == [e \in Exports |-> ann]
MCZone == [u \in Users |-> IF u = ann THEN 1 ELSE 0]
MCReadable == [u \in Users |-> IF u = ann THEN {x} ELSE {x, y}]
MCWeekday == [d \in 0..2 |-> d % 2]
MCDayOfMonth == [d \in 0..2 |-> IF d = 2 THEN 2 ELSE 1]
MCLastDay == [d \in 0..2 |-> IF d = 0 THEN 1 ELSE 2]

Content(interval, day, hour, columns) ==
  [interval |-> interval, day |-> day, hour |-> hour, columns |-> columns,
   addressed |-> TRUE]

\* on the second of the month, or on its last day, with two columns or one
Monthly == {Content("monthly", 2, 0, {x, y}), Content("monthly", 2, 0, {y})}

\* both exports are enabled, with both columns
MCInit == Init /\ \A e \in Exports : export[e].enabled /\ export[e].content.columns = {x, y}

MCSpec == MCInit /\ [][Next]_vars
=============================================================================
