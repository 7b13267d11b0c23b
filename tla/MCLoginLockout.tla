--------------------------- MODULE MCLoginLockout ---------------------------
(***************************************************************************)
(* Small instances of LoginLockout: one login in two spellings (and the    *)
(* empty one), policies that differ in threshold, window and retention.    *)
(***************************************************************************)
EXTENDS LoginLockout, TLC

CONSTANTS unset, MCSlots

\* the slots of the table are alike, and so are the workers
Symmetry == Permutations(MCSlots) \cup Permutations(Workers)

MCSpellings == {"bob", ""}
MCLogins == {"bob"}
MCNorm == [s \in MCSpellings |-> IF s = "" THEN "" ELSE "bob"]
MCAccounts == {"bob"}
MCDefault == [max |-> 2, window |-> 2, retention |-> 2]

Policy(enabled, max, window, retention) ==
  [enabled |-> enabled, alert |-> TRUE, max |-> max, window |-> window,
   retention |-> retention]

\* one policy keeps rows for less time than its lockouts last, which the
\* settings allow; one is switched off
MCParams == {Policy(TRUE, unset, 2, 2), Policy(FALSE, 1, 2, 2)}
MCForms == {Policy(TRUE, 0, 3, 1)}
=============================================================================
