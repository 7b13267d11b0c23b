-------------------------- MODULE DuplicateCleaner --------------------------
(***************************************************************************)
(* duplicate_attachment_cleaner: a scan lists the groups of attachments    *)
(* with the same bytes, its administrator ticks some, and a clean-up that  *)
(* looks at the table again deletes all but the oldest copy of each.       *)
(*                                                                         *)
(* A clean-up is one transaction on the snapshot of its start.  Deleting a *)
(* row that somebody else deleted or changed since fails the whole         *)
(* request; a row that is only read is not defended by anything.           *)
(***************************************************************************)
EXTENDS Integers, FiniteSetsExt

CONSTANTS
  Attachments,  \* their ids: the lower, the older
  File,         \* [Attachments -> checksum]
  InScope,      \* those that _attachment_domain lets the module look at
  Deletable,    \* those the administrator may delete
  Places,       \* the records files are attached to
  Scans,        \* the wizards that are open
  Scope,        \* [Scans -> {"record", "global"}]
  MaxEdits      \* bound on what people do

VARIABLES
  att,          \* [a subset of Attachments -> Places]: the table
  scan,         \* [Scans -> the wizard]
  edits

vars == <<att, scan, edits>>

Live == DOMAIN att

Oldest(copies) == Min(copies)

-----------------------------------------------------------------------------
(* Groups *)

\* _group_key: the place counts in one scope only
Key(s, table, a) ==
  [file |-> File[a], place |-> IF Scope[s] = "record" THEN {table[a]} ELSE {}]

\* _group_copies
Copies(s, table, key) ==
  {a \in DOMAIN table \cap InScope : Key(s, table, a) = key}

Groups(s, table) ==
  {key \in {Key(s, table, a) : a \in DOMAIN table \cap InScope} :
     Cardinality(Copies(s, table, key)) > 1}

-----------------------------------------------------------------------------
(* The wizard *)

Draft == [state |-> "draft", lines |-> <<>>]

\* a line per group, with the copy to keep; the list may be cut
Listed(s, table, keys) == [key \in keys |-> Oldest(Copies(s, table, key))]

\* _run_scan on what the request sees
Results(s, table) ==
  {[state |-> "done", lines |-> Listed(s, table, keys)] :
     keys \in SUBSET Groups(s, table)}

\* action_scan
Scanned(s) ==
  /\ scan[s].state \in {"draft", "done"}
  /\ \E w \in Results(s, att) : scan' = [scan EXCEPT ![s] = w]
  /\ UNCHANGED <<att, edits>>

\* _perform_cleanup, on the lines that are ticked: the snapshot
CleanStart(s) ==
  /\ scan[s].state = "done"
  /\ \E ticked \in (SUBSET DOMAIN scan[s].lines) \ {{}} :
       scan' = [scan EXCEPT ![s] =
         [state |-> "cleaning", lines |-> scan[s].lines, ticked |-> ticked,
          seen |-> att, touched |-> {}]]
  /\ UNCHANGED <<att, edits>>

\* mutant: the copy the scan announced is kept, whatever is left of the group
KeeperListed(s, key) == scan[s].lines[key]

\* copies[0], of the copies that are there now
Keeper(s, key) == Oldest(Copies(s, scan[s].seen, key))

Doomed(s, key) == Copies(s, scan[s].seen, key) \ {Keeper(s, key)}

\* a group whose copies may not all be deleted is left alone; one that is not a
\* group any more too
Cleaned(s) ==
  {key \in scan[s].ticked :
     /\ Cardinality(Copies(s, scan[s].seen, key)) > 1
     /\ Doomed(s, key) \subseteq Deletable}

Removed(s) == UNION {Doomed(s, key) : key \in Cleaned(s)}

\* what a commit of somebody else makes of the clean-ups that are open
Spoil(w, as) == IF w.state = "cleaning" THEN [w EXCEPT !.touched = @ \cup as] ELSE w

Without(table, as) == [a \in DOMAIN table \ as |-> table[a]]

\* the rows go, and the table is scanned again
CleanCommit(s) ==
  /\ scan[s].state = "cleaning"
  /\ Removed(s) \cap scan[s].touched = {}
  /\ att' = Without(att, Removed(s))
  /\ \E w \in Results(s, Without(scan[s].seen, Removed(s))) :
       scan' = [t \in Scans |-> IF t = s THEN w ELSE Spoil(scan[t], Removed(s))]
  /\ UNCHANGED edits

\* a row changed under it: the request fails, and is tried again or given up
CleanFails(s) ==
  /\ scan[s].state = "cleaning"
  /\ scan' = [scan EXCEPT ![s] = [state |-> "done", lines |-> scan[s].lines]]
  /\ UNCHANGED <<att, edits>>

-----------------------------------------------------------------------------
(* People *)

Delete(a) ==
  /\ edits < MaxEdits /\ a \in Live
  /\ att' = Without(att, {a})
  /\ scan' = [s \in Scans |-> Spoil(scan[s], {a})]
  /\ edits' = edits + 1

Move(a, place) ==
  /\ edits < MaxEdits /\ a \in Live /\ place # att[a]
  /\ att' = [att EXCEPT ![a] = place]
  /\ scan' = [s \in Scans |-> Spoil(scan[s], {a})]
  /\ edits' = edits + 1

Init ==
  /\ att \in [Attachments -> Places]
  /\ scan = [s \in Scans |-> Draft]
  /\ edits = 0

Next ==
  \/ \E s \in Scans : Scanned(s) \/ CleanStart(s) \/ CleanCommit(s) \/ CleanFails(s)
  \/ \E a \in Attachments : Delete(a) \/ \E place \in Places : Move(a, place)

Spec == Init /\ [][Next]_vars

-----------------------------------------------------------------------------
(* Properties *)

\* "The oldest copy of every ticked group stays": of a group that is cleaned a
\* copy is left, whatever was deleted or moved between the scan and the
\* clean-up, and whatever another clean-up removes at the same time, unless
\* somebody changed the oldest copy while the clean-up ran.
OneCopyKept ==
  \A s \in Scans : CleanCommit(s) =>
    \A key \in Cleaned(s) :
      Keeper(s, key) \notin scan[s].touched => Copies(s, att', key) # {}

-----------------------------------------------------------------------------
(* The inductive invariant *)

Proper == Attachments \subseteq Nat

Cleaning(s) == scan[s].state = "cleaning"

\* a clean-up knows every row as it is, but for those that were written since
CleanupSees(w) ==
  /\ w = [state |-> "cleaning", lines |-> w.lines, ticked |-> w.ticked,
          seen |-> w.seen, touched |-> w.touched]
  /\ DOMAIN w.seen \subseteq Attachments
  /\ \A a \in DOMAIN w.seen \ w.touched : a \in Live /\ w.seen[a] = att[a]

IInv ==
  /\ scan = [s \in Scans |-> scan[s]] /\ Live \subseteq Attachments
  /\ \A s \in Scans : Cleaning(s) => CleanupSees(scan[s])
=============================================================================
