----------------------------- MODULE LinkChecker -----------------------------
(***************************************************************************)
(* attachment_link_checker: a scan walks the attachments page by page and  *)
(* looks at their files, and a clean-up looks again at the files of the    *)
(* ticked rows, one after the other, and then deletes the rows.  Each is a *)
(* transaction and reads the rows of the snapshot of its start; the disk   *)
(* has no snapshot, and changes while they walk and after.                 *)
(***************************************************************************)
EXTENDS Integers, FiniteSets

CONSTANTS
  Attachments,  \* their ids
  Files,
  Elsewhere,    \* content kept in the database, links, and none
  Hidden,       \* rows the administrator may not read
  FieldRows,    \* rows that hold a binary field
  Deletable,    \* rows the administrator may delete
  BatchSize,
  Stops,        \* values of Stop After; 0: never
  MaxLines,     \* Broken Rows to List
  CacheMax,     \* STAT_CACHE_MAX
  MaxEdits      \* bound on what happens meanwhile

VARIABLES
  att,          \* [a subset of Attachments -> Files \cup Elsewhere]
  disk,         \* [Files -> Conditions]
  check,        \* the wizard
  delete,       \* the clean-up
  edits

vars == <<att, disk, check, delete, edits>>

\* damaged: there, with another size or checksum
Conditions == {"ok", "missing", "unreadable", "damaged"}

-----------------------------------------------------------------------------
(* The scan *)

NoRow == [a \in {} |-> "ok"]
NoReport == [state |-> "draft", lines |-> NoRow]

\* the counters of _run_check
Fresh(table, stop, deep) ==
  [state |-> "scanning", stop |-> stop, deep |-> deep, seen |-> table, last |-> 0,
   cache |-> NoRow, lines |-> NoRow,
   scanned |-> 0, filestore |-> 0, elsewhere |-> 0, ok |-> 0, broken |-> 0,
   early |-> FALSE, truncated |-> FALSE, hidden |-> 0]

\* _check_one: a condition that was met once is remembered while there is room
Looked(c, f) == IF f \in DOMAIN c.cache THEN c.cache[f] ELSE disk[f]

\* deep: sizes and checksums are compared
Problem(c, condition) ==
  condition \in {"missing", "unreadable"} \/ (c.deep /\ condition = "damaged")

\* the rows of the page that have a file, and those with a problem
Filed(c, page) == {a \in page : c.seen[a] \notin Elsewhere}
Troubled(c, page) == {a \in Filed(c, page) : Problem(c, Looked(c, c.seen[a]))}

Lowest(as, n) == {a \in as : Cardinality({b \in as : b < a}) < n}

\* the files met for the first time are remembered, and the problems listed, while
\* there is room
Remembered(c, page) ==
  LET new == {a \in Filed(c, page) : c.seen[a] \notin DOMAIN c.cache
                /\ \A b \in page : c.seen[b] = c.seen[a] => a <= b}
  IN  {c.seen[a] : a \in Lowest(new, CacheMax - Cardinality(DOMAIN c.cache))}

Listed(c, page) == Lowest(Troubled(c, page), MaxLines - Cardinality(DOMAIN c.lines))

\* _page_domain: the rows behind the last one
Left(c) == {a \in DOMAIN c.seen \ Hidden : a > c.last}

\* mutant: the offset moves by the size of a page
LastIdByOffset(c, page) == c.last + BatchSize

\* last_id
LastId(c, page) == CHOOSE a \in page : \A b \in page : b <= a

\* the rows of a page, one after the other
Examined(c, page) ==
  LET filed == Filed(c, page)
      troubled == Troubled(c, page)
  IN  [c EXCEPT
         !.scanned = @ + Cardinality(page), !.filestore = @ + Cardinality(filed),
         !.elsewhere = @ + Cardinality(page \ filed),
         !.ok = @ + Cardinality(filed \ troubled), !.broken = @ + Cardinality(troubled),
         !.cache = [f \in DOMAIN @ \cup Remembered(c, page) |-> Looked(c, f)],
         !.lines = [a \in DOMAIN @ \cup Listed(c, page) |->
                      IF a \in DOMAIN @ THEN @[a] ELSE Looked(c, c.seen[a])],
         !.last = LastId(c, page)]

Room(c) == IF c.stop = 0 \/ c.stop - c.scanned > BatchSize THEN BatchSize
           ELSE c.stop - c.scanned

\* a page may be shorter than asked for
ScanPage ==
  /\ check.state = "scanning" /\ Left(check) # {}
  /\ \E a \in Left(check) :
       LET page == {b \in Left(check) : b <= a}
       IN  /\ Cardinality(page) <= Room(check)
           /\ check' = Examined(check, page)
  /\ UNCHANGED <<att, disk, delete, edits>>

\* _coverage_total and _store_results
ScanEnds ==
  LET early == check.stop > 0 /\ check.scanned = check.stop /\ Left(check) # {}
  IN  /\ check.state = "scanning"
      /\ early \/ Left(check) = {}
      /\ check' = [check EXCEPT !.state = "done", !.cache = NoRow, !.early = early,
           !.truncated = Cardinality(DOMAIN check.lines) < check.broken,
           !.hidden = IF early THEN 0 ELSE Cardinality(DOMAIN check.seen) - check.scanned]
      /\ UNCHANGED <<att, disk, delete, edits>>

Run ==
  /\ check.state \in {"draft", "done"} /\ delete.pc = "none"
  /\ \E stop \in Stops, deep \in BOOLEAN : check' = Fresh(att, stop, deep)
  /\ UNCHANGED <<att, disk, delete, edits>>

-----------------------------------------------------------------------------
(* The clean-up *)

NoDelete == [pc |-> "none"]

\* the files that are missing now
Gone == {f \in Files : disk[f] = "missing"}

\* action_delete_ticked, as it begins: what is not missing, and values of fields, refuse
\* the request; a row that is gone is passed over.
\* missed: history, the files that were missing at some time since
DeleteStart ==
  /\ check.state = "done" /\ delete.pc = "none"
  /\ \E ticked \in (SUBSET DOMAIN check.lines) \ {{}} :
       /\ \A a \in ticked : check.lines[a] = "missing" /\ a \notin FieldRows
       /\ delete' = [pc |-> "looking", seen |-> att, targets |-> ticked \cap DOMAIN att,
                     left |-> ticked \cap DOMAIN att, touched |-> {}, missed |-> Gone]
  /\ UNCHANGED <<att, disk, check, edits>>

\* the disk is looked at again
StillMissing(a) == delete.seen[a] \in Files /\ disk[delete.seen[a]] = "missing"

\* one row that came back refuses them all
LookAgain(a) ==
  /\ delete.pc = "looking" /\ a \in delete.left
  /\ delete' = IF StillMissing(a) THEN [delete EXCEPT !.left = @ \ {a}] ELSE NoDelete
  /\ UNCHANGED <<att, disk, check, edits>>

\* a row in its savepoint: it stays when the administrator may not delete it, or when
\* somebody wrote or deleted it since the request began
Unlinked == (delete.targets \cap Deletable) \ delete.touched

Kept(table, as) == [a \in DOMAIN table \ as |-> table[a]]

\* once all were looked at: the disk is not asked a third time.  Then the scan runs
\* again on what the request sees
DeleteCommit ==
  /\ delete.pc = "looking" /\ delete.left = {}
  /\ att' = Kept(att, Unlinked)
  /\ check' = Fresh(Kept(delete.seen, Unlinked), check.stop, check.deep)
  /\ delete' = NoDelete
  /\ UNCHANGED <<disk, edits>>

\* the request dies
DeleteFails ==
  /\ delete.pc = "looking"
  /\ delete' = NoDelete
  /\ UNCHANGED <<att, disk, check, edits>>

-----------------------------------------------------------------------------
(* Meanwhile *)

Editing == edits < MaxEdits /\ edits' = edits + 1

\* a backup is restored, a disk fails
DiskChanges(f) ==
  /\ Editing
  /\ \E condition \in Conditions \ {disk[f]} : disk' = [disk EXCEPT ![f] = condition]
  /\ delete' = IF delete.pc = "looking" /\ disk'[f] = "missing"
               THEN [delete EXCEPT !.missed = @ \cup {f}] ELSE delete
  /\ UNCHANGED <<att, check>>

\* somebody writes a row, and the clean-up cannot write it any more
Written(a) ==
  /\ Editing /\ a \in DOMAIN att
  /\ delete' = IF delete.pc = "looking" THEN [delete EXCEPT !.touched = @ \cup {a}]
               ELSE delete
  /\ UNCHANGED <<disk, check>>

\* the content of a row is replaced: a new file, or another storage
Replace(a) ==
  /\ Written(a)
  /\ \E content \in (Files \cup Elsewhere) \ {att[a]} :
       att' = [att EXCEPT ![a] = content]

Delete(a) == Written(a) /\ att' = Kept(att, {a})

Init ==
  /\ att \in [Attachments -> Files \cup Elsewhere]
  /\ disk \in [Files -> {"ok", "missing"}]
  /\ check = NoReport /\ delete = NoDelete
  /\ edits = 0

Next ==
  \/ Run \/ ScanPage \/ ScanEnds
  \/ DeleteStart \/ DeleteCommit \/ DeleteFails
  \/ \E a \in Attachments : LookAgain(a) \/ Replace(a) \/ Delete(a)
  \/ \E f \in Files : DiskChanges(f)

Spec == Init /\ [][Next]_vars

-----------------------------------------------------------------------------
(* Properties *)

\* "the numbers always add up": wherever the scan is, each row it may see up to
\* the last one is examined once, and counted once by what it holds and what was
\* found; a complete scan and what is hidden make all the rows that match.
NumbersAddUp ==
  check.state # "draft" =>
    /\ check.scanned = Cardinality({a \in DOMAIN check.seen \ Hidden : a <= check.last})
    /\ check.scanned = check.filestore + check.elsewhere
    /\ check.filestore = check.ok + check.broken
    /\ Cardinality(DOMAIN check.lines) <= check.broken
    /\ check.state = "done" /\ ~check.early =>
         check.scanned + check.hidden = Cardinality(DOMAIN check.seen)

\* "a restore that happened since the report can never be undone by a stale list", "it
\* refuses any row whose file is still on disk": what the clean-up deletes was reported
\* missing, nobody replaced its content since the button was pressed, and its file was
\* missing at some time since then; a file that is there all that time keeps its row,
\* whatever the report says.  One that comes back between the look at it and the end of
\* the request does not: the disk is asked once.
OnlyDanglingGo ==
  DeleteCommit =>
    \A a \in DOMAIN att \ DOMAIN att' :
      /\ a \in DOMAIN check.lines /\ check.lines[a] = "missing"
      /\ a \in DOMAIN delete.seen /\ att[a] = delete.seen[a]
      /\ att[a] \in delete.missed

-----------------------------------------------------------------------------
(* The inductive invariant *)

Proper == IsFiniteSet(Attachments) /\ Attachments \subseteq Nat \ {0}

\* the rows that a scan may see up to the last one
Behind(c) == {a \in DOMAIN c.seen \ Hidden : a <= c.last}

CheckShape(c) ==
  /\ DOMAIN c = {"state", "stop", "deep", "seen", "last", "cache", "lines", "scanned",
                 "filestore", "elsewhere", "ok", "broken", "early", "truncated", "hidden"}
  /\ DOMAIN c.seen \subseteq Attachments /\ DOMAIN c.lines \subseteq Attachments
  /\ c.last \in Nat /\ c.scanned \in Nat /\ c.filestore \in Nat /\ c.elsewhere \in Nat
  /\ c.ok \in Nat /\ c.broken \in Nat

CountsAddUp(c) ==
  /\ c.scanned = Cardinality(Behind(c)) /\ c.scanned = c.filestore + c.elsewhere
  /\ c.filestore = c.ok + c.broken /\ Cardinality(DOMAIN c.lines) <= c.broken

\* a clean-up sees the rows that nobody wrote since as they are, and knows of a file
\* that was missing of every row it has looked at
DeleteHolds ==
  delete.pc = "looking" =>
    /\ delete = [pc |-> "looking", seen |-> delete.seen, targets |-> delete.targets,
                 left |-> delete.left, touched |-> delete.touched, missed |-> delete.missed]
    /\ check.state = "done"
    /\ delete.targets \subseteq DOMAIN delete.seen \cap DOMAIN check.lines
    /\ DOMAIN delete.seen \subseteq Attachments
    /\ \A a \in delete.targets : check.lines[a] = "missing"
    /\ Gone \subseteq delete.missed
    /\ \A a \in delete.targets \ delete.left : delete.seen[a] \in delete.missed
    /\ \A a \in DOMAIN delete.seen \ delete.touched :
         a \in DOMAIN att /\ att[a] = delete.seen[a]

RowsHold ==
  /\ DOMAIN att \subseteq Attachments /\ disk = [f \in Files |-> disk[f]]
  /\ delete.pc \in {"none", "looking"} /\ DeleteHolds

CountsHold ==
  /\ check.state \in {"draft", "scanning", "done"}
  /\ check.state # "draft" => CheckShape(check) /\ CountsAddUp(check)
  /\ NumbersAddUp

IInv == RowsHold /\ CountsHold
=============================================================================
