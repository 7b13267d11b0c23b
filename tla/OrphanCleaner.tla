---------------------------- MODULE OrphanCleaner ----------------------------
(***************************************************************************)
(* orphan_attachment_cleaner: a scan lists the attachments whose model or  *)
(* record is gone, and a clean-up confirmed later deletes those that are   *)
(* ticked, while people move attachments, delete records, uninstall        *)
(* modules and install them again.                                         *)
(***************************************************************************)
EXTENDS Naturals, FiniteSets

CONSTANTS
  Attachments,
  Records,      \* records of the model that may be uninstalled
  Assets,       \* records of the models Odoo keeps for itself
  Nowhere,      \* no model: a file on its own
  Pending,      \* a model, no record yet: an upload in progress
  MaxEdits      \* bound on what people do

VARIABLES
  att,          \* [a subset of Attachments -> [target, field]]
  installed,    \* is the model of Records there
  existing,     \* the records that are there
  wizard,
  moved,        \* history: the attachments edited since the list was made
  returned,     \* history: was the model installed again since
  edits

vars == <<att, installed, existing, wizard, moved, returned, edits>>

Targets == Records \cup Assets \cup {Nowhere, Pending}
Row == [target : Targets, field : BOOLEAN]

-----------------------------------------------------------------------------
(* The scan *)

\* _scan_domain
Inspected(row) == row.target \notin Assets \cup {Nowhere} /\ ~row.field

\* _collect_orphans: of a model that is gone, everything, an upload in progress too; of
\* one that is there, what points at a record that is not
IsOrphan(row) ==
  /\ Inspected(row)
  /\ \/ ~installed
     \/ row.target \in Records \ existing

Orphans == {a \in DOMAIN att : IsOrphan(att[a])}

\* the wizard opens on a scan; Rescan replaces the list and clears the box
Scan ==
  /\ wizard' = [state |-> "listed", lines |-> Orphans, confirmed |-> FALSE]
  /\ moved' = {} /\ returned' = FALSE
  /\ UNCHANGED <<att, installed, existing, edits>>

\* the lines that stay ticked, and the box
Confirm ==
  /\ wizard.state = "listed" /\ ~wizard.confirmed
  /\ \E ticked \in (SUBSET wizard.lines) \ {{}} :
       wizard' = [wizard EXCEPT !.lines = ticked, !.confirmed = TRUE]
  /\ UNCHANGED <<att, installed, existing, moved, returned, edits>>

-----------------------------------------------------------------------------
(* The clean-up *)

\* mutant: everything that was listed goes
ListedStill(as) == as \cap DOMAIN att

\* the last safety net
Removable(as) ==
  {a \in as \cap DOMAIN att : Inspected(att[a])}

Without(as) == [a \in DOMAIN att \ as |-> att[a]]

\* action_cleanup
Cleanup ==
  /\ wizard.state = "listed" /\ wizard.confirmed
  /\ Removable(wizard.lines) # {}
  /\ att' = Without(Removable(wizard.lines))
  /\ wizard' = [state |-> "closed"]
  /\ UNCHANGED <<installed, existing, moved, returned, edits>>

-----------------------------------------------------------------------------
(* People *)

Editing == edits < MaxEdits /\ edits' = edits + 1

\* an attachment is linked to another record, made the value of a field, or freed
Edit(a) ==
  /\ Editing /\ a \in DOMAIN att
  /\ \E row \in Row \ {att[a]} : att' = [att EXCEPT ![a] = row]
  /\ moved' = moved \cup {a}
  /\ UNCHANGED <<installed, existing, wizard, returned>>

Delete(a) ==
  /\ Editing /\ a \in DOMAIN att
  /\ att' = Without({a})
  /\ UNCHANGED <<installed, existing, wizard, moved, returned>>

\* deleted by a job or an import, which leave the attachments
DeleteRecord(r) ==
  /\ Editing /\ r \in existing
  /\ existing' = existing \ {r}
  /\ UNCHANGED <<att, installed, wizard, moved, returned>>

Uninstall ==
  /\ Editing /\ installed
  /\ installed' = FALSE
  /\ existing' = {}
  /\ UNCHANGED <<att, wizard, moved, returned>>

\* its tables are new, and its records count from 1 again
Reinstall ==
  /\ Editing /\ ~installed
  /\ installed' = TRUE
  /\ existing' \in SUBSET Records
  /\ returned' = TRUE
  /\ UNCHANGED <<att, wizard, moved>>

Init ==
  /\ att \in [Attachments -> Row]
  /\ installed = TRUE
  /\ existing = Records
  /\ wizard = [state |-> "closed"]
  /\ moved = {} /\ returned = FALSE
  /\ edits = 0

Next ==
  \/ Scan \/ Confirm \/ Cleanup \/ Uninstall \/ Reinstall
  \/ \E a \in Attachments : Edit(a) \/ Delete(a)
  \/ \E r \in Records : DeleteRecord(r)

Spec == Init /\ [][Next]_vars

-----------------------------------------------------------------------------
(* Properties *)

\* "Never listed and never deleted", "only the listed attachments are removed": what
\* goes was listed, and is no file on its own, no asset and no value of a field when it
\* goes, whatever it was when it was listed; it is still an orphan, unless somebody
\* edited it or its model was installed again since the scan.  The list of the add-on's
\* README goes on with "attachments not linked to a record yet (upload in progress)":
\* that holds while their model is there; those of a model that is gone are orphans.
OnlyOrphansGo ==
  Cleanup =>
    \A a \in DOMAIN att \ DOMAIN att' :
      /\ a \in wizard.lines
      /\ att[a].target \notin Assets \cup {Nowhere} /\ ~att[a].field
      /\ a \notin moved /\ ~returned =>
           \/ att[a].target \in Records \ existing
           \/ att[a].target = Pending /\ ~installed

-----------------------------------------------------------------------------
(* The inductive invariant *)

\* what was listed and nobody edited since is an orphan still, unless its model came
\* back: the ids of records that are gone are not given again while it is there
IInv ==
  /\ ~installed => existing = {}
  /\ \A a \in DOMAIN att : att[a] \in Row
  /\ wizard.state = "listed" =>
       /\ wizard = [state |-> "listed", lines |-> wizard.lines, confirmed |-> wizard.confirmed]
       /\ ~returned => \A a \in (wizard.lines \cap DOMAIN att) \ moved : IsOrphan(att[a])
=============================================================================
