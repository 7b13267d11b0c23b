---------------------------- MODULE DefaultValues ----------------------------
(***************************************************************************)
(* default_value_manager: a screen over ir.default, restricted to the      *)
(* companies of the administrator, a wizard that sets a default and one    *)
(* that deletes those selected.                                            *)
(***************************************************************************)
EXTENDS Integers, FiniteSets, FiniteSetsExt

CONSTANTS
  Slots,        \* ids of ir.default: numbers
  Fields, Relational,   \* the many2one fields among them
  FieldModel, Comodel,  \* [Fields -> Models]
  Models,
  Users, Companies, All,
  Targets,      \* records of the comodels: numbers
  Admins,
  CompaniesOf,  \* [Admins -> SUBSET Companies]
  MaxEdits

VARIABLES
  default,      \* [a subset of Slots -> Row]: ir.default
  models,       \* the models of the registry
  fields,       \* the fields of the registry
  targets,      \* the targets that exist
  wizard,       \* [Admins -> the wizard an administrator has open]
  edits

vars == <<default, models, fields, targets, wizard, edits>>

Live == DOMAIN default

\* the stored JSON: unreadable, nothing, a text, or the id of a record
Text == -1
Empty == -2
Unreadable == -3
Values == Targets \cup {Text, Empty, Unreadable}

Row(f, u, c, v) == [field |-> f, user |-> u, company |-> c, value |-> v]

-----------------------------------------------------------------------------
(* What the list shows *)

\* the company rule of default.value.entry
Shown(a) == {d \in Live : default[d].company \in CompaniesOf[a] \cup {All}}

\* _target_info: the ids wanted from one model by a batch, and those that exist
Existing(batch, m) ==
  {default[d].value : d \in {x \in batch : default[x].field \in Relational
                               /\ Comodel[default[x].field] = m}} \cap targets

\* _resolve and _render
Status(batch, d) ==
  LET f == default[d].field   v == default[d].value
  IN  CASE v = Unreadable -> "invalid_value"
        [] v # Unreadable /\ FieldModel[f] \notin models -> "orphan_model"
        [] v # Unreadable /\ FieldModel[f] \in models /\ f \notin fields -> "orphan_field"
        [] OTHER -> IF f \in Relational /\ v \in Targets /\ Comodel[f] \in models
                         /\ v \notin Existing(batch, Comodel[f])
                    THEN "missing_target" ELSE "ok"

Orphaned == {"orphan_model", "orphan_field"}

\* _search_entry_status, _search_is_orphaned: over every entry the user may read
Search(a, statuses, positive) ==
  {d \in Shown(a) : Status(Shown(a), d) \in statuses <=> positive}

\* mutant: a truth value is compared with its own sign only
SearchOrphanedBySign(a, value, positive) == Search(a, Orphaned, positive)

SearchOrphaned(a, value, positive) == Search(a, Orphaned, value <=> positive)

-----------------------------------------------------------------------------
(* Setting a default *)

Closed == [pc |-> "closed"]

\* what is written or deleted after the snapshot of a request
Spoil(w, ds) ==
  [b \in Admins |-> IF w[b].pc \in {"set", "delete"}
                    THEN [w[b] EXCEPT !.touched = @ \cup ds] ELSE w[b]]

Editing == edits < MaxEdits /\ edits' = edits + 1

\* _coerce_value
Coerced(f, typed) == IF f \in Relational THEN typed \cap targets ELSE typed \cap {Text}

\* the entries of the same field and scope
Same(row) == {d \in Live : [default[d] EXCEPT !.value = row.value] = row}

\* action_set_default: the field exists, the user and the company are picked
SetStart(a) ==
  /\ Editing /\ wizard[a].pc = "closed"
  /\ \E f \in fields, u \in Users \cup {All}, c \in Companies \cup {All} :
       /\ FieldModel[f] \in models
       /\ \E v \in Coerced(f, Values) :
            LET row == Row(f, u, c, v)
            IN  wizard' = [wizard EXCEPT ![a] =
                  [pc |-> "set", row |-> row, same |-> Same(row), touched |-> {}]]
  /\ UNCHANGED <<default, models, fields, targets>>

\* ir.default.set: the entry of that scope is replaced, or there is a new one
SetCommit(a) ==
  /\ wizard[a].pc = "set"
  /\ LET w == wizard[a]
         d == IF w.same = {} THEN IF Slots \ Live = {} THEN 0 ELSE Min(Slots \ Live) ELSE Min(w.same)
     IN  /\ d # 0 /\ d \notin w.touched
         /\ default' = [x \in Live \cup {d} |-> IF x = d THEN w.row ELSE default[x]]
         /\ wizard' = Spoil([wizard EXCEPT ![a] = Closed], {d})
  /\ UNCHANGED <<models, fields, targets, edits>>

-----------------------------------------------------------------------------
(* Deleting the selected ones *)

\* default.value.delete.wizard, opened on a selection of the list
OpenDelete(a) ==
  /\ wizard[a].pc = "closed"
  /\ \E selected \in (SUBSET Shown(a)) \ {{}} :
       wizard' = [wizard EXCEPT ![a] = [pc |-> "dialog", selected |-> selected]]
  /\ UNCHANGED <<default, models, fields, targets, edits>>

\* mutant: the entries are not read before they are deleted
MayDeleteUnread(a, ds) == ds # {}

\* action_delete_defaults: entries.read, and there is something to delete
MayDelete(a, ds) == ds # {} /\ ds \subseteq Shown(a)

DeleteStart(a) ==
  /\ wizard[a].pc = "dialog"
  /\ LET ds == wizard[a].selected \cap Live
     IN  wizard' = [wizard EXCEPT ![a] =
           IF MayDelete(a, ds) THEN [pc |-> "delete", selected |-> ds, touched |-> {}] ELSE Closed]
  /\ UNCHANGED <<default, models, fields, targets, edits>>

DeleteCommit(a) ==
  /\ wizard[a].pc = "delete" /\ wizard[a].touched \cap wizard[a].selected = {}
  /\ default' = [d \in Live \ wizard[a].selected |-> default[d]]
  /\ wizard' = Spoil([wizard EXCEPT ![a] = Closed], wizard[a].selected)
  /\ UNCHANGED <<models, fields, targets, edits>>

\* a row was written since, the wizard is closed, or something else failed
Closes(a) ==
  /\ wizard[a].pc # "closed"
  /\ wizard' = [wizard EXCEPT ![a] = Closed]
  /\ UNCHANGED <<default, models, fields, targets, edits>>

-----------------------------------------------------------------------------
(* Everybody else *)

\* the form of ir.default, in developer mode
Rewrite(d) ==
  /\ Editing /\ d \in Live
  /\ \E c \in Companies \cup {All}, v \in {default[d].value, Unreadable} :
       default' = [default EXCEPT ![d].company = c, ![d].value = v]
  /\ wizard' = Spoil(wizard, {d})
  /\ UNCHANGED <<models, fields, targets>>

Uninstall ==
  /\ Editing
  /\ \/ \E m \in models : models' = models \ {m} /\ UNCHANGED <<fields, targets>>
     \/ \E f \in fields : fields' = fields \ {f} /\ UNCHANGED <<models, targets>>
     \/ \E t \in targets : targets' = targets \ {t} /\ UNCHANGED <<models, fields>>
  /\ UNCHANGED <<default, wizard>>

Init ==
  /\ default \in UNION {[S -> {Row(f, All, c, v) : f \in Fields, c \in Companies \cup {All},
                                                   v \in Values \ {Text}}] : S \in SUBSET (Slots \ {Max(Slots)})}
  /\ models = Models /\ fields = Fields /\ targets = Targets
  /\ wizard = [a \in Admins |-> Closed] /\ edits = 0

Next ==
  \/ \E a \in Admins : \/ SetStart(a) \/ SetCommit(a) \/ OpenDelete(a)
                       \/ DeleteStart(a) \/ DeleteCommit(a) \/ Closes(a)
  \/ \E d \in Slots : Rewrite(d)
  \/ Uninstall

Spec == Init /\ [][Next]_vars

-----------------------------------------------------------------------------
(* Properties *)

\* "an administrator restricted to some companies can never delete a default the
\* list does not show them": what goes is, as it goes, on the list of who deletes it.
OnlyShownGo ==
  \A a \in Admins : DeleteCommit(a) => Live \ DOMAIN default' \subseteq Shown(a)

\* A filter finds the entries whose own line, in a list of any length, shows the
\* status or the tick it asks for.
FiltersAgree ==
  \A a \in Admins, lines \in SUBSET Live : \A d \in lines \cap Shown(a), positive \in BOOLEAN :
    /\ \A s \in {"ok", "invalid_value", "missing_target"} \cup Orphaned :
         d \in Search(a, {s}, positive) <=> (Status(lines, d) = s <=> positive)
    /\ \A value \in BOOLEAN :
         d \in SearchOrphaned(a, value, positive)
           <=> ((Status(lines, d) \in Orphaned <=> value) <=> positive)

-----------------------------------------------------------------------------
(* The inductive invariant *)

\* what a is deleting is shown to a, unless it was written since
Fits(w, a) ==
  /\ w.pc = "set" =>
       w = [pc |-> "set", row |-> w.row, same |-> w.same, touched |-> w.touched]
  /\ w.pc = "delete" =>
       /\ w = [pc |-> "delete", selected |-> w.selected, touched |-> w.touched]
       /\ w.selected \ w.touched \subseteq Shown(a)

IInv == wizard = [a \in Admins |-> wizard[a]] /\ \A a \in Admins : Fits(wizard[a], a)
=============================================================================
