--------------------------- MODULE MassFieldUpdate ---------------------------
(***************************************************************************)
(* mass_field_update: a dialog in three steps that writes one field of the *)
(* records it was opened on.  Apply is a transaction on a snapshot; it may *)
(* be pressed twice, and a row somebody wrote since the snapshot, the      *)
(* dialog's own included, makes the whole request start again.             *)
(***************************************************************************)
EXTENDS Naturals, FiniteSets

CONSTANTS
  Records,
  Hidden,       \* records the user may not see
  Denied,       \* records the user may not write
  Refusing,     \* records whose write a constraint refuses
  Fields,
  Required,     \* fields that cannot be emptied
  Values, Empty,
  MaxRecords,   \* MAX_RECORDS
  Dialog,       \* the row of the dialog itself
  Requests,     \* presses of Apply that run at once
  MaxEdits      \* bound on what others do

VARIABLES
  rec,          \* [a subset of Records -> [Fields -> Values \cup {Empty}]]
  offered,      \* the fields the gate lets this user update
  wizard,
  request,      \* [Requests -> the transaction of that press]
  edits

vars == <<rec, offered, wizard, request, edits>>

Contents == Values \cup {Empty}

NoRequest == [pc |-> "idle"]

Spoil(rs) == [q \in Requests |->
  IF request[q].pc = "idle" THEN NoRequest ELSE [request[q] EXCEPT !.touched = @ \cup rs]]

-----------------------------------------------------------------------------
(* What a press of Preview and of Apply works out *)

\* _target_field and _write_value
Accepted(f, v) == f \in offered /\ ~(v = Empty /\ f \in Required)

\* the checks that Preview and Apply both make
Admitted ==
  /\ wizard.selection # {} /\ Cardinality(wizard.selection) <= MaxRecords
  /\ Accepted(wizard.field, wizard.value)

\* _partition_records, on a table
Missing(table) == wizard.selection \ DOMAIN table
Unseen(table) == (wizard.selection \cap DOMAIN table) \cap Hidden
Readable(table) == (wizard.selection \cap DOMAIN table) \ Hidden

\* _change_domain
Changing(table) == {r \in Readable(table) : table[r][wizard.field] # wizard.value}

-----------------------------------------------------------------------------
(* The steps of the dialog *)

\* create: the selection is the one of the list, for good
Open ==
  /\ wizard.state \in {"closed", "done"}
  /\ \A q \in Requests : request[q].pc = "idle"
  /\ \E selection \in SUBSET Records, f \in Fields, v \in Contents :
       wizard' = [state |-> "choose", selection |-> selection, field |-> f, value |-> v]
  /\ UNCHANGED <<rec, offered, request, edits>>

Choose ==
  /\ wizard.state = "choose"
  /\ \E f \in Fields, v \in Contents : wizard' = [wizard EXCEPT !.field = f, !.value = v]
  /\ UNCHANGED <<rec, offered, request, edits>>

\* action_preview
Preview ==
  /\ wizard.state = "choose" /\ Admitted
  /\ wizard' = [wizard EXCEPT !.state = "confirm"]
  /\ UNCHANGED <<rec, offered, request, edits>>

\* action_back
Back ==
  /\ wizard.state = "confirm"
  /\ wizard' = [wizard EXCEPT !.state = "choose"]
  /\ request' = Spoil({Dialog})
  /\ UNCHANGED <<rec, offered, edits>>

\* the checks of action_apply
MayApply == wizard.state = "confirm" /\ Admitted

ApplyStart(q) ==
  /\ request[q].pc = "idle" /\ MayApply
  /\ request' = [request EXCEPT ![q] = [pc |-> "running", seen |-> rec, touched |-> {}]]
  /\ UNCHANGED <<rec, offered, wizard, edits>>

\* mutant: what could not be written counts as failed, like any other error
ConflictOnDialog(q) == Dialog \in request[q].touched

\* OperationalError: a row that the request writes is no longer that of the snapshot
Conflict(q) ==
  \/ Dialog \in request[q].touched
  \/ request[q].touched \cap (Changing(request[q].seen) \ Denied) # {}

Skipped(table) ==
  Cardinality((Changing(table) \cap Denied) \cup Unseen(table) \cup Missing(table))

\* one savepoint per record
ApplyCommit(q) ==
  /\ request[q].pc = "running" /\ ~Conflict(q)
  /\ LET seen == request[q].seen
         done == Changing(seen) \ (Denied \cup Refusing \cup request[q].touched)
     IN  /\ rec' = [r \in DOMAIN rec |->
              IF r \in done THEN [rec[r] EXCEPT ![wizard.field] = wizard.value] ELSE rec[r]]
         /\ wizard' = [state |-> "done", selection |-> wizard.selection,
              updated |-> Cardinality(done), skipped |-> Skipped(seen),
              failed |-> Cardinality((Changing(seen) \ Denied) \ done),
              unchanged |-> Cardinality(Readable(seen) \ Changing(seen))]
         /\ request' = [p \in Requests |-> IF p = q THEN NoRequest
                                           ELSE Spoil(done \cup {Dialog})[p]]
  /\ UNCHANGED <<offered, edits>>

\* the request is undone, and may start again
ApplyFails(q) ==
  /\ request[q].pc = "running"
  /\ request' = [request EXCEPT ![q] = NoRequest]
  /\ UNCHANGED <<rec, offered, wizard, edits>>

-----------------------------------------------------------------------------
(* Others *)

Editing == edits < MaxEdits /\ edits' = edits + 1

Edit(r) ==
  /\ Editing /\ r \in DOMAIN rec
  /\ \E f \in Fields, v \in Contents :
       rec' = [rec EXCEPT ![r][f] = IF v = Empty /\ f \in Required THEN @ ELSE v]
  /\ request' = Spoil({r})
  /\ UNCHANGED <<offered, wizard>>

Delete(r) ==
  /\ Editing /\ r \in DOMAIN rec
  /\ rec' = [s \in DOMAIN rec \ {r} |-> rec[s]]
  /\ request' = Spoil({r})
  /\ UNCHANGED <<offered, wizard>>

\* a group is given to the user or taken away, a field becomes read-only
Regrant(f) ==
  /\ Editing
  /\ offered' = IF f \in offered THEN offered \ {f} ELSE offered \cup {f}
  /\ UNCHANGED <<rec, wizard, request>>

Init ==
  /\ \E v \in Values : rec = [r \in Records |-> [f \in Fields |-> v]]
  /\ offered = Fields
  /\ wizard = [state |-> "closed"]
  /\ request = [q \in Requests |-> NoRequest]
  /\ edits = 0

Next ==
  \/ Open \/ Choose \/ Preview \/ Back
  \/ \E q \in Requests : ApplyStart(q) \/ ApplyCommit(q) \/ ApplyFails(q)
  \/ \E r \in Records : Edit(r) \/ Delete(r)
  \/ \E f \in Fields : Regrant(f)

Spec == Init /\ [][Next]_vars

-----------------------------------------------------------------------------
(* Properties *)

\* "Reports updated / skipped / failed": when Apply has run, every record of the
\* selection is in one of the counts (or carried the value), those counted as
\* updated are the ones that changed, and only a refusal of the record itself
\* counts as failed, never that somebody else wrote it.
ReportTells ==
  \A q \in Requests : ApplyCommit(q) =>
    LET changed == {r \in DOMAIN rec : rec'[r] # rec[r]}
    IN  /\ wizard'.updated = Cardinality(changed)
        /\ wizard'.failed =
             Cardinality((Changing(request[q].seen) \ Denied) \cap Refusing)
        /\ wizard'.updated + wizard'.skipped + wizard'.failed + wizard'.unchanged
             = Cardinality(wizard.selection)

-----------------------------------------------------------------------------
(* What the proofs need *)

Proper == IsFiniteSet(Records)

\* A request that runs knows the dialog as it is, and every row as it is that nobody has
\* written since: what was written since is in its touched.
RequestSound(q) ==
  /\ request[q].pc \in {"idle", "running"}
  /\ request[q].pc = "running" =>
       /\ DOMAIN request[q] = {"pc", "seen", "touched"}
       /\ DOMAIN rec \subseteq DOMAIN request[q].seen /\ DOMAIN request[q].seen \subseteq Records
       /\ \A r \in DOMAIN request[q].seen \ request[q].touched :
            r \in DOMAIN rec /\ rec[r] = request[q].seen[r]
       /\ Dialog \notin request[q].touched => wizard.state = "confirm"

IInv ==
  /\ DOMAIN rec \subseteq Records /\ \A r \in DOMAIN rec : DOMAIN rec[r] = Fields
  /\ wizard.state \in {"closed", "choose", "confirm", "done"}
  /\ wizard.state \in {"choose", "confirm"} =>
       /\ DOMAIN wizard = {"state", "selection", "field", "value"}
       /\ wizard.selection \subseteq Records /\ wizard.field \in Fields
  /\ DOMAIN request = Requests
  /\ \A q \in Requests : RequestSound(q)
=============================================================================
