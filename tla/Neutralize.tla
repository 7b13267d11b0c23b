------------------------------ MODULE Neutralize ------------------------------
(***************************************************************************)
(* database_neutralize_toggle: one switch that remembers which servers and *)
(* scheduled actions are active, switches them off, and puts them back.    *)
(*                                                                         *)
(* A save of the settings is a transaction on a snapshot: it is made again *)
(* when a row it writes was changed since, and refused when it writes a    *)
(* scheduled action that is being executed.                                *)
(***************************************************************************)
EXTENDS Integers, FiniteSets

CONSTANTS
  Records,      \* mail servers and scheduled actions, those to come included
  Crons,        \* the scheduled actions among them
  Saves,        \* saves of the settings
  MaxEdits

VARIABLES
  active,       \* [the records there are -> BOOLEAN]
  param,        \* [on, snapshot]: database_neutralize_toggle.*
  save,         \* [Saves -> a transaction]
  executing,    \* the scheduled actions that are executed, which locks their rows
  was,          \* history: the flags that were remembered when it was switched on
  edits

vars == <<active, param, save, executing, was, edits>>

Nothing == [r \in {} |-> FALSE]
NoSave == [pc |-> "idle"]

Existing == DOMAIN active

-----------------------------------------------------------------------------
(* set_values, on the snapshot of its transaction *)

\* mutant: only the flags are looked at, and the switch is not
OnAgain(on) == TRUE

\* _sandbox_neutralize is reached: the switch is off
OnAtAll(on) == ~on

\* the flags after it is switched on, or off: deleted records are skipped, those
\* created since are left alone
SwitchedOff(flags) == [r \in DOMAIN flags |-> FALSE]

\* mutant: everything is switched on again
AllBack(flags, snapshot) == [r \in DOMAIN flags |-> r \in DOMAIN snapshot \/ flags[r]]

PutBack(flags, snapshot) ==
  [r \in DOMAIN flags |-> IF r \in DOMAIN snapshot THEN snapshot[r] ELSE flags[r]]

Target(wanted) == IF wanted THEN SwitchedOff(active) ELSE PutBack(active, param.snapshot)

Written(wanted) == {r \in Existing : Target(wanted)[r] # active[r]}

SaveStart(s, wanted) ==
  /\ save[s].pc = "idle"
  /\ IF wanted THEN OnAtAll(param.on) ELSE param.on
  /\ Written(wanted) \cap executing = {}
  /\ \A t \in Saves : save[t].pc = "open" => save[t].rows \cap Written(wanted) = {}
  /\ save' = [save EXCEPT ![s] =
       [pc |-> "open", wanted |-> wanted, seen |-> active, rows |-> Written(wanted),
        flags |-> Target(wanted), stale |-> FALSE]]
  /\ UNCHANGED <<active, param, executing, was, edits>>

\* what others committed is in the way of those that write the same rows
Stale(rows, params) ==
  [t \in Saves |-> IF save[t].pc = "idle" THEN save[t] ELSE
                   [save[t] EXCEPT !.stale = @ \/ params \/ rows \cap save[t].rows # {}]]

SaveCommit(s) ==
  /\ save[s].pc = "open" /\ ~save[s].stale
  /\ active' = [r \in Existing |-> IF r \in save[s].rows THEN save[s].flags[r] ELSE active[r]]
  /\ param' = IF save[s].wanted THEN [on |-> TRUE, snapshot |-> save[s].seen]
              ELSE [on |-> FALSE, snapshot |-> Nothing]
  /\ was' = CASE ~save[s].wanted -> Nothing
             [] save[s].wanted /\ param.on -> was
             [] OTHER -> save[s].seen
  /\ save' = [Stale(save[s].rows, TRUE) EXCEPT ![s] = NoSave]
  /\ UNCHANGED <<executing, edits>>

SaveAgain(s) ==
  /\ save[s].pc = "open"
  /\ save' = [save EXCEPT ![s] = NoSave]
  /\ UNCHANGED <<active, param, executing, was, edits>>

-----------------------------------------------------------------------------
(* Servers and scheduled actions come, go and are switched by hand *)

Locked(r) == r \in executing \/ \E s \in Saves : save[s].pc = "open" /\ r \in save[s].rows

Editing(rows) == edits < MaxEdits /\ edits' = edits + 1 /\ save' = Stale(rows, FALSE)

Flip(r) ==
  /\ r \in Existing /\ ~Locked(r) /\ Editing({r})
  /\ active' = [active EXCEPT ![r] = ~@]
  /\ UNCHANGED <<param, executing, was>>

CreateRecord(r) ==
  /\ r \notin Existing \cup DOMAIN param.snapshot
  /\ \A s \in Saves : save[s].pc = "open" => r \notin DOMAIN save[s].seen
  /\ Editing({r})
  /\ \E flag \in BOOLEAN :
       active' = [x \in Existing \cup {r} |-> IF x = r THEN flag ELSE active[x]]
  /\ UNCHANGED <<param, executing, was>>

Delete(r) ==
  /\ r \in Existing /\ ~Locked(r) /\ Editing({r})
  /\ active' = [x \in Existing \ {r} |-> active[x]]
  /\ UNCHANGED <<param, executing, was>>

Execute(r) ==
  /\ r \in Crons \cap Existing /\ active[r] /\ ~Locked(r)
  /\ executing' = executing \cup {r}
  /\ UNCHANGED <<active, param, save, was, edits>>

Executed(r) ==
  /\ r \in executing /\ executing' = executing \ {r}
  /\ UNCHANGED <<active, param, save, was, edits>>

-----------------------------------------------------------------------------
Init ==
  /\ \E rs \in SUBSET Records : active \in [rs -> BOOLEAN]
  /\ param = [on |-> FALSE, snapshot |-> Nothing]
  /\ save = [s \in Saves |-> NoSave] /\ executing = {} /\ was = Nothing /\ edits = 0

Next ==
  \/ \E s \in Saves : (\E wanted \in BOOLEAN : SaveStart(s, wanted)) \/ SaveCommit(s) \/ SaveAgain(s)
  \/ \E r \in Records : Flip(r) \/ CreateRecord(r) \/ Delete(r) \/ Execute(r) \/ Executed(r)

Spec == Init /\ [][Next]_vars

-----------------------------------------------------------------------------
(* Properties *)

\* README: "Exact restore: switching the toggle off puts back the exact prior flags",
\* "enabling twice never overwrites the original snapshot; records deleted meanwhile
\* are skipped; records created while sandboxed are left untouched": whatever was
\* switched by hand in the sandbox, and whichever saves overlapped.  What somebody
\* switches while the save runs may stay as he left it.
GivesBack ==
  \A s \in Saves : SaveCommit(s) =>
    \A r \in Existing \cap DOMAIN save[s].seen : active[r] = save[s].seen[r] =>
      active'[r] = CASE save[s].wanted -> FALSE
                     [] ~save[s].wanted /\ r \in DOMAIN was -> was[r]
                     [] OTHER -> active[r]

-----------------------------------------------------------------------------
(* The inductive invariant *)

\* a save that nobody disturbed is of the switch as it is, and writes what it saw to
\* be otherwise
SaveHolds(t) ==
  t.pc = "open" =>
    /\ t = [pc |-> "open", wanted |-> t.wanted, seen |-> t.seen, rows |-> t.rows,
            flags |-> t.flags, stale |-> t.stale]
    /\ ~t.stale =>
         /\ t.wanted <=> ~param.on
         /\ t.flags = IF t.wanted THEN SwitchedOff(t.seen) ELSE PutBack(t.seen, param.snapshot)
         /\ t.rows = {r \in DOMAIN t.seen : t.flags[r] # t.seen[r]}

\* what was remembered is what the switch found
IInv ==
  /\ was = param.snapshot
  /\ save = [s \in Saves |-> save[s]]
  /\ \A s \in Saves : save[s].pc \in {"idle", "open"} /\ SaveHolds(save[s])
=============================================================================
