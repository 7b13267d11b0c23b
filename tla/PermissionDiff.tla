--------------------------- MODULE PermissionDiff ---------------------------
(***************************************************************************)
(* user_permission_diff: two users compared group by group and model by    *)
(* model, and a copy of the groups that one has and the other has not.     *)
(*                                                                         *)
(* The copy is a transaction that computes its groups again.  It writes    *)
(* the row of the target, so that it is made again when somebody changed   *)
(* the target; of the source it knows its snapshot.                        *)
(***************************************************************************)
EXTENDS Integers, FiniteSets

CONSTANTS
  Users, Groups,
  Implied,      \* pairs of groups: res_groups_implied_rel
  Types,        \* internal, portal, public: a user is of one
  Protected,    \* the superuser and the default administrator
  Models,       \* numbered in the order of their names
  Ops,          \* read, write, create, unlink
  Access,       \* [Groups -> SUBSET (Models \X Ops)]: what a group adds
  Public,       \* lines without a group
  Limit,        \* MODEL_LINE_LIMIT
  MaxEdits

VARIABLES
  assigned,     \* [Users -> SUBSET Groups]
  screen,       \* the comparison
  dialog,       \* the confirmation
  copy,         \* the transaction of Grant
  edits

vars == <<assigned, screen, dialog, copy, edits>>

-----------------------------------------------------------------------------
(* expand_group_ids, access_map *)

\* a set that holds all that its groups imply
Closed(gs) == \A p \in Implied : p[1] \in gs => p[2] \in gs

\* WITH RECURSIVE ... UNION: the least one
Closure(gs) ==
  {g \in Groups : \A all \in SUBSET Groups : gs \subseteq all /\ Closed(all) => g \in all}

Rights(gs) == Public \cup UNION {Access[g] : g \in gs}

\* groups_to_grant
ToGrant(has, of) == of \ Closure(has)

\* what the core keeps of a user: what groups imply is stored with them
Stored(gs) == Closure(gs)

\* mutant: the groups replace those of the target
Replaced(has, groups) == Stored(groups)

Linked(has, groups) == Stored(has \cup groups)

OneType(gs) == Cardinality(gs \cap Types) <= 1

-----------------------------------------------------------------------------
(* _build_lines *)

Lowest(ms) == {m \in ms : Cardinality({k \in ms : k < m}) < Limit}

\* _create_model_lines: of one side
Gains(mine, theirs) ==
  LET more == {m \in Models : \E op \in Ops : <<m, op>> \in Rights(mine) \ Rights(theirs)}
  IN  [m \in Lowest(more) |-> {op \in Ops : <<m, op>> \in Rights(mine) \ Rights(theirs)}]

Truncated(mine, theirs) ==
  Cardinality({m \in Models : \E op \in Ops : <<m, op>> \in Rights(mine) \ Rights(theirs)}) > Limit

Source(g, gs) ==
  IF g \in gs THEN "assigned" ELSE IF g \in Closure(gs) THEN "implied" ELSE "none"

\* _create_group_lines
GroupLines(mode, a, b) ==
  LET inA == IF mode = "effective" THEN Closure(a) ELSE a
      inB == IF mode = "effective" THEN Closure(b) ELSE b
  IN  [g \in inA \cup inB |->
        [side |-> IF g \in inA \cap inB THEN "shared"
                  ELSE IF g \in inA THEN "only_a" ELSE "only_b",
         source_a |-> Source(g, a), source_b |-> Source(g, b),
         to_copy |-> g \in inA \ inB /\ g \in a]]

Comparison(mode, ua, ub, users) ==
  LET a == users[ua]
      b == users[ub]
      \* the model table is of effective groups in both modes
      ea == Closure(a)
      eb == Closure(b)
  IN  [pc |-> "computed", mode |-> mode, a |-> ua, b |-> ub,
       lines |-> GroupLines(mode, a, b),
       gains_a |-> Gains(ea, eb), gains_b |-> Gains(eb, ea),
       copies |-> Cardinality(ToGrant(b, a)),
       truncated |-> Truncated(ea, eb) \/ Truncated(eb, ea)]

NoScreen == [pc |-> "none"]
NoDialog == [pc |-> "none"]
NoCopy == [pc |-> "none"]

\* action_compare
Compare(mode, ua, ub) ==
  /\ copy.pc = "none" /\ ua # ub
  /\ screen' = Comparison(mode, ua, ub, assigned)
  /\ dialog' = NoDialog
  /\ UNCHANGED <<assigned, copy, edits>>

\* action_open_copy: check_target, then an empty list is refused
OpenCopy ==
  /\ screen.pc = "computed" /\ dialog.pc = "none" /\ copy.pc = "none"
  /\ screen.b \notin Protected
  /\ ToGrant(assigned[screen.b], assigned[screen.a]) # {}
  /\ dialog' = [pc |-> "open", a |-> screen.a, b |-> screen.b,
                groups |-> ToGrant(assigned[screen.b], assigned[screen.a])]
  /\ UNCHANGED <<assigned, screen, copy, edits>>

\* mutant: the list of the dialog is granted
GrantedAsListed(d) == d.groups

\* the list of the dialog is there to be read
Granted(d) == ToGrant(assigned[d.b], assigned[d.a])

\* action_apply, ticked: what is granted is computed again; an empty list and a mix
\* of types are refused and leave the dialog open
ApplyStart ==
  /\ dialog.pc = "open" /\ copy.pc = "none" /\ dialog.b \notin Protected
  /\ LET groups == Granted(dialog)
         after  == Linked(assigned[dialog.b], groups)
     IN  /\ groups # {} /\ OneType(after)
         /\ copy' = [pc |-> "open", seen |-> assigned, groups |-> groups, after |-> after,
                     stale |-> FALSE]
  /\ UNCHANGED <<assigned, screen, dialog, edits>>

\* the comparison is rebuilt by the same transaction
ApplyCommit ==
  /\ copy.pc = "open" /\ ~copy.stale
  /\ assigned' = [assigned EXCEPT ![dialog.b] = copy.after]
  /\ screen' = Comparison(screen.mode, dialog.a, dialog.b,
                          [copy.seen EXCEPT ![dialog.b] = copy.after])
  /\ dialog' = NoDialog /\ copy' = NoCopy
  /\ UNCHANGED edits

\* somebody wrote the target first, and it is made again; or it is rolled back
ApplyAgain ==
  /\ copy.pc = "open"
  /\ copy' = NoCopy
  /\ UNCHANGED <<assigned, screen, dialog, edits>>

\* the form of a user
EditUser(u) ==
  /\ edits < MaxEdits /\ edits' = edits + 1
  /\ \E gs \in SUBSET Groups :
       /\ OneType(Stored(gs)) /\ Stored(gs) # assigned[u]
       /\ assigned' = [assigned EXCEPT ![u] = Stored(gs)]
  /\ copy' = IF copy.pc = "open" /\ u = dialog.b THEN [copy EXCEPT !.stale = TRUE] ELSE copy
  /\ UNCHANGED <<screen, dialog>>

-----------------------------------------------------------------------------
Init ==
  /\ assigned \in [Users -> {Stored(gs) : gs \in {x \in SUBSET Groups : OneType(Stored(x))}}]
  /\ screen = NoScreen /\ dialog = NoDialog /\ copy = NoCopy /\ edits = 0

Next ==
  \/ \E mode \in {"effective", "assigned"}, ua, ub \in Users : Compare(mode, ua, ub)
  \/ OpenCopy \/ ApplyStart \/ ApplyCommit \/ ApplyAgain
  \/ \E u \in Users : EditUser(u)

Spec == Init /\ [][Next]_vars

-----------------------------------------------------------------------------
(* Properties *)

\* README: "It only ever adds", "your note lists exactly which groups were added":
\* a copy leaves the target all it had when it commits, however old the dialog is
\* and whoever edits the two users meanwhile; the note names what is new, all of it;
\* no user is of two types; and the superuser and the administrator are left alone.
CopyOnlyAdds ==
  ApplyCommit =>
    /\ assigned[dialog.b] \subseteq assigned'[dialog.b]
    /\ copy.groups = assigned'[dialog.b] \ assigned[dialog.b]
    /\ OneType(assigned'[dialog.b])
    /\ dialog.b \notin Protected

\* README: "you can see that the 'Only User A' column is now empty", and with it
\* the models that only A may use: the copy of what A is assigned closes the gap
\* in groups and in rights, in both modes.
GapClosed ==
  ApplyCommit =>
    /\ \A g \in DOMAIN screen'.lines : screen'.lines[g].side # "only_a"
    /\ DOMAIN screen'.gains_a = {} /\ screen'.copies = 0

-----------------------------------------------------------------------------
(* The inductive invariant *)

Proper == Implied \subseteq Groups \X Groups

\* a user has all that the groups of theirs imply
HasAll(users) == users \in [Users -> {gs \in SUBSET Groups : Closed(gs)}]

Others(t) == t.a \in Users /\ t.b \in Users /\ t.a # t.b

\* a copy that nobody disturbed was computed for the target as it is
CopyHolds ==
  copy.pc = "open" =>
    /\ copy = [pc |-> "open", seen |-> copy.seen, groups |-> copy.groups,
               after |-> copy.after, stale |-> copy.stale]
    /\ dialog.pc = "open" /\ HasAll(copy.seen)
    /\ copy.groups = ToGrant(copy.seen[dialog.b], copy.seen[dialog.a])
    /\ copy.after = Linked(copy.seen[dialog.b], copy.groups) /\ OneType(copy.after)
    /\ ~copy.stale => assigned[dialog.b] = copy.seen[dialog.b]

IInv ==
  /\ HasAll(assigned)
  /\ screen.pc = "computed" => Others(screen)
  /\ dialog.pc = "open" => Others(dialog) /\ dialog.b \notin Protected
  /\ CopyHolds
=============================================================================
