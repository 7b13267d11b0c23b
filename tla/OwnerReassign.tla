---------------------------- MODULE OwnerReassign ----------------------------
(***************************************************************************)
(* record_owner_bulk_reassign: the selected records, or all those of a     *)
(* user, are handed over to somebody else, at most MaxRecords in one run.  *)
(* A run is a transaction on a snapshot; a record that it writes and that  *)
(* somebody wrote since makes the whole request start again.               *)
(***************************************************************************)
EXTENDS Integers, FiniteSets

CONSTANTS
  Records,      \* their ids, in the order of the list
  Hidden, Denied, Refusing,  \* those the user may not see, may not write, and
                             \* those whose write a constraint refuses
  Users, Nobody,
  MaxRecords,   \* MAX_RECORDS
  MaxEdits      \* bound on what others do

VARIABLES
  many,         \* is the responsible field a many2many
  owners,       \* [a subset of Records -> SUBSET Users]
  run,
  edits

vars == <<many, owners, run, edits>>

NoRun == [pc |-> "idle"]

-----------------------------------------------------------------------------
(* A run *)

First(rs) == {r \in rs : Cardinality({s \in rs : s < r}) < MaxRecords}

\* _owner_domain, under the rules of the user
Matching(in, t) == {r \in DOMAIN t \ Hidden : in.old \in t[r]}

\* _target_records: those handled
Targets(in, t) ==
  IF in.scope = "user" THEN First(Matching(in, t))
  ELSE First(in.selection) \cap DOMAIN t

\* and those left over
Remaining(in, t) ==
  Cardinality(IF in.scope = "user" THEN Matching(in, t) ELSE in.selection)
    - Cardinality(First(IF in.scope = "user" THEN Matching(in, t) ELSE in.selection))

\* mutant: the new owner replaces whoever was there
HandedWhole(in, users) == {in.new}

\* _reassign_values
Handed(in, users) ==
  IF many THEN (users \ {in.old}) \cup {in.new} ELSE {in.new}

\* scope, old_user_id, new_user_id and the selection of the list; with a selection
\* the previous owner may be given too, and is taken off as well
Inputs ==
  [scope : {"user"}, selection : {{}}, old : Users, new : Users] \cup
  [scope : {"selection"}, selection : (SUBSET Records) \ {{}},
   old : Users \cup {Nobody}, new : Users]

ReassignStart ==
  /\ run.pc = "idle"
  /\ \E in \in Inputs :
       /\ Targets(in, owners) # {}
       \* an invisible record of a selection cannot be read, and ends the request
       /\ Targets(in, owners) \cap Hidden = {}
       /\ run' = [pc |-> "running", in |-> in, seen |-> owners, touched |-> {}]
  /\ UNCHANGED <<many, owners, edits>>

ToHand(t) == {r \in Targets(t.in, t.seen) : Handed(t.in, t.seen[r]) # t.seen[r]}

\* OperationalError
Conflict(t) == (ToHand(t) \ Denied) \cap t.touched # {}

ReassignCommit ==
  /\ run.pc = "running" /\ ~Conflict(run)
  /\ LET in == run.in
         done == ToHand(run) \ (Denied \cup Refusing)
     IN  /\ owners' = [r \in DOMAIN owners |->
              IF r \in done THEN Handed(in, owners[r]) ELSE owners[r]]
         /\ run' = [pc |-> "done", reassigned |-> Cardinality(done),
              skipped |-> Cardinality(ToHand(run) \cap Denied),
              failed |-> Cardinality(ToHand(run) \ (Denied \cup done)),
              unchanged |-> Cardinality(Targets(in, run.seen) \ ToHand(run)),
              remaining |-> Remaining(in, run.seen)]
  /\ UNCHANGED <<many, edits>>

ReassignFails ==
  /\ run.pc = "running" /\ run' = NoRun
  /\ UNCHANGED <<many, owners, edits>>

Close ==
  /\ run.pc = "done" /\ run' = NoRun
  /\ UNCHANGED <<many, owners, edits>>

-----------------------------------------------------------------------------
(* Others *)

Editing(r) ==
  /\ edits < MaxEdits /\ edits' = edits + 1
  /\ run' = IF run.pc = "running" THEN [run EXCEPT !.touched = @ \cup {r}] ELSE run

EditOwners(r) ==
  /\ Editing(r) /\ r \in DOMAIN owners
  /\ \E users \in (SUBSET Users) \ {owners[r]} :
       /\ ~many => Cardinality(users) <= 1
       /\ owners' = [owners EXCEPT ![r] = users]
  /\ UNCHANGED many

Delete(r) ==
  /\ Editing(r) /\ r \in DOMAIN owners
  /\ owners' = [s \in DOMAIN owners \ {r} |-> owners[s]]
  /\ UNCHANGED many

Init ==
  /\ many \in BOOLEAN
  /\ \E u \in Users : owners = [r \in Records |-> {u}]
  /\ run = NoRun /\ edits = 0

Next ==
  \/ ReassignStart \/ ReassignCommit \/ ReassignFails \/ Close
  \/ \E r \in Records : EditOwners(r) \/ Delete(r)

Spec == Init /\ [][Next]_vars

-----------------------------------------------------------------------------
(* Properties *)

\* "the other collaborators are never wiped", "report it, never bypass the rule":
\* a run changes only records it may write, makes the new owner one of theirs,
\* takes none off but the one it was told to, and loses no edit made meanwhile;
\* its counts are what happened, and what is left is what it did not look at.
HandsOver ==
  ReassignCommit =>
    LET changed == {r \in DOMAIN owners : owners'[r] # owners[r]}
        seen == run.seen
    IN  /\ \A r \in changed :
             /\ r \notin Denied /\ owners[r] = seen[r]
             /\ run.in.new \in owners'[r]
             /\ many => owners[r] \ owners'[r] \subseteq {run.in.old}
        /\ run'.reassigned = Cardinality(changed)
        /\ run'.reassigned + run'.unchanged + run'.skipped + run'.failed
             + run'.remaining =
           Cardinality(IF run.in.scope = "user" THEN Matching(run.in, seen)
                       ELSE run.in.selection \ (First(run.in.selection) \ DOMAIN seen))

-----------------------------------------------------------------------------
(* The inductive invariant *)

Proper == IsFiniteSet(Records)

\* a run sees every record that nobody wrote since as it is
RunHolds ==
  run.pc = "running" =>
    /\ run = [pc |-> "running", in |-> run.in, seen |-> run.seen, touched |-> run.touched]
    /\ run.in \in Inputs
    /\ DOMAIN owners \subseteq DOMAIN run.seen /\ DOMAIN run.seen \subseteq Records
    /\ \A r \in DOMAIN run.seen \ run.touched :
         r \in DOMAIN owners /\ owners[r] = run.seen[r]

IInv == DOMAIN owners \subseteq Records /\ RunHolds
=============================================================================
