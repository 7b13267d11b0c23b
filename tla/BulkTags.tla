------------------------------ MODULE BulkTags ------------------------------
(***************************************************************************)
(* bulk_tag_manager: tags, given by name, are added to and removed from    *)
(* the selected records, while tags are created, renamed and deleted and   *)
(* records are tagged by hand or by another run.                           *)
(*                                                                         *)
(* A run is a transaction on a snapshot; a record that somebody wrote      *)
(* since, or a tag that is gone, refuses that record alone.                *)
(***************************************************************************)
EXTENDS Naturals, FiniteSets

CONSTANTS
  Records,
  Denied,       \* records the user may not write
  Refusing,     \* records whose write raises
  Names,        \* of tags, case folded
  Runs,
  MaxTags,      \* bound on the tags ever created
  MaxEdits      \* bound on what others do

VARIABLES
  tag,          \* [a set of ids -> Names]
  next,         \* the next id
  on,           \* [a subset of Records -> sets of ids]
  run,          \* [Runs -> the transaction of that run]
  edits

vars == <<tag, next, on, run, edits>>

NoRun == [pc |-> "idle"]

\* what a commit of somebody else makes of the runs that are open
Spoil(records, tags) == [q \in Runs |->
  IF run[q].pc = "idle" THEN NoRun
  ELSE [run[q] EXCEPT !.touched = @ \cup records, !.gone = @ \cup tags]]

-----------------------------------------------------------------------------
(* A run *)

\* _name_matches: an equality but for the case
Named(t, n) == {i \in DOMAIN t.tag : t.tag[i] = n}

Unknown(t) == {n \in t.add \cup t.remove : Named(t, n) = {}}
Ambiguous(t) == {n \in t.add \cup t.remove : Cardinality(Named(t, n)) > 1}

\* _resolve_tags: every name to one tag, before anything is written; only what
\* is to be added may be created
Resolved(t) ==
  /\ Ambiguous(t) = {} /\ t.add \cap t.remove = {}
  /\ Unknown(t) \subseteq (IF t.create THEN t.add ELSE {})

Tags(t, names) == UNION {Named(t, n) : n \in names}

\* the ids of the tags that the run creates
Created(t) ==
  LET missing == Unknown(t) \cap t.add
  IN  CHOOSE f \in [next..next + Cardinality(missing) - 1 -> missing] :
        \A n \in missing : \E i \in DOMAIN f : f[i] = n

Existing(t) == t.selection \cap DOMAIN t.on

\* mutant: the list of tags is replaced
AfterReplacing(tags, add, remove) == IF add \subseteq tags THEN tags \ remove ELSE add

\* (4, id) and (3, id) only, for what the record was seen to lack or to have
Given(t, r, add) == add \ t.on[r]
Taken(t, r, remove) == remove \cap t.on[r]
After(tags, add, remove) == (tags \cup add) \ remove

\* the record cannot be written, or a tag it is given or loses is gone
Fails(t, r, add, remove) ==
  \/ r \in Refusing \cup t.touched
  \/ (Given(t, r, add) \cup Taken(t, r, remove)) \cap t.gone # {}

\* action_apply, as it begins
ApplyStart(q) ==
  /\ run[q].pc = "idle"
  /\ \E selection \in SUBSET Records, add, remove \in SUBSET Names, create \in BOOLEAN :
       /\ selection # {} /\ add \cup remove # {}
       /\ run' = [run EXCEPT ![q] =
            [pc |-> "running", selection |-> selection, add |-> add, remove |-> remove,
             create |-> create, tag |-> tag, on |-> on, touched |-> {}, gone |-> {}]]
  /\ UNCHANGED <<tag, next, on, edits>>

\* the counts of _apply_tags are kept in the run until it is closed
ApplyCommit(q) ==
  /\ run[q].pc = "running" /\ Resolved(run[q]) /\ Existing(run[q]) # {}
  /\ LET t == run[q]
         created == IF t.create THEN Created(t) ELSE <<>>
         add == Tags(t, t.add) \cup DOMAIN created
         remove == Tags(t, t.remove)
         skipped == Existing(t) \cap Denied
         same == {r \in Existing(t) \ skipped : Given(t, r, add) \cup Taken(t, r, remove) = {}}
         failed == {r \in Existing(t) \ (skipped \cup same) : Fails(t, r, add, remove)}
         changed == Existing(t) \ (skipped \cup same \cup failed)
     IN  /\ next + Cardinality(DOMAIN created) <= MaxTags + 1
         /\ tag' = [i \in DOMAIN tag \cup DOMAIN created |->
                      IF i \in DOMAIN tag THEN tag[i] ELSE created[i]]
         /\ next' = next + Cardinality(DOMAIN created)
         /\ on' = [r \in DOMAIN on |->
                     IF r \in changed
                     THEN After(on[r], Given(t, r, add), Taken(t, r, remove)) ELSE on[r]]
         /\ run' = [Spoil(changed, {}) EXCEPT ![q] =
              [pc |-> "done", selection |-> t.selection, changed |-> Cardinality(changed),
               unchanged |-> Cardinality(same), skipped |-> Cardinality(skipped),
               failed |-> Cardinality(failed), touched |-> {}, gone |-> {}]]
  /\ UNCHANGED edits

\* a name that is not resolved, a selection that is gone, or a crash: nothing stays
ApplyFails(q) ==
  /\ run[q].pc = "running"
  /\ run' = [run EXCEPT ![q] = NoRun]
  /\ UNCHANGED <<tag, next, on, edits>>

Close(q) ==
  /\ run[q].pc = "done"
  /\ run' = [run EXCEPT ![q] = NoRun]
  /\ UNCHANGED <<tag, next, on, edits>>

-----------------------------------------------------------------------------
(* Others *)

Editing == edits < MaxEdits /\ edits' = edits + 1

TagByHand(r) ==
  /\ Editing /\ r \in DOMAIN on
  /\ \E i \in DOMAIN tag :
       on' = [on EXCEPT ![r] = IF i \in @ THEN @ \ {i} ELSE @ \cup {i}]
  /\ run' = Spoil({r}, {})
  /\ UNCHANGED <<tag, next>>

DeleteRecord(r) ==
  /\ Editing /\ r \in DOMAIN on
  /\ on' = [s \in DOMAIN on \ {r} |-> on[s]]
  /\ run' = Spoil({r}, {})
  /\ UNCHANGED <<tag, next>>

NewTag(n) ==
  /\ Editing /\ next <= MaxTags
  /\ tag' = [i \in DOMAIN tag \cup {next} |-> IF i = next THEN n ELSE tag[i]]
  /\ next' = next + 1
  /\ UNCHANGED <<on, run>>

\* no record is written, and no row of the relation
RenameTag(i, n) ==
  /\ Editing /\ i \in DOMAIN tag /\ n # tag[i]
  /\ tag' = [tag EXCEPT ![i] = n]
  /\ UNCHANGED <<next, on, run>>

\* its rows go with it, and no record is written
DeleteTag(i) ==
  /\ Editing /\ i \in DOMAIN tag
  /\ tag' = [j \in DOMAIN tag \ {i} |-> tag[j]]
  /\ on' = [r \in DOMAIN on |-> on[r] \ {i}]
  /\ run' = Spoil({}, {i})
  /\ UNCHANGED next

Init ==
  /\ tag \in UNION {[1..k -> Names] : k \in 0..2}
  /\ next = 3
  /\ \E tags \in {{}, DOMAIN tag} : on = [r \in Records |-> tags]
  /\ run = [q \in Runs |-> NoRun]
  /\ edits = 0

Next ==
  \/ \E q \in Runs : ApplyStart(q) \/ ApplyCommit(q) \/ ApplyFails(q) \/ Close(q)
  \/ \E r \in Records : TagByHand(r) \/ DeleteRecord(r)
  \/ \E n \in Names : NewTag(n)
  \/ \E i \in DOMAIN tag : DeleteTag(i) \/ \E n \in Names : RenameTag(i, n)

Spec == Init /\ [][Next]_vars

-----------------------------------------------------------------------------
(* Properties *)

\* "every other tag on the record is left alone", "a typo can never leave half of
\* the selection updated": a run gives and takes the tags that had the names it was
\* given when it began, and no other, though tags are created, renamed and deleted
\* while it writes; it changes no record but those of its selection that it may
\* write; a record it changes has every tag to be added, and every name to be removed
\* was one; its counts are what happened.  Names are turned into ids before anything
\* is written: a tag that is renamed in between is given, or taken, under its new name.
OthersKept ==
  \A q \in Runs : ApplyCommit(q) =>
    LET t == run[q]
        changed == {r \in DOMAIN on : on'[r] # on[r]}
    IN  /\ \A r \in changed :
             /\ r \in t.selection \ Denied
             /\ \A n \in t.add :
                  /\ Named(t, n) \subseteq on'[r] \cup t.gone
                  /\ Named(t, n) = {} => \E i \in on'[r] : tag'[i] = n
             /\ \A n \in t.remove : Named(t, n) # {}
        /\ \A r \in DOMAIN on, i \in DOMAIN tag :
             (i \in DOMAIN t.tag => t.tag[i] \notin t.add \cup t.remove)
               => (i \in on[r] <=> i \in on'[r])
        /\ run'[q].changed = Cardinality(changed)
        /\ run'[q].changed + run'[q].unchanged + run'[q].skipped + run'[q].failed
             = Cardinality(Existing(t))

-----------------------------------------------------------------------------
(* The inductive invariant *)

Proper == IsFiniteSet(Records) /\ IsFiniteSet(Names)

TagsHold ==
  /\ next \in Nat /\ \A i \in DOMAIN tag : i \in Nat /\ i < next
  /\ DOMAIN on \subseteq Records /\ \A r \in DOMAIN on : on[r] \subseteq DOMAIN tag

RunShape(t) ==
  /\ t = [pc |-> "running", selection |-> t.selection, add |-> t.add, remove |-> t.remove,
          create |-> t.create, tag |-> t.tag, on |-> t.on, touched |-> t.touched, gone |-> t.gone]
  /\ t.add \subseteq Names
  /\ DOMAIN t.on \subseteq Records /\ \A r \in DOMAIN t.on : t.on[r] \subseteq DOMAIN t.tag

\* what a run saw is still so, but for the names of tags, the records written since and
\* the tags that are gone; and a tag that is gone does not come back
RunSees(t) ==
  /\ \A i \in DOMAIN t.tag \cup t.gone : i \in Nat /\ i < next
  /\ t.gone \cap DOMAIN tag = {} /\ DOMAIN t.tag \ t.gone \subseteq DOMAIN tag
  /\ \A r \in DOMAIN t.on \ t.touched : r \in DOMAIN on /\ on[r] = t.on[r] \ t.gone

IInv ==
  /\ TagsHold /\ run = [q \in Runs |-> run[q]]
  /\ \A q \in Runs : /\ run[q].pc \in {"idle", "running", "done"}
                     /\ run[q].pc = "idle" => run[q] = NoRun
                     /\ run[q].pc = "running" => RunShape(run[q]) /\ RunSees(run[q])

\* what a run that commits is known to do, with the tags it creates and the records it
\* changes, whatever happened since it began
Committed(q, t, v, created, add, remove, changed) ==
  /\ t = run[q] /\ RunShape(t) /\ RunSees(t) /\ Resolved(t)
  /\ add = Tags(t, t.add) \cup DOMAIN created /\ remove = Tags(t, t.remove)
  /\ next' \in Nat /\ next <= next'
  /\ \A i \in DOMAIN created : i \in Nat /\ next <= i /\ i < next' /\ created[i] \in t.add
  /\ \A n \in t.add : Named(t, n) = {} => \E i \in DOMAIN created : created[i] = n
  /\ tag' = [i \in DOMAIN tag \cup DOMAIN created |->
               IF i \in DOMAIN tag THEN tag[i] ELSE created[i]]
  /\ changed \subseteq DOMAIN on \cap (t.selection \ Denied)
  /\ \A r \in changed :
       /\ r \in DOMAIN t.on \ t.touched
       /\ (Given(t, r, add) \cup Taken(t, r, remove)) \cap t.gone = {}
       /\ Given(t, r, add) \cup Taken(t, r, remove) # {}
  /\ on' = [r \in DOMAIN on |->
              IF r \in changed
              THEN After(on[r], Given(t, r, add), Taken(t, r, remove)) ELSE on[r]]
  /\ run' = [Spoil(changed, {}) EXCEPT ![q] = v] /\ v.pc = "done"
  /\ v.changed = Cardinality(changed)
  /\ v.changed + v.unchanged + v.skipped + v.failed = Cardinality(Existing(t))
=============================================================================
