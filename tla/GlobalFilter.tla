---------------------------- MODULE GlobalFilter ----------------------------
(***************************************************************************)
(* global_default_saved_filter: a shared filter may be flagged as the      *)
(* default of a screen for everybody who has none of their own.            *)
(*                                                                         *)
(* Requests write from a snapshot; one that writes a row which another     *)
(* wrote since fails.  A filter of no action in particular is offered on   *)
(* the screens of all; one that is still to be created is an inactive one. *)
(***************************************************************************)
EXTENDS Integers, FiniteSets, FiniteSetsExt

CONSTANTS
  Filters,      \* ids
  Actions, AnyAction,
  Users, Nobody,
  Choosing,     \* of Users \X Actions: those who have a default of their own
  Requests,
  MaxEdits

VARIABLES
  filter,    \* [Filters -> owner, action, flag, active]: ir.filters
  request,   \* [Requests -> snapshot, and the rows committed since]
  flagged,   \* what the last write flagged, in one request that none overtook
  edits

vars == <<filter, request, flagged, edits>>

Idle == [pc |-> "idle"]

-----------------------------------------------------------------------------
(* Flags *)

Shared(fs) == {g \in Filters : fs[g].owner = Nobody}

SiblingsNone(fs, f) == {}   \* mutant

\* _unset_sibling_global_defaults, for one filter: archived ones are not searched
Siblings(fs, f) ==
  {g \in Shared(fs) \ {f} : fs[g].flag /\ fs[g].active /\ fs[g].action = fs[f].action}

\* of several filters of one action that are flagged together each unsets the others
Demoted(fs, ids) == UNION {Siblings(fs, f) : f \in {g \in ids : fs[g].flag}}

\* create, write: change says which fields are in vals
Changed(fs, ids, change) ==
  [f \in Filters |->
     IF f \notin ids THEN fs[f]
     ELSE [owner |-> IF "owner" \in DOMAIN change THEN change.owner ELSE fs[f].owner,
           action |-> IF "action" \in DOMAIN change THEN change.action ELSE fs[f].action,
           active |-> IF "active" \in DOMAIN change THEN change.active ELSE fs[f].active,
           flag |-> IF "flag" \in DOMAIN change THEN change.flag ELSE fs[f].flag]]

Flags(change) == "flag" \in DOMAIN change /\ change.flag

\* _check_global_default_manager, _check_global_default_shared
Allowed(fs, ids, change, manager) ==
  /\ "flag" \in DOMAIN change /\ (\E f \in ids : fs[f].flag # change.flag) => manager
  /\ Flags(change) => ids \subseteq Shared(Changed(fs, ids, change))

-----------------------------------------------------------------------------
(* Requests *)

Begin(r) ==
  /\ request[r].pc = "idle" /\ edits < MaxEdits
  /\ request' = [request EXCEPT ![r] = [pc |-> "open", seen |-> filter, touched |-> {}]]
  /\ edits' = edits + 1
  /\ flagged' = {}
  /\ UNCHANGED filter

Write(r, ids, change, manager) ==
  /\ request[r].pc = "open"
  /\ LET seen == request[r].seen
         written == Changed(seen, ids, change)
         demoted == IF Flags(change) THEN Demoted(written, ids) ELSE {}
     IN  /\ Allowed(seen, ids, change, manager)
         /\ (ids \cup demoted) \cap request[r].touched = {}
         /\ filter' = [f \in Filters |->
              CASE f \in demoted -> [written[f] EXCEPT !.flag = FALSE]
                [] f \in ids \ demoted -> written[f]
                [] OTHER -> filter[f]]
         /\ request' = [q \in Requests |->
              CASE q = r -> Idle
                [] request[q].pc = "open" /\ q # r ->
                     [request[q] EXCEPT !.touched = @ \cup ids \cup demoted]
                [] OTHER -> request[q]]
         /\ flagged' = IF Flags(change) /\ request[r].touched = {} THEN ids ELSE {}
  /\ UNCHANGED edits

\* refused, or in conflict with another
Fail(r) ==
  /\ request[r].pc = "open"
  /\ request' = [request EXCEPT ![r] = Idle]
  /\ flagged' = {}
  /\ UNCHANGED <<filter, edits>>

Changes ==
  [owner : Users \cup {Nobody}] \cup [action : Actions \cup {AnyAction}] \cup [active : BOOLEAN]
    \cup [flag : BOOLEAN] \cup [flag : {TRUE}, owner : {Nobody}]
    \cup [flag : {TRUE}, active : {TRUE}]

-----------------------------------------------------------------------------
(* What a screen offers *)

\* get_filters of the core
Listed(fs, u, a) ==
  {f \in Filters : /\ fs[f].active /\ fs[f].owner \in {u, Nobody}
                   /\ fs[f].action \in {a, AnyAction}}

\* get_filters: a personal default wins, then the first that is flagged
Offered(fs, u, a) ==
  LET candidates == {f \in Listed(fs, u, a) \cap Shared(fs) : fs[f].flag}
  IN  IF <<u, a>> \in Choosing \/ candidates = {} THEN {} ELSE {Min(candidates)}

Init ==
  /\ filter \in [Filters -> [owner : Users \cup {Nobody}, action : Actions \cup {AnyAction},
                             flag : {FALSE}, active : BOOLEAN]]
  /\ request = [r \in Requests |-> Idle]
  /\ flagged = {}
  /\ edits = 0

Next == \E r \in Requests :
  \/ Begin(r) \/ Fail(r)
  \/ \E ids \in (SUBSET Filters) \ {{}}, change \in Changes, manager \in BOOLEAN :
       Cardinality(ids) <= 2 /\ Write(r, ids, change, manager)

Spec == Init /\ [][Next]_vars

-----------------------------------------------------------------------------
(* Properties *)

\* A filter that an administrator flags is the default from then on: when no
\* other request changed filters meanwhile, it is what everybody without a
\* default of their own is offered on its screen, whatever was flagged there
\* before, by whatever way; only a filter of every screen may stand before it
\* (_unset_sibling_global_defaults, get_filters).
DefaultFollows ==
  \A f \in Filters : flagged = {f} /\ filter[f].active =>
    \A u \in Users, a \in Actions :
      /\ a = filter[f].action /\ <<u, a>> \notin Choosing =>
           \/ Offered(filter, u, a) = {f}
           \/ \E g \in Offered(filter, u, a) : filter[g].action = AnyAction
      /\ <<u, a>> \in Choosing => Offered(filter, u, a) = {}

-----------------------------------------------------------------------------
(* The inductive invariant *)

Proper == Filters \subseteq Nat

Open(r) == request[r].pc = "open"

RequestAsTyped(q) ==
  /\ q = [pc |-> "open", seen |-> q.seen, touched |-> q.touched]
  /\ q.seen = [f \in Filters |-> q.seen[f]]

FiltersTyped ==
  /\ filter = [f \in Filters |-> filter[f]]
  /\ request = [r \in Requests |-> request[r]]
  /\ \A r \in Requests : Open(r) => RequestAsTyped(request[r])

\* a request knows every row as it is, but for those that were written since
SnapshotsHold ==
  \A r \in Requests : Open(r) =>
    \A f \in Filters \ request[r].touched : request[r].seen[f] = filter[f]

IInv == FiltersTyped /\ SnapshotsHold /\ DefaultFollows
=============================================================================
