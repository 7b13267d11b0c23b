---------------------------- MODULE ContactFinder ----------------------------
(***************************************************************************)
(* duplicate_contact_finder: contacts that share an email, a phone number  *)
(* or a name are grouped, and the largest groups are reported, up to a     *)
(* cap.  A group of the report may be handed to Odoo's merge wizard, when  *)
(* its contacts have long changed.                                         *)
(***************************************************************************)
EXTENDS Integers, FiniteSets

CONSTANTS
  Contacts,     \* their ids
  Hidden,       \* out of the scope of the scan: another company, archived, ...
  Criteria,     \* email, name and phone, by number
  Keys,         \* what is left of a value that is normalised, by number
  Caps,         \* values of max_groups
  MaxMembers,   \* MAX_MEMBERS_PER_GROUP
  MaxEdits      \* bound on what happens between a scan and the next

VARIABLES
  keys,         \* [a subset of Contacts -> [Criteria -> SUBSET Keys]]
  finder,
  edits

vars == <<keys, finder, edits>>

NoReport == [state |-> "draft"]

-----------------------------------------------------------------------------
(* The scan *)

Scope == DOMAIN keys \ Hidden

\* a group is named by its criterion and its key
Members(g) == {c \in Scope : g[2] \in keys[c][g[1]]}
Size(g) == Cardinality(Members(g))

Groups(criteria) == {g \in criteria \X Keys : Size(g) > 1}

\* those of gs that come before g
Rank(gs, g, before(_, _)) == Cardinality({h \in gs : before(h, g)})

\* ORDER BY member_count DESC, match_key
BySize(g, h) == Size(g) > Size(h) \/ (Size(g) = Size(h) /\ g[2] < h[2])

\* _fetch_email_groups, _fetch_phone_groups, _fetch_name_groups
Fetched(criterion, cap) ==
  LET all == Groups({criterion})
  IN  {g \in all : Rank(all, g, BySize) < cap + 1}

\* mutant: one criterion after the other
InterleavedByType(gs, g, h) ==
  Size(g) > Size(h) \/ (Size(g) = Size(h) /\ (g[1] < h[1] \/ (g[1] = h[1] /\ g[2] < h[2])))

\* _order_groups: the largest first; among those of one size, the first of each
\* criterion, then the second of each
Interleaved(gs, g, h) ==
  LET place(x) == Rank({y \in gs : y[1] = x[1] /\ Size(y) = Size(x)}, x, BySize)
  IN  \/ Size(g) > Size(h)
      \/ Size(g) = Size(h) /\ place(g) < place(h)
      \/ Size(g) = Size(h) /\ place(g) = place(h) /\ g[1] < h[1]

Listed(gs, cap) ==
  {g \in gs : Cardinality({h \in gs : Interleaved(gs, h, g)}) < cap}

\* the lowest ids of a group
Shown(g) == {c \in Members(g) : Cardinality({d \in Members(g) : d < c}) < MaxMembers}

\* action_scan
Scan ==
  \E criteria \in (SUBSET Criteria) \ {{}}, cap \in Caps :
    LET raw == UNION {Fetched(criterion, cap) : criterion \in criteria}
    IN  /\ finder' = [state |-> "done", criteria |-> criteria, cap |-> cap,
             shown |-> [g \in Listed(raw, cap) |-> Shown(g)],
             truncated |-> Cardinality(raw) > cap]
        /\ UNCHANGED <<keys, edits>>

Reset ==
  /\ finder.state = "done"
  /\ finder' = NoReport
  /\ UNCHANGED <<keys, edits>>

\* action_open_merge_wizard, and the wizard: what is left of the group becomes one
Merge ==
  /\ finder.state = "done" /\ edits < MaxEdits
  /\ \E g \in DOMAIN finder.shown : \E kept \in finder.shown[g] \cap DOMAIN keys :
       /\ Cardinality(finder.shown[g] \cap DOMAIN keys) > 1
       /\ keys' = [c \in (DOMAIN keys \ finder.shown[g]) \cup {kept} |-> keys[c]]
  /\ edits' = edits + 1
  /\ UNCHANGED finder

-----------------------------------------------------------------------------
(* Others *)

Edit(c) ==
  /\ edits < MaxEdits /\ edits' = edits + 1 /\ c \in DOMAIN keys
  /\ \E criterion \in Criteria, ks \in SUBSET Keys :
       keys' = [keys EXCEPT ![c][criterion] = ks]
  /\ UNCHANGED finder

Init ==
  /\ keys \in [Contacts -> [Criteria -> {{k} : k \in Keys}]]
  /\ finder = NoReport
  /\ edits = 0

Next == Scan \/ Reset \/ Merge \/ \E c \in Contacts : Edit(c)

Spec == Init /\ [][Next]_vars

-----------------------------------------------------------------------------
(* Properties *)

\* "the largest ones are reported and the result is flagged as truncated",
\* "groups of equal size are interleaved": however few groups each criterion was
\* asked for, no group that is left out is larger than one that is listed, the
\* flag says whether any is left out, and of the smallest size listed no
\* criterion has two groups more than one that has groups left.
LargestFirst ==
  Scan =>
    LET all == Groups(finder'.criteria)
        listed == DOMAIN finder'.shown
        left == all \ listed
        listedLike(g, criterion) ==
          Cardinality({h \in listed : h[1] = criterion /\ Size(h) = Size(g)})
    IN  /\ listed \subseteq all
        /\ finder'.truncated <=> left # {}
        /\ left # {} => Cardinality(listed) = finder'.cap
        /\ \A g \in left, h \in listed :
             /\ Size(g) <= Size(h)
             /\ Size(g) = Size(h) => listedLike(g, h[1]) <= listedLike(g, g[1]) + 1

-----------------------------------------------------------------------------
(* The inductive invariant *)

Proper ==
  /\ IsFiniteSet(Contacts) /\ IsFiniteSet(Criteria) /\ IsFiniteSet(Keys)
  /\ Criteria \subseteq Int /\ Keys \subseteq Int /\ Caps \subseteq Nat

IInv == DOMAIN keys \subseteq Contacts
=============================================================================
