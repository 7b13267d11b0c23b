----------------------------- MODULE FieldRules -----------------------------
(***************************************************************************)
(* field_rules_by_group: an administrator makes fields of a model          *)
(* read-only, invisible or required for some groups.  The form is stamped  *)
(* when it is opened, and what is read-only is refused when it is saved.   *)
(*                                                                         *)
(* The rules of a model are answered from the cache of a worker, as the    *)
(* menus are (MenuVisibility): a worker that changes a rule drops its own  *)
(* cache and signals the others when its request is committed.             *)
(***************************************************************************)
EXTENDS Integers, FiniteSets

CONSTANTS
  Fields, Groups, Users,
  Held,        \* user -> groups, implied ones included
  Admins,      \* of Users, administrators
  Superusers,  \* of Users, those whose requests bypass rules: sudo()
  RuleIds,
  Contents,    \* what a rule may be: field, groups, flags, apply_to_admin, active
  Workers,
  NoCache, NoRule,
  MaxEdits

VARIABLES
  rule,       \* [RuleIds -> Contents \cup {NoRule}]: field.group.rule
  cache,      \* [Workers -> the active rules, or NoCache]
  signalled,  \* the workers that are to drop their cache
  request,    \* [Workers -> the request it serves]
  answer,     \* what the request that has just ended was given
  edits

vars == <<rule, cache, signalled, request, answer, edits>>

Idle == [pc |-> "idle"]
NoAnswer == [to |-> "nobody"]

-----------------------------------------------------------------------------
(* Rules *)

\* _check_flags
Sound(r) == r.flags # {} /\ ~({"invisible", "required"} \subseteq r.flags)

\* _get_rules
Active(rs) == {r \in {rs[i] : i \in RuleIds} \ {NoRule} : r.active}

\* _field_group_rules
Matching(rs, u) ==
  {r \in rs : /\ u \notin Superusers
              /\ u \in Admins => r.apply_to_admin
              /\ r.groups = {} \/ r.groups \cap Held[u] # {}}

\* mutant: of two rules the required one is kept too
UnitedFlags(rs, f) == UNION {r.flags : r \in {x \in rs : x.field = f}}

\* _field_group_rules_stamp: several rules merge; invisible wins over required
Flags(rs, f) ==
  LET merged == UNION {r.flags : r \in {x \in rs : x.field = f}}
  IN  IF "invisible" \in merged THEN merged \ {"required"} ELSE merged

\* _field_group_rules_check_vals
Refused(rs, fs) == \E r \in rs : "readonly" \in r.flags /\ r.field \in fs

-----------------------------------------------------------------------------
(* Requests *)

\* late: a change was committed since, or is not signalled yet
Begin(w, r) ==
  /\ request[w].pc = "idle"
  /\ request' = [request EXCEPT ![w] =
       [pc |-> r.pc, user |-> r.user, fields |-> r.fields, seen |-> Active(rule),
        late |-> \E v \in Workers : request[v].pc = "committed"]]
  /\ cache' = IF w \in signalled THEN [cache EXCEPT ![w] = NoCache] ELSE cache
  /\ signalled' = signalled \ {w}
  /\ answer' = NoAnswer
  /\ UNCHANGED <<rule, edits>>

OpenStart(w, u) == Begin(w, [pc |-> "open", user |-> u, fields |-> {}])
SaveStart(w, u, fs) == Begin(w, [pc |-> "save", user |-> u, fields |-> fs])

Rules(w) == Matching(IF cache[w] = NoCache THEN request[w].seen ELSE cache[w], request[w].user)

Answered(w, a) ==
  /\ cache' = [cache EXCEPT ![w] = IF @ = NoCache THEN request[w].seen ELSE @]
  /\ answer' = a
  /\ request' = [request EXCEPT ![w] = Idle]
  /\ UNCHANGED <<rule, signalled, edits>>

\* fields_view_get
Open(w) ==
  /\ request[w].pc = "open"
  /\ Answered(w, [to |-> "open", user |-> request[w].user,
                  flags |-> [f \in Fields |-> Flags(Rules(w), f)]])

\* create, write of the records
Save(w) ==
  /\ request[w].pc = "save"
  /\ Answered(w, [to |-> "save", user |-> request[w].user, fields |-> request[w].fields,
                  refused |-> Refused(Rules(w), request[w].fields)])

ClearedNowhere(w) == cache                              \* mutant
Cleared(w) == [cache EXCEPT ![w] = NoCache]             \* _clear_rules_cache

\* create, write, unlink of a rule, until its commit
Change(w, i, r) ==
  /\ request[w].pc = "idle"
  /\ signalled' = signalled \ {w}
  /\ edits < MaxEdits /\ edits' = edits + 1
  /\ rule[i] # r /\ (r # NoRule => Sound(r))
  /\ rule' = [rule EXCEPT ![i] = r]
  /\ cache' = Cleared(w)
  /\ request' = [v \in Workers |->
       CASE v = w -> [pc |-> "committed"]
         [] v # w /\ request[v].pc \in {"idle", "committed"} -> request[v]
         [] OTHER -> [request[v] EXCEPT !.late = TRUE]]
  /\ answer' = NoAnswer

\* the core, once the request is committed
Signal(w) ==
  /\ request[w].pc = "committed"
  /\ signalled' = signalled \cup (Workers \ {w})
  /\ request' = [request EXCEPT ![w] = Idle]
  /\ answer' = NoAnswer
  /\ UNCHANGED <<rule, cache, edits>>

Init ==
  /\ rule \in [RuleIds -> {NoRule} \cup {r \in Contents : Sound(r)}]
  /\ cache = [w \in Workers |-> NoCache]
  /\ signalled = {}
  /\ request = [w \in Workers |-> Idle]
  /\ answer = NoAnswer
  /\ edits = 0

Next == \E w \in Workers :
  \/ \E u \in Users : OpenStart(w, u)
  \/ \E u \in Users, f \in Fields : SaveStart(w, u, {f})
  \/ Open(w) \/ Save(w) \/ Signal(w)
  \/ \E i \in RuleIds, r \in Contents \cup {NoRule} : Change(w, i, r)

Spec == Init /\ [][Next]_vars

-----------------------------------------------------------------------------
(* Properties *)

\* no change was committed during the request, and none still waits for its signal
Fresh(w) == ~request[w].late /\ \A v \in Workers : request[v].pc # "committed"

Restrains(r, u, f) ==
  /\ r # NoRule /\ r.active /\ r.field = f
  /\ u \notin Superusers /\ (u \in Admins => r.apply_to_admin)
  /\ r.groups = {} \/ r.groups \cap Held[u] # {}

\* A rule that was changed is in force in every worker: a save that no change
\* overtakes is refused exactly when a rule makes one of its fields read-only
\* for the user (_clear_rules_cache, _field_group_rules_check_vals).
RulesInForce ==
  \A w \in Workers : Save(w) /\ Fresh(w) =>
    answer'.refused = \E i \in RuleIds, f \in answer'.fields :
                        Restrains(rule[i], answer'.user, f) /\ "readonly" \in rule[i].flags

\* The form that was opened can be filled in and saved: no field of it is both
\* hidden and required, whatever rules meet on it, and what it lets the user
\* edit is what the server takes (_field_group_rules_stamp).
FormsSavable ==
  \A w \in Workers : Open(w) =>
    \A f \in Fields :
      /\ ~({"invisible", "required"} \subseteq answer'.flags[f])
      /\ Fresh(w) =>
           ("readonly" \in answer'.flags[f] <=> Refused(Matching(Active(rule), answer'.user), {f}))

-----------------------------------------------------------------------------
(* The inductive invariant *)

Owed(w) == w \in signalled \/ \E v \in Workers \ {w} : request[v].pc = "committed"

Valid(w) == cache[w] = NoCache \/ cache[w] = Active(rule)

Busy(w) == request[w].pc \in {"open", "save"}

\* the fields of a request that is served
Whole(r) == r = [pc |-> r.pc, user |-> r.user, fields |-> r.fields, seen |-> r.seen, late |-> r.late]

\* A request that no change overtook reads the rules that are committed, with a cache that
\* is empty or answers from them; a worker whose cache is older, or about to be filled
\* with what is older, is owed a signal it has not yet acted on.
SoundFor(w) ==
  /\ request[w].pc \in {"idle", "committed", "open", "save"}
  /\ request[w].pc = "idle" => Valid(w) \/ Owed(w)
  /\ request[w].pc = "committed" => cache[w] = NoCache
  /\ Busy(w) => Whole(request[w])
  /\ Busy(w) /\ request[w].late => Owed(w)
  /\ Busy(w) /\ ~request[w].late => request[w].seen = Active(rule) /\ Valid(w)

CachesSound ==
  /\ request = [w \in Workers |-> request[w]]
  /\ cache = [w \in Workers |-> cache[w]]
  /\ signalled \subseteq Workers
  /\ \A w \in Workers : SoundFor(w)
=============================================================================
