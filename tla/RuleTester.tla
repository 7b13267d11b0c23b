----------------------------- MODULE RuleTester -----------------------------
(***************************************************************************)
(* record_rule_tester: an administrator asks what another user may do with *)
(* the records of a model: counts by operation, the rules that apply, and  *)
(* a verdict on one record with the rules that hide it.                    *)
(*                                                                         *)
(* The rules, and which of them Odoo applies or blames, are the core's. A  *)
(* record in Outside is hidden by something else, as a rule of a parent    *)
(* model.                                                                  *)
(***************************************************************************)
EXTENDS Integers, FiniteSets

CONSTANTS
  Records, Rules, Users, Groups, Ops,
  Operator,   \* the administrator
  Kinds,      \* what a rule may be: groups, ops (none once archived), matches, broken
  Outside,
  Limits,     \* the caps of the counts
  MaxEdits

VARIABLES
  rows,    \* the records there are
  rule,    \* rule -> one of Kinds
  held,    \* user -> groups, implied ones included
  acl,     \* user -> the operations an access line grants
  form,    \* the dialog: user, record (0: none), cap
  screen,  \* its results
  edits

vars == <<rows, rule, held, acl, form, screen, edits>>

NotRun == [none |-> TRUE]

-----------------------------------------------------------------------------
(* The core *)

\* _get_rules
Applied(u, op) ==
  {r \in Rules : /\ op \in rule[r].ops
                 /\ rule[r].groups = {} \/ rule[r].groups \cap held[u] # {}}

Globals(rs) == {r \in rs : rule[r].groups = {}}

\* the global rules are ANDed, the others ORed
Satisfies(x, rs) ==
  /\ \A r \in Globals(rs) : x \in rule[r].matches
  /\ rs = Globals(rs) \/ \E r \in rs \ Globals(rs) : x \in rule[r].matches

Broken(u, op) == \E r \in Applied(u, op) : rule[r].broken

Found(u) == {x \in rows \ Outside : Satisfies(x, Applied(u, "read"))}

\* _get_failing
Failing(u, x) ==
  LET rs == Applied(u, "read")
      others == rs \ Globals(rs)
  IN  {r \in Globals(rs) : x \notin rule[r].matches}
      \cup {r \in others : \A s \in others : x \notin rule[s].matches}

-----------------------------------------------------------------------------
(* The test *)

CappedAbove(n) == n > form.cap   \* mutant: the search stops at the cap
Capped(n) == n >= form.cap

Count(xs) == IF Cardinality(xs) > form.cap THEN form.cap ELSE Cardinality(xs)

\* what an operation may be performed on: the read rules come on top of its own
Performed(op) == {x \in Found(form.user) : Satisfies(x, Applied(form.user, op))}

Uncounted(op) ==
  [allowed |-> op \in acl[form.user], rules |-> Cardinality(Applied(form.user, op)),
   countable |-> FALSE, count |-> 0, capped |-> FALSE]

\* a broken rule is a note on the line
Evaluated(op) ==
  IF \/ op \notin acl[form.user] \/ op = "create"
     \/ Broken(form.user, op)
     \/ Broken(form.user, "read") \/ "read" \notin acl[form.user]
    THEN Uncounted(op)
    ELSE [Uncounted(op) EXCEPT !.countable = TRUE, !.count = Count(Performed(op)),
                               !.capped = Capped(Count(Performed(op)))]

\* mutant: the row is looked for as the user
VerdictAsUser ==
  CASE form.record = 0 -> "not_tested"
    [] form.record # 0 /\ "read" \notin acl[form.user] -> "no_access"
    [] form.record \in Found(form.user) /\ "read" \in acl[form.user] -> "allowed"
    [] OTHER -> "denied"

Verdict ==
  CASE form.record = 0 -> "not_tested"
    [] form.record # 0 /\ form.record \notin rows -> "missing"
    [] form.record \in rows /\ "read" \notin acl[form.user] -> "no_access"
    [] form.record \in Found(form.user) /\ "read" \in acl[form.user] -> "allowed"
    [] OTHER -> "denied"

Hiding == IF Verdict = "denied" THEN Failing(form.user, form.record) ELSE {}

\* one line for each rule of any operation
Lines == {[rule |-> r, global |-> rule[r].groups = {}, hides |-> r \in Hiding] :
          r \in UNION {Applied(form.user, op) : op \in Ops}}

Reference == IF "read" \in acl[Operator] THEN Count(Found(Operator)) ELSE 0

Results ==
  [access |-> "read" \in acl[form.user],
   ops |-> [op \in Ops |-> Evaluated(op)],
   reference |-> Reference,
   capped |-> \E op \in Ops : Evaluated(op).capped,
   globals |-> Cardinality({l \in Lines : l.global}),
   grouped |-> Cardinality({l \in Lines : ~l.global}),
   lines |-> Lines,
   verdict |-> Verdict]

\* what no savepoint of the verdict or of the reference count catches
Raises ==
  \/ form.record \in rows /\ "read" \in acl[form.user] /\ Broken(form.user, "read")
  \/ "read" \in acl[Operator] /\ Broken(Operator, "read")

-----------------------------------------------------------------------------
(* Actions *)

\* action_run: the lines of the run before go first
Run ==
  /\ ~Raises
  /\ screen' = Results
  /\ UNCHANGED <<rows, rule, held, acl, form, edits>>

\* a traceback, and everything is rolled back
RunRaises ==
  /\ Raises
  /\ UNCHANGED vars

\* the dialog is filled in anew; its results stay
Fill ==
  /\ edits < MaxEdits
  /\ edits' = edits + 1
  /\ form' \in [user : Users, record : Records \cup {0}, cap : Limits]
  /\ UNCHANGED <<rows, rule, held, acl, screen>>

\* people change records, rules, groups and access
EditRow(x) ==
  /\ rows' = IF x \in rows THEN rows \ {x} ELSE rows \cup {x}
  /\ UNCHANGED <<rule, held, acl>>

EditRule(r, kind) ==
  /\ rule' = [rule EXCEPT ![r] = kind]
  /\ UNCHANGED <<rows, held, acl>>

EditUser(u, groups, ops) ==
  /\ held' = [held EXCEPT ![u] = groups]
  /\ acl' = [acl EXCEPT ![u] = ops]
  /\ UNCHANGED <<rows, rule>>

Edit ==
  /\ edits < MaxEdits
  /\ edits' = edits + 1
  /\ \/ \E x \in Records : EditRow(x)
     \/ \E r \in Rules, kind \in Kinds : EditRule(r, kind)
     \/ \E u \in Users, groups \in SUBSET Groups, ops \in SUBSET Ops : EditUser(u, groups, ops)
  /\ UNCHANGED <<form, screen>>

Init ==
  /\ rows = Records
  /\ rule \in [Rules -> Kinds]
  /\ held = [u \in Users |-> Groups]
  /\ acl = [u \in Users |-> Ops]
  /\ form \in [user : Users, record : Records \cup {0}, cap : Limits]
  /\ screen = NotRun
  /\ edits = 0

Next == Run \/ RunRaises \/ Fill \/ Edit

Spec == Init /\ [][Next]_vars

-----------------------------------------------------------------------------
(* Properties *)

\* what the user would find of the rows, were the rules rs made to match
FoundWithout(u, x, rs) ==
  /\ x \in rows \ Outside
  /\ \A r \in Globals(Applied(u, "read")) \ rs : x \in rule[r].matches
  /\ LET others == Applied(u, "read") \ Globals(Applied(u, "read"))
     IN  others = {} \/ \E r \in others : x \in rule[r].matches \/ r \in rs

\* The blame of a verdict is what an administrator would act on: a record
\* said to be missing is in no table; one said to be hidden appears as soon as
\* the rules ticked are made to match, of which each global one is needed; and
\* with nothing ticked no rule of the model is to blame (_evaluate_record).
BlameIsExact ==
  (screen' # screen /\ screen'.verdict \in {"missing", "denied"}) =>
    LET x == form.record
        ticked == {l.rule : l \in {k \in screen'.lines : k.hides}}
    IN  /\ screen'.verdict = "missing" <=> x \notin rows
        /\ x \in rows => ~FoundWithout(form.user, x, {})
        /\ x \in rows \ Outside =>
             /\ ticked # {}
             /\ FoundWithout(form.user, x, ticked)
             /\ \A r \in Globals(ticked) : ~FoundWithout(form.user, x, ticked \ {r})

\* A count shown without the flag is exact, and an operation is never said to
\* be possible on a record the user does not see (_evaluate_operation).
CountsTell ==
  screen' # screen =>
    \A op \in Ops :
      LET result == screen'.ops[op]
      IN  /\ result.countable /\ ~result.capped =>
               result.count = Cardinality(Performed(op))
          /\ result.countable /\ screen'.ops["read"].countable =>
               result.count <= screen'.ops["read"].count
          /\ result.capped => Cardinality(Performed(op)) >= form.cap

-----------------------------------------------------------------------------
(* What the proofs need *)

\* There are finitely many records, their ids are no zero, and reading is an operation.
Proper ==
  /\ IsFiniteSet(Records) /\ 0 \notin Records /\ Limits \subseteq Int /\ "read" \in Ops

IInv == rows \subseteq Records /\ form.cap \in Limits
=============================================================================
