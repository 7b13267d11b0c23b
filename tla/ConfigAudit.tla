----------------------------- MODULE ConfigAudit -----------------------------
(***************************************************************************)
(* config_change_audit: every creation, change, renaming and deletion of a *)
(* system parameter leaves a row, written by the overrides of              *)
(* ir.config_parameter in the transaction of the change; a daily job       *)
(* removes old rows.                                                       *)
(*                                                                         *)
(* The settings of the audit are parameters like the others.  They are     *)
(* read after the change, from the snapshot of its transaction; the rows   *)
(* of the parameters it changes are locked until it ends.                  *)
(***************************************************************************)
EXTENDS Integers, FiniteSets

CONSTANTS
  Keys, Values,
  EnabledKey, RetentionKey, PatternsKey,   \* the settings of the audit
  Off,          \* values that switch it off
  Days,         \* [Values -> Nat]: how long rows are kept, 0 for ever
  Matched,      \* [Values -> SUBSET Keys]: the keys a list of patterns matches
  DefaultDays, DefaultMatched,
  Present,      \* the parameters there are before the first change
  Changers,     \* transactions
  Ceiling,      \* GC_MAX_PER_RUN, a multiple of GC_BATCH_SIZE
  MaxTime, MaxEdits

VARIABLES
  param,        \* [a subset of Keys -> Values]: ir_config_parameter
  log,          \* config_change_audit: rows with a date and an id
  tx,           \* [Changers -> a transaction]
  told,         \* history: [Keys -> what became of the row of the last change]
  now,
  edits         \* the changes that were begun, which number the rows

vars == <<param, log, tx, told, now, edits>>

AuditedAlways == {EnabledKey, RetentionKey, PatternsKey}

Masked == "masked"
Nothing == "nothing"

-----------------------------------------------------------------------------
(* _config_audit_settings: what is missing has a default *)

Enabled(p) == EnabledKey \in DOMAIN p => p[EnabledKey] \notin Off
Retention(p) == IF RetentionKey \in DOMAIN p THEN Days[p[RetentionKey]] ELSE DefaultDays
Secret(p) == IF PatternsKey \in DOMAIN p THEN Matched[p[PatternsKey]] ELSE DefaultMatched

\* mutant: only the key as it is after the change is looked at
SkipByNewKey(p, keys, key) == ~Enabled(p) /\ key \notin AuditedAlways

\* _config_audit_skip
Skip(p, keys, key) == ~Enabled(p) /\ keys \cap AuditedAlways = {}

\* _config_audit_prepare: the values of a key that is, or was, a secret are masked
Shown(p, keys, key, value) ==
  IF key \notin AuditedAlways /\ keys \cap Secret(p) # {} THEN Masked ELSE value

-----------------------------------------------------------------------------
(* create(), write(), unlink() *)

NoTx == [pc |-> "idle"]

Locked == UNION {DOMAIN tx[c].set \cup tx[c].gone : c \in {d \in Changers : tx[d].pc = "open"}}

With(p, set, gone) ==
  [k \in (DOMAIN p \ gone) \cup DOMAIN set |-> IF k \in DOMAIN set THEN set[k] ELSE p[k]]

\* op |-> the rows that a change makes: its keys, after and before, and the value
Rows(op, after, changes) ==
  {[op |-> op, keys |-> ch.keys, key |-> ch.key, id |-> edits, date |-> now,
    new |-> Shown(after, ch.keys, ch.key, ch.new)] :
     ch \in {x \in changes : ~Skip(after, x.keys, x.key)}}

\* _config_audit_record: in a savepoint, the change stays when the rows are lost
Change(c, op, set, gone, changes) ==
  /\ tx[c].pc = "idle" /\ edits < MaxEdits /\ edits' = edits + 1
  /\ (DOMAIN set \cup gone) \cap Locked = {}
  /\ LET rows == Rows(op, With(param, set, gone), changes)
     IN  \E recorded \in BOOLEAN :
           tx' = [tx EXCEPT ![c] =
             [pc |-> "open", set |-> set, gone |-> gone, recorded |-> recorded,
              rows |-> IF recorded THEN rows ELSE {}]]
  /\ UNCHANGED <<param, log, told, now>>

Single(k, v) == [keys |-> {k}, key |-> k, new |-> v]

Create(c) ==
  \E ks \in (SUBSET (Keys \ DOMAIN param)) \ {{}}, v \in Values :
    Change(c, "create", [k \in ks |-> v], {}, {Single(k, v) : k \in ks})

\* one value for all of them; those that had it are not changed
WriteValue(c) ==
  \E ks \in (SUBSET DOMAIN param) \ {{}}, v \in Values :
    LET new == {k \in ks : param[k] # v}
    IN  new # {} /\ Change(c, "write", [k \in new |-> v], {}, {Single(k, v) : k \in new})

Rename(c) ==
  \E k \in DOMAIN param, to \in Keys \ DOMAIN param, v \in Values :
    Change(c, "write", [x \in {to} |-> v], {k},
           {[keys |-> {k, to}, key |-> to, new |-> v]})

Unlink(c) ==
  \E ks \in (SUBSET DOMAIN param) \ {{}} :
    Change(c, "unlink", <<>>, ks, {Single(k, Nothing) : k \in ks})

Changed(t) == DOMAIN t.set \cup t.gone

Commit(c) ==
  LET t == tx[c]
  IN  /\ t.pc = "open"
      /\ param' = With(param, t.set, t.gone)
      /\ log' = log \cup t.rows
      /\ told' = [k \in Keys |->
           IF k \notin Changed(t) THEN told[k]
           ELSE IF \E r \in t.rows : k \in r.keys THEN "told"
           ELSE IF t.recorded THEN "skipped" ELSE "lost"]
      /\ tx' = [tx EXCEPT ![c] = NoTx]
      /\ UNCHANGED <<now, edits>>

Rollback(c) ==
  /\ tx[c].pc = "open"
  /\ tx' = [tx EXCEPT ![c] = NoTx]
  /\ UNCHANGED <<param, log, told, now, edits>>

-----------------------------------------------------------------------------
(* _gc_audit_log *)

Later(r, q) == r.date > q.date \/ (r.date = q.date /\ r.id > q.id)

Expired == {r \in log : Retention(param) # 0 /\ r.date < now - Retention(param)}

\* search() returns the latest of the old rows first
Purge ==
  /\ Expired # {}
  /\ \E removed \in SUBSET Expired :
       /\ Cardinality(removed) = IF Cardinality(Expired) < Ceiling
                                 THEN Cardinality(Expired) ELSE Ceiling
       /\ \A r \in removed, q \in Expired \ removed : ~Later(q, r)
       /\ log' = log \ removed
       /\ told' = [k \in Keys |->
            IF \E r \in removed, q \in Expired \ removed : k \in r.keys \cap q.keys
            THEN "cut" ELSE told[k]]
  /\ UNCHANGED <<param, tx, now, edits>>

Tick ==
  /\ now < MaxTime /\ now' = now + 1
  /\ UNCHANGED <<param, log, tx, told, edits>>

-----------------------------------------------------------------------------
Init ==
  /\ param \in [Present -> Values]
  /\ log = {} /\ now = 0 /\ edits = 0
  /\ tx = [c \in Changers |-> NoTx]
  /\ told = [k \in Keys |-> "told"]

Next ==
  \/ \E c \in Changers : Create(c) \/ WriteValue(c) \/ Rename(c) \/ Unlink(c)
                         \/ Commit(c) \/ Rollback(c)
  \/ Purge \/ Tick

Spec == Init /\ [][Next]_vars

-----------------------------------------------------------------------------
(* Properties *)

About(k) == {r \in log : k \in r.keys}

\* README: "Changes to these three settings are always recorded, even while
\* auditing is switched off, so the trail can not be turned off silently": none of
\* them is ever skipped.  And the last row about any parameter whose last change
\* was not skipped tells what the parameter is now, unless it hides a secret,
\* whatever changes overlapped, were rolled back or renamed it, and whatever the
\* retention took: see "cut" for what its ceiling leaves.
TrailTells ==
  /\ \A k \in AuditedAlways : told[k] # "skipped"
  /\ \A k \in {x \in Keys : told[x] = "told"} : \A r \in About(k) :
       (\A q \in About(k) : ~Later(q, r)) =>
         IF k = r.key /\ r.op # "unlink"
         THEN k \in DOMAIN param /\ r.new \in {Masked, param[k]}
         ELSE k \notin DOMAIN param

-----------------------------------------------------------------------------
(* The inductive invariant *)

Proper ==
  /\ AuditedAlways \subseteq Keys /\ Present \subseteq Keys
  /\ Days \in [Values -> Int] /\ DefaultDays \in Int

Open(c) == tx[c].pc = "open"

\* what a row says of k is what its transaction makes of it
Says(r, k, set, gone) ==
  IF k = r.key /\ r.op # "unlink"
  THEN k \in DOMAIN set /\ r.new \in {Masked, set[k]}
  ELSE k \in gone \ DOMAIN set

Dated(r) == r.date \in Int /\ r.date <= now /\ r.id \in Int /\ r.id < edits

ValuesOf(p) == \A k \in DOMAIN p : k \in Keys /\ p[k] \in Values

\* a change that is not committed yet
ChangeTells(t) ==
  /\ ValuesOf(t.set)
  /\ t.recorded => \A k \in Changed(t) \cap AuditedAlways : \E r \in t.rows : k \in r.keys
  /\ \A r \in t.rows : Dated(r) /\ \A k \in r.keys : Says(r, k, t.set, t.gone)
  \* it holds its parameters: the rows there are about them are older than its own
  /\ \A r \in t.rows, q \in log : Changed(t) \cap q.keys # {} => Later(r, q)

Apart ==
  \A c, d \in Changers : Open(c) /\ Open(d) /\ c # d => Changed(tx[c]) \cap Changed(tx[d]) = {}

AuditTyped ==
  /\ tx = [c \in Changers |-> tx[c]]
  /\ now \in Int /\ edits \in Int /\ ValuesOf(param)
  /\ \A r \in log : Dated(r)

IInv ==
  /\ AuditTyped /\ Apart /\ TrailTells
  /\ \A c \in Changers : Open(c) => ChangeTells(tx[c])
=============================================================================
