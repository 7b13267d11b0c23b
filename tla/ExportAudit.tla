----------------------------- MODULE ExportAudit -----------------------------
(***************************************************************************)
(* data_export_audit_log: what a transaction exports is added up on its    *)
(* cursor, by user and model, and written as one row of the log each by a  *)
(* callback of the commit; a daily job removes old rows.                   *)
(*                                                                         *)
(* The cursor, its callbacks and the repetition of a request that met a    *)
(* conflict are the core's: a rollback forgets the callbacks of the cursor *)
(* but not what the add-on hung on it.                                     *)
(***************************************************************************)
EXTENDS Integers, FiniteSets, Functions

CONSTANTS
  Txs, Keys,      \* transactions; pairs of a user and a model
  Sizes, MaxChunks,   \* the chunks of a transaction
  MaxOpen,        \* how long a transaction may last
  Settings, DefaultDays,
  MaxTime, MaxEdits

VARIABLES
  tx,        \* transaction -> its state, when it began, whether the callback is registered
  pending,   \* transaction -> counts by key, as its cursor holds them
  written,   \* transaction -> the rows it inserted
  exported,  \* history: transaction -> [Keys -> how many records it exported]
  lost,      \* history: transaction -> the keys of which a row or a chunk failed
  log,       \* export.audit.log
  serial,    \* the last id
  setting,   \* the parameter of the retention
  now, edits

vars == <<tx, pending, written, exported, lost, log, serial, setting, now, edits>>

Nothing == [k \in {} |-> 0]
NoTx == [pc |-> "new", start |-> 0, chunks |-> 0, hook |-> FALSE, again |-> FALSE, split |-> FALSE]
NoExports == [k \in Keys |-> 0]

-----------------------------------------------------------------------------
(* The hook and its callback *)

AddedAnew(counts, k, n) == [j \in DOMAIN counts \cup {k} |-> IF j = k THEN n ELSE counts[j]]   \* mutant

Added(counts, k, n) ==
  [j \in DOMAIN counts \cup {k} |->
     IF j # k THEN counts[j] ELSE IF k \in DOMAIN counts THEN counts[k] + n ELSE n]

\* _audit_log_export: the first chunk registers the callback
Export(t, k, n) ==
  /\ tx[t].pc = "open" /\ tx[t].chunks < MaxChunks
  /\ tx' = [tx EXCEPT ![t].chunks = @ + 1, ![t].hook = @ \/ pending[t] = Nothing]
  /\ pending' = [pending EXCEPT ![t] = Added(@, k, n)]
  /\ exported' = [exported EXCEPT ![t][k] = @ + n]
  /\ UNCHANGED <<written, lost, log, serial, setting, now, edits>>

\* a cursor that is read-only, or an exception: the export goes on
ExportUnrecorded(t, k, n) ==
  /\ tx[t].pc = "open" /\ tx[t].chunks < MaxChunks
  /\ tx' = [tx EXCEPT ![t].chunks = @ + 1]
  /\ exported' = [exported EXCEPT ![t][k] = @ + n]
  /\ lost' = [lost EXCEPT ![t] = @ \cup {k}]
  /\ UNCHANGED <<pending, written, log, serial, setting, now, edits>>

\* _audit_flush_pending: a savepoint for each row, of which those of "failed" roll back
Flushed(t, failed) ==
  LET kept == DOMAIN pending[t] \ failed
  IN  \E id \in [kept -> (serial + 1)..(serial + Cardinality(kept))] :
        /\ IsInjective(id)
        /\ written' = [written EXCEPT ![t] = @ \cup
             {[tx |-> t, key |-> k, count |-> pending[t][k], id |-> id[k],
               date |-> tx[t].start] : k \in kept}]
        /\ serial' = serial + Cardinality(kept)

\* a savepoint of 14.0 and 15.0 runs the callbacks in the middle
FlushEarly(t) ==
  /\ tx[t].pc = "open" /\ tx[t].hook
  /\ \E failed \in SUBSET (DOMAIN pending[t]) :
       /\ Flushed(t, failed)
       /\ lost' = [lost EXCEPT ![t] = @ \cup failed]
  /\ pending' = [pending EXCEPT ![t] = Nothing]
  /\ tx' = [tx EXCEPT ![t].hook = FALSE, ![t].split = TRUE]
  /\ UNCHANGED <<exported, log, setting, now, edits>>

\* the commit: callbacks first
Precommit(t) ==
  /\ tx[t].pc = "open" /\ tx[t].hook
  /\ \E failed \in SUBSET (DOMAIN pending[t]) :
       /\ Flushed(t, failed)
       /\ lost' = [lost EXCEPT ![t] = @ \cup failed]
  /\ pending' = [pending EXCEPT ![t] = Nothing]
  /\ tx' = [tx EXCEPT ![t].hook = FALSE, ![t].pc = "closing"]
  /\ UNCHANGED <<exported, log, setting, now, edits>>

\* the cursor is closed
Closed(t) ==
  /\ pending' = [pending EXCEPT ![t] = Nothing]
  /\ written' = [written EXCEPT ![t] = {}]
  /\ exported' = [exported EXCEPT ![t] = NoExports]
  /\ lost' = [lost EXCEPT ![t] = {}]

Commit(t) ==
  /\ tx[t].pc = "closing" \/ (tx[t].pc = "open" /\ ~tx[t].hook)
  /\ tx' = [tx EXCEPT ![t] = [NoTx EXCEPT !.pc = "done"]]
  /\ log' = log \cup written[t]
  /\ Closed(t)
  /\ UNCHANGED <<serial, setting, now, edits>>

-----------------------------------------------------------------------------
(* Transactions *)

Begin(t) ==
  /\ tx[t].pc = "new"
  /\ tx' = [tx EXCEPT ![t].pc = "open", ![t].start = now]
  /\ UNCHANGED <<pending, written, exported, lost, log, serial, setting, now, edits>>

\* a conflict: the core rolls the cursor back and runs the request again on it
Again(t) ==
  /\ tx[t].pc \in {"open", "closing"} /\ ~tx[t].again
  /\ tx' = [tx EXCEPT ![t] = [NoTx EXCEPT !.pc = "open", !.start = now, !.again = TRUE]]
  /\ written' = [written EXCEPT ![t] = {}]
  /\ exported' = [exported EXCEPT ![t] = NoExports]
  /\ lost' = [lost EXCEPT ![t] = {}]
  /\ UNCHANGED <<pending, log, serial, setting, now, edits>>

Fail(t) ==
  /\ tx[t].pc \in {"open", "closing"}
  /\ tx' = [tx EXCEPT ![t] = [NoTx EXCEPT !.pc = "failed"]]
  /\ Closed(t)
  /\ UNCHANGED <<log, serial, setting, now, edits>>

-----------------------------------------------------------------------------
(* The job, the settings and the list *)

RetentionAsStored == setting   \* mutant

\* _get_retention_days
Retention == IF setting < 0 THEN DefaultDays ELSE setting

\* _purge_old_logs: the cutoff is turned into an id
Purge ==
  /\ Retention # 0
  /\ LET expired == {r \in log : r.date < now - Retention}
         gone == {r \in log : \E e \in expired : r.id <= e.id}
     IN  gone # {} /\ log' = log \ gone
  /\ UNCHANGED <<tx, pending, written, exported, lost, serial, setting, now, edits>>

\* set_values of the settings, or an edit of the parameter
Configure(value, screen) ==
  /\ setting' = IF screen /\ value < 0 THEN DefaultDays ELSE value
  /\ setting' # setting
  /\ edits < MaxEdits /\ edits' = edits + 1
  /\ UNCHANGED <<tx, pending, written, exported, lost, log, serial, now>>

\* an administrator deletes a row
Delete(r) ==
  /\ log' = log \ {r}
  /\ edits < MaxEdits /\ edits' = edits + 1
  /\ UNCHANGED <<tx, pending, written, exported, lost, serial, setting, now>>

Tick ==
  /\ now < MaxTime
  /\ now' = now + 1
  /\ \A t \in Txs : tx[t].pc \in {"open", "closing"} => now' - tx[t].start <= MaxOpen
  /\ UNCHANGED <<tx, pending, written, exported, lost, log, serial, setting, edits>>

Init ==
  /\ tx = [t \in Txs |-> NoTx]
  /\ pending = [t \in Txs |-> Nothing]
  /\ written = [t \in Txs |-> {}]
  /\ exported = [t \in Txs |-> NoExports]
  /\ lost = [t \in Txs |-> {}]
  /\ log = {}
  /\ serial = 0
  /\ setting \in Settings
  /\ now = 0
  /\ edits = 0

Next ==
  \/ \E t \in Txs, k \in Keys, n \in Sizes : Export(t, k, n) \/ ExportUnrecorded(t, k, n)
  \/ \E t \in Txs : FlushEarly(t) \/ Precommit(t) \/ Commit(t) \/ Begin(t) \/ Again(t) \/ Fail(t)
  \/ Purge \/ Tick
  \/ \E value \in Settings, screen \in BOOLEAN : Configure(value, screen)
  \/ \E r \in log : Delete(r)

Spec == Init /\ [][Next]_vars

-----------------------------------------------------------------------------
(* Properties *)

RowsOf(rows, k) == {r \in rows : r.key = k}
Total(rows) == FoldFunction(+, 0, [r \in rows |-> r.count])

\* The log says what left the database: when a transaction commits that was
\* not repeated, the rows of a user and a model add up to what was exported,
\* and are one row unless a savepoint ran the callback in the middle, or a
\* failure was logged (_audit_log_export, _audit_flush_pending).
ExportsTold ==
  \A t \in Txs : tx'[t].pc = "done" /\ tx[t].pc # "done" /\ ~tx[t].again =>
    \A k \in Keys \ lost[t] :
      LET rows == RowsOf(log' \ log, k)
      IN  /\ Total(rows) = exported[t][k]
          /\ ~tx[t].split /\ exported[t][k] > 0 => Cardinality(rows) = 1

\* The job removes every row past the retention, none when there is none, and
\* no row that is younger than the retention less the time a request lasts:
\* ids are given at the end of a request and dates at its beginning
\* (_purge_old_logs).
PurgeNearlyExact ==
  Purge =>
    /\ setting # 0
    /\ LET days == IF setting < 0 THEN DefaultDays ELSE setting
       IN  /\ \A r \in log \ log' : r.date < now - days + MaxOpen
           /\ \A r \in log' : r.date >= now - days

-----------------------------------------------------------------------------
(* The inductive invariant *)

Proper ==
  /\ IsFiniteSet(Keys) /\ Sizes \subseteq Nat /\ MaxOpen \in Nat
  /\ Settings \subseteq Int /\ DefaultDays \in Int /\ DefaultDays # 0

Open(t) == tx[t].pc \in {"open", "closing"}

Transactions ==
  [pc : {"new", "open", "closing", "done", "failed"}, start : Nat, chunks : Int,
   hook : BOOLEAN, again : BOOLEAN, split : BOOLEAN]

\* a transaction that is open began not long ago
OpenTyped ==
  /\ now \in Nat /\ serial \in Nat /\ setting \in Int
  /\ tx \in [Txs -> Transactions]
  /\ pending = [t \in Txs |-> pending[t]] /\ \A t \in Txs : DOMAIN pending[t] \subseteq Keys
  /\ written = [t \in Txs |-> written[t]]
  /\ \A t \in Txs : Open(t) => tx[t].start <= now /\ now <= tx[t].start + MaxOpen

Rows == log \cup UNION {written[t] : t \in Txs}

\* ids follow dates, up to the time a request lasts
IdsFollowDates ==
  /\ \A r \in Rows : r.id \in Nat /\ r.id <= serial /\ r.date \in Nat /\ r.date <= now
  /\ \A r \in Rows : \A e \in Rows : r.id <= e.id => r.date <= e.date + MaxOpen

IInv == OpenTyped /\ IdsFollowDates

CountsTyped ==
  /\ exported \in [Txs -> [Keys -> Nat]] /\ lost = [t \in Txs |-> lost[t]]
  /\ \A t \in Txs : \A k \in DOMAIN pending[t] : pending[t][k] \in Nat
  /\ \A t \in Txs : IsFiniteSet(written[t]) /\ \A r \in written[t] : r.tx = t /\ r.count \in Nat
  /\ \A r \in log : r.tx \in Txs /\ tx[r.tx].pc = "done"

Held(t, k) == IF k \in DOMAIN pending[t] THEN pending[t][k] ELSE 0

\* what a transaction exported is in its rows, or will be; a second row of a key
\* takes a callback in the middle
Counted(t) ==
  tx[t].pc \in {"new", "open", "closing"} /\ ~tx[t].again =>
    /\ \A k \in Keys \ lost[t] : Total(RowsOf(written[t], k)) + Held(t, k) = exported[t][k]
    /\ tx[t].pc # "closing" /\ ~tx[t].split => written[t] = {}
    /\ tx[t].pc = "closing" /\ ~tx[t].split =>
         \A k \in Keys \ lost[t] :
           exported[t][k] > 0 => Cardinality(RowsOf(written[t], k)) = 1
    /\ tx[t].pc = "closing" => pending[t] = Nothing
    /\ pending[t] # Nothing => tx[t].hook

CInv == IInv /\ CountsTyped /\ \A t \in Txs : Counted(t)
=============================================================================
