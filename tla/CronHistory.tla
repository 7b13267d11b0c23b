----------------------------- MODULE CronHistory -----------------------------
(***************************************************************************)
(* cron_execution_history: every run of a scheduled action, by the         *)
(* scheduler or the button, is written in a table of its own by a          *)
(* transaction of its own, and a daily action deletes the old rows.        *)
(***************************************************************************)
EXTENDS Integers, FiniteSets, FiniteSetsExt

CONSTANTS
  Actions,
  Runs,         \* numbers
  Retentions,   \* cron_execution_history.retention_days: 0 keeps everything
  BatchLimit, MaxBatches,   \* GC_BATCH_LIMIT, GC_MAX_BATCHES
  MaxTime, MaxEdits

VARIABLES
  run,          \* [Actions -> the run under way]
  handed,       \* [Actions -> the exception handed over on the cursor of the job]
  history,      \* a set of [run, start, state]
  config,       \* [enabled, success, days]
  cleanup,      \* the daily action
  fate,         \* history: [Runs -> how it ended]
  owed,         \* history: what was to be written
  expired,      \* history: the latest limit a cleanup went by
  now, edits

vars == <<run, handed, history, config, cleanup, fate, owed, expired, now, edits>>

Used == {r \in Runs : fate[r] # "none"} \cup {run[a].id : a \in {x \in Actions : run[x].pc # "idle"}}

-----------------------------------------------------------------------------
(* A run *)

Idle == [pc |-> "idle"]

\* _callback and method_direct_trigger, before the job
Start(a) ==
  /\ run[a].pc = "idle" /\ Runs \ Used # {}
  /\ \E how \in {"scheduler", "button"} :
       run' = [run EXCEPT ![a] = [pc |-> "running", how |-> how, id |-> Min(Runs \ Used), start |-> now]]
  /\ handed' = [handed EXCEPT ![a] = "none"]
  /\ UNCHANGED <<history, config, cleanup, fate, owed, expired, now, edits>>

\* the job: the scheduler swallows what it raises, after _handle_callback_exception
\* has put it on the cursor; the button does not
Body(a) ==
  /\ run[a].pc = "running"
  /\ \E outcome \in {"success", "failure"} :
       /\ fate' = [fate EXCEPT ![run[a].id] = outcome]
       /\ handed' = [handed EXCEPT ![a] =
            IF run[a].how = "scheduler" /\ outcome = "failure" THEN "error" ELSE @]
       /\ run' = [run EXCEPT ![a] = [pc |-> "done", id |-> @.id, start |-> @.start,
                    raised |-> run[a].how = "button" /\ outcome = "failure"]]
  /\ UNCHANGED <<history, config, cleanup, owed, expired, now, edits>>

\* what log_execution is given
State(a) == IF run[a].raised \/ handed[a] = "error" THEN "failure" ELSE "success"

\* the settings, read by the cursor that writes the row
Wanted(state) == config.enabled /\ (state = "failure" \/ config.success)

\* mutant: the row is written by the transaction of the job
RecordedWithJob(row) == IF row.state = "failure" THEN history ELSE history \cup {row}

Recorded(row) == history \cup {row}

\* log_execution: it may fail, and nothing else with it
Record(a) ==
  /\ run[a].pc = "done"
  /\ LET row == [run |-> run[a].id, start |-> run[a].start, state |-> State(a)]
     IN  \/ Wanted(row.state) /\ history' = Recorded(row) /\ owed' = owed \cup {[row EXCEPT !.state = fate[row.run]]}
         \/ UNCHANGED <<history, owed>>
  /\ run' = [run EXCEPT ![a] = Idle]
  /\ UNCHANGED <<handed, config, cleanup, fate, expired, now, edits>>

\* the worker is killed: there is no record of the run
Killed(a) ==
  /\ run[a].pc # "idle"
  /\ fate' = [fate EXCEPT ![run[a].id] = "killed"]
  /\ run' = [run EXCEPT ![a] = Idle]
  /\ UNCHANGED <<handed, history, config, cleanup, owed, expired, now, edits>>

-----------------------------------------------------------------------------
(* Retention: _gc_execution_history *)

NoCleanup == [limit |-> 0, batches |-> 0]

CleanupStart ==
  /\ cleanup = NoCleanup /\ config.days > 0
  /\ cleanup' = [limit |-> now - config.days, batches |-> MaxBatches]
  /\ expired' = Max({expired, now - config.days})
  /\ UNCHANGED <<run, handed, history, config, fate, owed, now, edits>>

Expired(limit) == {row \in history : row.start < limit}

\* the oldest first
Batch(limit) ==
  {row \in Expired(limit) :
     Cardinality({o \in Expired(limit) : o.start < row.start
                    \/ (o.start = row.start /\ o.run < row.run)}) < BatchLimit}

\* each batch is committed
CleanupBatch ==
  /\ cleanup # NoCleanup
  /\ LET batch == Batch(cleanup.limit)
     IN  /\ history' = history \ batch
         /\ cleanup' = IF Cardinality(batch) < BatchLimit \/ cleanup.batches = 1 THEN NoCleanup
                       ELSE [cleanup EXCEPT !.batches = @ - 1]
  /\ UNCHANGED <<run, handed, config, fate, owed, expired, now, edits>>

CleanupDies ==
  /\ cleanup # NoCleanup /\ cleanup' = NoCleanup
  /\ UNCHANGED <<run, handed, history, config, fate, owed, expired, now, edits>>

-----------------------------------------------------------------------------

\* res.config.settings: set_values
SetConfig ==
  /\ edits < MaxEdits /\ edits' = edits + 1
  /\ config' \in [enabled : BOOLEAN, success : BOOLEAN, days : Retentions] /\ config' # config
  /\ UNCHANGED <<run, handed, history, cleanup, fate, owed, expired, now>>

Tick ==
  /\ now < MaxTime /\ now' = now + 1
  /\ UNCHANGED <<run, handed, history, config, cleanup, fate, owed, expired, edits>>

Init ==
  /\ run = [a \in Actions |-> Idle] /\ handed = [a \in Actions |-> "none"]
  /\ history = {} /\ owed = {} /\ fate = [r \in Runs |-> "none"]
  /\ config \in [enabled : {TRUE}, success : BOOLEAN, days : Retentions]
  /\ cleanup = NoCleanup /\ expired = 0 /\ now = 0 /\ edits = 0

Next ==
  \/ \E a \in Actions : Start(a) \/ Body(a) \/ Record(a) \/ Killed(a)
  \/ CleanupStart \/ CleanupBatch \/ CleanupDies \/ SetConfig \/ Tick

Spec == Init /\ [][Next]_vars

-----------------------------------------------------------------------------
(* Properties *)

\* "Failure records survive the failure": every run that was recorded keeps its one
\* row, with how it ended, until it is older than the retention asked for.
HistoryTells ==
  /\ history \subseteq owed
  /\ \A row \in owed \ history : row.start < expired
  /\ \A row, other \in history : row.run = other.run => row = other

-----------------------------------------------------------------------------
(* The inductive invariant *)

Proper == Runs \subseteq Nat /\ Retentions \subseteq Int

Busy(a) == run[a].pc # "idle"

RunsTyped ==
  /\ run = [a \in Actions |-> run[a]] /\ handed = [a \in Actions |-> handed[a]]
  /\ fate = [r \in Runs |-> fate[r]]
  /\ \A a \in Actions :
       /\ run[a].pc \in {"idle", "running", "done"}
       /\ Busy(a) => run[a].id \in Runs /\ run[a].start \in Int
       /\ run[a].pc = "running" => run[a].how \in {"scheduler", "button"}
       /\ run[a].pc = "done" => run[a].raised \in BOOLEAN

RunsApart ==
  \A a, b \in Actions : Busy(a) /\ Busy(b) /\ run[a].id = run[b].id => a = b

\* what is to be recorded of a run that is over is how it ended
EndsKnown ==
  \A a \in Actions :
    /\ run[a].pc = "running" => fate[run[a].id] = "none" /\ handed[a] = "none"
    /\ run[a].pc = "done" => fate[run[a].id] = State(a)

\* a row is about a run that is over and that nobody will record any more
RowsOver ==
  \A row \in history :
    fate[row.run] # "none" /\ \A a \in Actions : Busy(a) => run[a].id # row.run

LimitsKnown ==
  /\ now \in Int /\ expired \in Int /\ config.days \in Int
  /\ cleanup = [limit |-> cleanup.limit, batches |-> cleanup.batches]
  /\ cleanup # NoCleanup => cleanup.limit \in Int /\ cleanup.limit <= expired
  /\ \A row \in owed : row.start \in Int

IInv ==
  RunsTyped /\ RunsApart /\ EndsKnown /\ RowsOver /\ LimitsKnown /\ HistoryTells
=============================================================================
