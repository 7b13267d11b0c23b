---------------------------- MODULE CronWatchdog ----------------------------
(***************************************************************************)
(* cron_watchdog_alert: a scheduled check, and page loads when enough time *)
(* has passed since the last one that did, look for scheduled actions that *)
(* are overdue, warn the administrators and write the time on the action.  *)
(*                                                                         *)
(* The scheduler keeps the row of an action locked while it runs it.       *)
(***************************************************************************)
EXTENDS Integers, FiniteSets

CONSTANTS
  Crons,
  Exempt,       \* watchdog_exempt, the watchdog among them
  Pages,        \* requests that load a page
  Watchdog,     \* the scheduled check
  Lag,          \* lag_minutes
  RealertHours, WebCheckEvery,
  Interval,     \* of the actions
  MaxTime

VARIABLES
  cron,         \* [Crons -> [next, alerted]]: the committed rows
  holder,       \* [Crons -> who holds the lock of the row, or Free]
  lastWeb,      \* cron_watchdog_alert.last_web_check
  tx,           \* [Pages \cup {Watchdog} -> a transaction]
  enabled,      \* cron_watchdog_alert.enabled
  now,
  kept          \* history: [Crons -> when alerts that name it left, of checks
                \* that were committed]

vars == <<cron, holder, lastWeb, tx, enabled, now, kept>>

Never == -RealertHours - 1
Free == "free"
Scheduler == "scheduler"
Checkers == Pages \cup {Watchdog}

-----------------------------------------------------------------------------
(* A check *)

NoTx == [pc |-> "none"]

\* the first query: a page load does other things before the tick
Begin(p) ==
  /\ tx[p].pc = "none"
  /\ tx' = [tx EXCEPT ![p] =
       [pc |-> "begun", seen |-> cron, web |-> lastWeb, enabled |-> enabled,
        touched |-> {}, webTouched |-> FALSE]]
  /\ UNCHANGED <<cron, holder, lastWeb, enabled, now, kept>>

\* the search of _watchdog_stale_crons, and the rate limit of each action
Stale(t) ==
  {c \in Crons \ Exempt : /\ t.seen[c].next < now - Lag
                          /\ t.seen[c].alerted < now - RealertHours}

\* mutant: the rows are not locked
LockableAll(t) == Stale(t)

\* FOR NO KEY UPDATE SKIP LOCKED
Lockable(t) == {c \in Stale(t) : holder[c] = Free}

\* _watchdog_web_tick: WEB_CHECK_EVERY_MINUTES
TickDue(p) == p = Watchdog \/ tx[p].web < now - WebCheckEvery

\* a row that was written since the snapshot cannot be locked: the check is
\* abandoned, and a page load goes on without it
Abandoned(p) == Lockable(tx[p]) \cap tx[p].touched # {}

\* _watchdog_check: the administrators are warned at once, unless none has an address
\* or the mail server refuses the alert; the time is written all the same
Check(p) ==
  /\ tx[p].pc = "begun" /\ tx[p].enabled /\ TickDue(p) /\ ~Abandoned(p)
  /\ LET found == Lockable(tx[p])
     IN  /\ holder' = [c \in Crons |-> IF c \in found THEN p ELSE holder[c]]
         /\ \E left \in IF found = {} THEN {FALSE} ELSE BOOLEAN :
              tx' = [tx EXCEPT ![p] =
                [pc |-> "checked", found |-> found, time |-> now, left |-> left,
                 webTouched |-> @.webTouched, touched |-> {}]]
  /\ UNCHANGED <<cron, lastWeb, enabled, now, kept>>

\* nothing to do, or the savepoint is left with an error
Skip(p) ==
  /\ tx[p].pc = "begun" /\ (~tx[p].enabled \/ ~TickDue(p) \/ Abandoned(p))
  /\ tx' = [tx EXCEPT ![p] = NoTx]
  /\ UNCHANGED <<cron, holder, lastWeb, enabled, now, kept>>

Released(p) == [c \in Crons |-> IF holder[c] = p THEN Free ELSE holder[c]]

\* who has not ended yet learns what was written
Spoil(p, cs, web) ==
  [q \in Checkers |->
     CASE q = p -> NoTx
       [] q # p /\ tx[q].pc = "none" -> NoTx
       [] OTHER -> [tx[q] EXCEPT !.touched = @ \cup cs, !.webTouched = @ \/ web]]

Commit(p) ==
  /\ tx[p].pc = "checked" /\ (p = Watchdog \/ ~tx[p].webTouched)
  /\ cron' = [c \in Crons |->
       IF c \in tx[p].found THEN [cron[c] EXCEPT !.alerted = tx[p].time] ELSE cron[c]]
  /\ kept' = [c \in Crons |->
       IF tx[p].left /\ c \in tx[p].found THEN kept[c] \cup {tx[p].time} ELSE kept[c]]
  /\ lastWeb' = IF p = Watchdog THEN lastWeb ELSE tx[p].time
  /\ holder' = Released(p)
  /\ tx' = Spoil(p, tx[p].found, p # Watchdog)
  /\ UNCHANGED <<enabled, now>>

\* two page loads wrote the throttle, or the request failed
Rollback(p) ==
  /\ tx[p].pc = "checked"
  /\ holder' = Released(p) /\ tx' = [tx EXCEPT ![p] = NoTx]
  /\ UNCHANGED <<cron, lastWeb, enabled, now, kept>>

-----------------------------------------------------------------------------
(* The scheduler, the clock *)

RunStart(c) ==
  /\ holder[c] = Free /\ cron[c].next <= now
  /\ holder' = [holder EXCEPT ![c] = Scheduler]
  /\ UNCHANGED <<cron, lastWeb, tx, enabled, now, kept>>

RunEnd(c) ==
  /\ holder[c] = Scheduler
  /\ cron' = [cron EXCEPT ![c].next = now + Interval]
  /\ holder' = [holder EXCEPT ![c] = Free]
  /\ tx' = Spoil(Scheduler, {c}, FALSE)
  /\ UNCHANGED <<lastWeb, enabled, now, kept>>

Tick ==
  /\ now < MaxTime /\ now' = now + 1
  /\ UNCHANGED <<cron, holder, lastWeb, tx, enabled, kept>>

Init ==
  /\ cron \in [Crons -> [next : {0, -Lag - 1}, alerted : {Never}]]
  /\ holder = [c \in Crons |-> Free]
  /\ lastWeb = -WebCheckEvery - 1 /\ now = 0 /\ enabled \in BOOLEAN
  /\ tx = [p \in Checkers |-> NoTx]
  /\ kept = [c \in Crons |-> {}]

Next ==
  \/ \E p \in Checkers : Begin(p) \/ Check(p) \/ Skip(p) \/ Commit(p) \/ Rollback(p)
  \/ \E c \in Crons : RunStart(c) \/ RunEnd(c)
  \/ Tick

Spec == Init /\ [][Next]_vars

-----------------------------------------------------------------------------
(* Properties *)

\* "Each stalled action re-alerts at most once per 24 hours": a check names an action
\* that is overdue, is not being run, was named by no alert of the last day that left
\* from a check that was committed, and is named by no other open check, though page
\* loads and the scheduled check look at the same rows at the same time.  An alert
\* leaves before its check is committed: one whose check is rolled back counts for
\* nothing, and the next check names the action again.
AlertsAreDue ==
  \A p \in Checkers : Check(p) => \A c \in tx'[p].found :
     /\ cron[c].next < now - Lag /\ holder[c] # Scheduler
     /\ \A time \in kept[c] : time < now - RealertHours
     /\ \A q \in Checkers \ {p} : tx[q].pc = "checked" => c \notin tx[q].found

-----------------------------------------------------------------------------
(* The inductive invariant *)

Proper ==
  /\ {Free, Scheduler} \cap Checkers = {}
  /\ Interval \in Int /\ Lag \in Int /\ RealertHours \in Nat /\ WebCheckEvery \in Int
  /\ MaxTime \in Int

Begun(t) ==
  /\ t.pc = "begun"
  /\ t = [pc |-> "begun", seen |-> t.seen, web |-> t.web, enabled |-> t.enabled,
          touched |-> t.touched, webTouched |-> t.webTouched]

Checked(t) ==
  /\ t.pc = "checked"
  /\ t = [pc |-> "checked", found |-> t.found, time |-> t.time, left |-> t.left,
          webTouched |-> t.webTouched, touched |-> t.touched]
  /\ t.found \subseteq Crons

WatchTyped ==
  /\ tx = [p \in Checkers |-> tx[p]]
  /\ cron = [c \in Crons |-> cron[c]] /\ holder = [c \in Crons |-> holder[c]]
  /\ \A p \in Checkers : tx[p].pc = "none" \/ Begun(tx[p]) \/ Checked(tx[p])

\* a check knows every row as it is, but for those that were written since
SnapshotsHold ==
  \A p \in Checkers : tx[p].pc = "begun" =>
    \A c \in Crons \ tx[p].touched : tx[p].seen[c] = cron[c]

\* what a check has found is locked by it until it ends
FoundHeld ==
  \A p \in Checkers : tx[p].pc = "checked" => \A c \in tx[p].found : holder[c] = p

RowsKnown == WatchTyped /\ SnapshotsHold /\ FoundHeld

TimesTyped ==
  /\ now \in Int /\ kept = [c \in Crons |-> kept[c]]
  /\ \A c \in Crons :
       /\ cron[c] = [next |-> cron[c].next, alerted |-> cron[c].alerted]
       /\ cron[c].alerted \in Int /\ kept[c] \subseteq Int
  /\ \A p \in Checkers : tx[p].pc = "checked" => tx[p].time \in Int

\* the stamp of an action tells of the alerts that left, and a check that has found the
\* action is about to write a later one
StampTells ==
  /\ \A c \in Crons : \A time \in kept[c] : time <= cron[c].alerted
  /\ \A p \in Checkers : tx[p].pc = "checked" =>
       \A c \in tx[p].found : cron[c].alerted <= tx[p].time

IInv == RowsKnown /\ TimesTyped /\ StampTells
=============================================================================
