--------------------------- MODULE FailedMailAlert ---------------------------
(***************************************************************************)
(* failed_mail_alert: a scheduled check, which an administrator may also   *)
(* start by hand, counts the messages stuck in the outgoing queue, warns   *)
(* the administrators and writes the time of the warning.                  *)
(*                                                                         *)
(* The warning is handed to the mail server at once, which may refuse it;  *)
(* the time is written by the transaction of the check, which may fail.    *)
(***************************************************************************)
EXTENDS Integers, FiniteSets

CONSTANTS
  Mails,
  Checks,       \* the scheduled one, and those started by hand
  Thresholds,   \* the settings: from 0
  Age,          \* hours
  RealertHours,
  MaxTime, MaxEdits

VARIABLES
  queue,        \* [a subset of Mails -> [created, scheduled]]: what was not sent
  config,       \* [enabled, threshold]
  reachable,    \* is there an administrator with an address
  stamp,        \* failed_mail_alert.last_alert
  check,        \* [Checks -> a transaction]
  handed,       \* history: the warnings handed to the mail server, [time, left]
  now,
  edits

vars == <<queue, config, reachable, stamp, check, handed, now, edits>>

Never == -RealertHours

-----------------------------------------------------------------------------
(* The check *)

\* _failed_alert_domain
Stuck(q) == {m \in DOMAIN q : q[m].created < now - Age /\ q[m].scheduled <= now}

\* _failed_alert_config: MIN_THRESHOLD
Threshold == IF config.threshold < 1 THEN 1 ELSE config.threshold

\* _failed_alert_rate_limited
RateLimited(last) == last > now - RealertHours

NoCheck == [pc |-> "none"]

\* what the transaction sees is settled by its first query
CheckStart(c) ==
  /\ check[c].pc = "none"
  /\ check' = [check EXCEPT ![c] =
       [pc |-> "started", late |-> FALSE, last |-> stamp, anyone |-> reachable,
        warn |-> config.enabled /\ Cardinality(Stuck(queue)) >= Threshold]]
  /\ UNCHANGED <<queue, config, reachable, stamp, handed, now, edits>>

\* what became of a warning: none was built, for want of a reader or by an error;
\* the mail server refused it, which is only logged; it left
Outcomes(c) == IF check[c].anyone THEN {"none", "refused", "left"} ELSE {"none"}

\* mutant: the time is written whether or not there was somebody to warn
NotifiedAnyhow(outcome) == TRUE

\* _failed_alert_notify_admins: what it returns
Notified(outcome) == outcome # "none"

Warns(c) == check[c].warn /\ ~RateLimited(check[c].last)

\* _failed_mail_alert_check, until the time is to be written
Warn(c) ==
  /\ check[c].pc = "started" /\ Warns(c)
  /\ \E outcome \in Outcomes(c) :
       /\ check' = [check EXCEPT ![c] =
            IF Notified(outcome)
            THEN [pc |-> "warned", late |-> check[c].late, time |-> now] ELSE NoCheck]
       /\ handed' = IF outcome = "none" THEN handed
                    ELSE handed \cup {[time |-> now, left |-> outcome = "left"]}
  /\ UNCHANGED <<queue, config, reachable, stamp, now, edits>>

\* switched off, too few are stuck, or the last warning is younger than a day
NothingToSay(c) ==
  /\ check[c].pc = "started" /\ ~Warns(c)
  /\ check' = [check EXCEPT ![c] = NoCheck]
  /\ UNCHANGED <<queue, config, reachable, stamp, handed, now, edits>>

CheckCommit(c) ==
  /\ check[c].pc = "warned" /\ ~check[c].late
  /\ stamp' = check[c].time
  /\ check' = [d \in Checks |->
       CASE d = c -> NoCheck
         [] check[d].pc = "none" -> check[d]
         [] OTHER -> [check[d] EXCEPT !.late = TRUE]]
  /\ UNCHANGED <<queue, config, reachable, handed, now, edits>>

\* another check wrote the time first, or anything else is wrong
CheckFails(c) ==
  /\ check[c].pc # "none"
  /\ check' = [check EXCEPT ![c] = NoCheck]
  /\ UNCHANGED <<queue, config, reachable, stamp, handed, now, edits>>

-----------------------------------------------------------------------------
(* The queue, the settings, the clock *)

Editing == edits < MaxEdits /\ edits' = edits + 1

Enqueue(m) ==
  /\ Editing /\ m \notin DOMAIN queue
  /\ \E later \in {0, Age + 2} :
       queue' = [x \in DOMAIN queue \cup {m} |->
                   IF x = m THEN [created |-> now, scheduled |-> now + later] ELSE queue[x]]
  /\ UNCHANGED <<config, reachable, stamp, check, handed, now>>

Deliver(m) ==
  /\ Editing /\ m \in DOMAIN queue
  /\ queue' = [x \in DOMAIN queue \ {m} |-> queue[x]]
  /\ UNCHANGED <<config, reachable, stamp, check, handed, now>>

\* res.config.settings: set_values
SetConfig ==
  /\ Editing
  /\ config' \in [enabled : BOOLEAN, threshold : Thresholds] /\ config' # config
  /\ UNCHANGED <<queue, reachable, stamp, check, handed, now>>

ChangeAdmins ==
  /\ Editing /\ reachable' = ~reachable
  /\ UNCHANGED <<queue, config, stamp, check, handed, now>>

Tick ==
  /\ now < MaxTime /\ now' = now + 1
  /\ UNCHANGED <<queue, config, reachable, stamp, check, handed, edits>>

Init ==
  /\ \E stuck \in SUBSET Mails : queue = [m \in stuck |-> [created |-> -Age - 1, scheduled |-> 0]]
  /\ config \in [enabled : {TRUE}, threshold : Thresholds]
  /\ reachable \in BOOLEAN
  /\ stamp = Never /\ handed = {} /\ now = 0 /\ edits = 0
  /\ check = [c \in Checks |-> NoCheck]

Next ==
  \/ \E c \in Checks : CheckStart(c) \/ NothingToSay(c) \/ Warn(c)
                     \/ CheckCommit(c) \/ CheckFails(c)
  \/ \E m \in Mails : Enqueue(m) \/ Deliver(m)
  \/ SetConfig \/ ChangeAdmins \/ Tick

Spec == Init /\ [][Next]_vars

-----------------------------------------------------------------------------
(* Properties *)

\* "no alert was even built - do not burn the 24h window on it": the time that
\* silences the checks is written only for a warning that was built and handed to the
\* mail server, and only a day after the one before, however many checks overlap or
\* fail.  Whether that warning left does not count: one that the mail server refuses
\* is logged, and silences the checks for a day all the same.
QuietMeansWarned ==
  stamp' # stamp =>
    /\ stamp' \in {warning.time : warning \in handed}
    /\ stamp' >= stamp + RealertHours

-----------------------------------------------------------------------------
(* The inductive invariant *)

Proper == RealertHours \in Int /\ MaxTime \in Int

CheckTyped ==
  /\ now \in Int /\ stamp \in Int /\ check = [c \in Checks |-> check[c]]
  /\ \A c \in Checks :
       \/ check[c].pc = "none"
       \/ /\ check[c].pc = "started"
          /\ check[c] = [pc |-> "started", late |-> check[c].late, last |-> check[c].last,
                         anyone |-> check[c].anyone, warn |-> check[c].warn]
       \/ /\ check[c].pc = "warned" /\ check[c].time \in Int
          /\ check[c] = [pc |-> "warned", late |-> check[c].late, time |-> check[c].time]

\* until somebody else writes the time, a check knows it, and the time it is about to
\* write is that of a warning it handed over a day later
StampKnown ==
  \A c \in Checks :
    /\ check[c].pc = "started" /\ ~check[c].late => check[c].last = stamp
    /\ check[c].pc = "warned" =>
         /\ check[c].time \in {warning.time : warning \in handed}
         /\ ~check[c].late => check[c].time >= stamp + RealertHours

IInv == CheckTyped /\ StampKnown
=============================================================================
