---------------------------- MODULE LoginLockout ----------------------------
(***************************************************************************)
(* auth_login_lockout: the throttling of failed logins.  Every request     *)
(* runs a guard transaction, then the core password check, then a          *)
(* recording transaction; the three interleave with those of the other     *)
(* workers, with an administrator's release, with changes of the policy,   *)
(* with the hourly purge and with the clock.                               *)
(*                                                                         *)
(* Time is relative: a row carries its age in ticks (now - create_date),   *)
(* and ages saturate at MaxAge, beyond every window and retention, so that *)
(* the clock needs no bound.  A row is visible to the others once its      *)
(* transaction commits; its create_date is the start of that transaction.  *)
(***************************************************************************)
EXTENDS Naturals, FiniteSets

CONSTANTS
  Workers,        \* HTTP and RPC workers serving authentication requests
  Slots,          \* room for rows of auth.login.attempt
  Spellings,      \* what may be typed in the login box
  Logins,         \* the normalised, non-empty logins
  NoLogin,        \* what an empty or unprintable login is normalised to
  Norm,           \* [Spellings -> Logins \cup {NoLogin}], _normalize_login
  Accounts,       \* the logins of the active users, spelled as stored
  Params,         \* contents the configuration parameters may have
  Forms,          \* values a settings form may be saved with
  Unset,          \* a parameter that is missing, emptied or corrupt
  DefaultPolicy,  \* what _lockout_config falls back to
  PurgeCap,       \* GC_BATCH * GC_MAX_BATCHES
  MaxAge,         \* the age at which rows stop ageing
  MaxUnchecked,   \* bound on attempts let through without a check
  Threshold,      \* no policy in use allows more failures than this
  ShortestWindow  \* no policy in use has a shorter lockout or retention

VARIABLES
  param,      \* the stored configuration parameters
  row,        \* [Slots -> Row \cup {NoRow}]: the committed attempts
  worker,     \* what each worker is doing
  unchecked,  \* attempts let through by a failed guard or a disabled policy
  alerts      \* alerts sent during the lockout running at each login

vars == <<param, row, worker, unchecked, alerts>>

-----------------------------------------------------------------------------
(* The policy *)

ClampInt(value, default) ==
  IF value = Unset THEN default ELSE IF value < 1 THEN 1 ELSE value

Config(p) ==
  [enabled   |-> p.enabled,
   alert     |-> p.alert,
   max       |-> ClampInt(p.max, DefaultPolicy.max),
   window    |-> ClampInt(p.window, DefaultPolicy.window),
   retention |-> ClampInt(p.retention, DefaultPolicy.retention)]

AtLeastOne(n) == IF n < 1 THEN 1 ELSE n

Saved(f) == [f EXCEPT !.max = AtLeastOne(@), !.window = AtLeastOne(@),
                      !.retention = AtLeastOne(@)]

Stored == Params \cup {Saved(f) : f \in Forms}

ASSUME SetsAssumption ==
  /\ IsFiniteSet(Workers) /\ IsFiniteSet(Slots)
  /\ Norm \in [Spellings -> Logins \cup {NoLogin}] /\ NoLogin \notin Logins
  /\ MaxAge \in Nat /\ MaxUnchecked \in Nat /\ PurgeCap \in Nat
  /\ Threshold \in Nat \ {0} /\ ShortestWindow \in Nat

ASSUME PolicyAssumption ==
  \A p \in Stored :
    LET c == Config(p)
    IN  /\ c.enabled \in BOOLEAN /\ c.alert \in BOOLEAN
        /\ c.max \in 1..Threshold
        /\ c.window \in ShortestWindow..MaxAge
        /\ c.retention \in Nat /\ ShortestWindow <= c.retention + 1
        /\ c.retention < MaxAge

-----------------------------------------------------------------------------
(* The attempt table, and when a login is locked *)

NoRow == [login |-> NoLogin, result |-> "none", age |-> 0, released |-> FALSE]

Row == [login : Logins, result : {"failed", "success", "blocked"},
        age : 0..MaxAge, released : BOOLEAN]

Attempt(login, result) ==
  [login |-> login, result |-> result, age |-> 0, released |-> FALSE]

Free(table) == {i \in Slots : table[i] = NoRow}

Insert(table, r) ==
  IF r = NoRow THEN table
               ELSE [table EXCEPT ![CHOOSE i \in Free(table) : TRUE] = r]

\* the failures that count: in the window, after the last success, not released
Counts(r, login, window) ==
  /\ r.login = login /\ r.result = "failed" /\ ~r.released
  /\ r.age < window

Streak(table, login, window) ==
  {i \in Slots :
     /\ Counts(table[i], login, window)
     /\ \A j \in Slots : table[j].login = login /\ table[j].result = "success"
                           => table[i].age < table[j].age}

\* mutant: one failure more is allowed than the policy says
LockedLate(table, cfg, login) ==
  /\ cfg.enabled /\ login # NoLogin
  /\ Cardinality(Streak(table, login, cfg.window)) > cfg.max

Locked(table, cfg, login) ==
  /\ cfg.enabled /\ login # NoLogin
  /\ Cardinality(Streak(table, login, cfg.window)) >= cfg.max

BlockedRecorded(table, cfg, login) ==
  \E i \in Slots : /\ table[i].login = login /\ table[i].result = "blocked"
                   /\ table[i].age < cfg.window

\* mutant: the guard on the empty login is dropped
RecordedNameless(table, cfg, login, result) ==
  IF ~cfg.enabled \/ (result = "blocked" /\ BlockedRecorded(table, cfg, login))
  THEN NoRow ELSE Attempt(login, result)

\* mutant: a refused knock is written as a failure
RecordedAsFailure(table, cfg, login, result) ==
  IF ~cfg.enabled \/ login = NoLogin THEN NoRow
  ELSE Attempt(login, IF result = "blocked" THEN "failed" ELSE result)

\* what _record_attempt adds to the table, NoRow when it returns early
Recorded(table, cfg, login, result) ==
  IF \/ ~cfg.enabled
     \/ login = NoLogin
     \/ result = "blocked" /\ BlockedRecorded(table, cfg, login)
  THEN NoRow
  ELSE Attempt(login, result)

\* whether a failure that has just been written makes _notify_lockout send
Alerts(table, cfg, login) ==
  cfg.alert /\ Locked(table, cfg, login) /\ login \in Accounts

-----------------------------------------------------------------------------
(* alerts is a history variable: the alerts sent during the lockout that   *)
(* is running at each login, reset when it ends.  No action depends on it. *)

LockedNow(login) == Locked(row, Config(param), login)

Alerted(logins) ==
  alerts' = [l \in Logins |->
    IF ~LockedNow(l)' THEN 0
    ELSE IF l \in logins THEN alerts[l] + 1 ELSE alerts[l]]

-----------------------------------------------------------------------------
(* One authentication request *)

Idle == [pc |-> "idle", login |-> NoLogin, known |-> FALSE,
         row |-> NoRow, alert |-> FALSE]

LoginOf(w) == worker[w].login

Become(w, state) == worker' = [worker EXCEPT ![w] = state]

Step(w, pc) == [worker[w] EXCEPT !.pc = pc]

Arrives(w) == worker[w].pc = "idle"

\* bound: nothing writes a row while every slot is taken
HasRoom(r) == r = NoRow \/ Free(row) # {}

CheckPassword(w, typed) ==
  Become(w, [Idle EXCEPT !.pc = "password", !.login = Norm[typed],
                         !.known = (typed \in Accounts)])

Unchecked == /\ unchecked < MaxUnchecked
             /\ unchecked' = unchecked + 1

\* _lockout_guard finds no lockout
Pass(w, typed) ==
  /\ Arrives(w)
  /\ ~LockedNow(Norm[typed])
  /\ CheckPassword(w, typed)
  /\ IF Config(param).enabled \/ Norm[typed] = NoLogin
     THEN UNCHANGED unchecked ELSE Unchecked
  /\ UNCHANGED <<param, row>>
  /\ Alerted({})

\* _lockout_guard raises: _login lets the attempt through
GuardFails(w, typed) ==
  /\ Arrives(w)
  /\ CheckPassword(w, typed)
  /\ Unchecked
  /\ UNCHANGED <<param, row>>
  /\ Alerted({})

\* _lockout_guard finds a lockout and writes the blocked row, not yet committed
Refuse(w, typed) ==
  /\ Arrives(w)
  /\ LockedNow(Norm[typed])
  /\ Become(w, [Idle EXCEPT !.pc = "refusing", !.login = Norm[typed],
       !.row = Recorded(row, Config(param), Norm[typed], "blocked")])
  /\ UNCHANGED <<param, row, unchecked>>
  /\ Alerted({})

\* mutant: every refused knock sends the alert again
RefuseCommitLoud(w) ==
  /\ worker[w].pc = "refusing"
  /\ HasRoom(worker[w].row)
  /\ row' = Insert(row, worker[w].row)
  /\ Become(w, Idle)
  /\ UNCHANGED <<param, unchecked>>
  /\ Alerted({LoginOf(w)})

\* the guard commits and _login raises AccessDenied
RefuseCommit(w) ==
  /\ worker[w].pc = "refusing"
  /\ HasRoom(worker[w].row)
  /\ row' = Insert(row, worker[w].row)
  /\ Become(w, Idle)
  /\ UNCHANGED <<param, unchecked>>
  /\ Alerted({})

\* the blocked row cannot be written: rolled back, the attempt is still refused
RefuseRollback(w) ==
  /\ worker[w].pc = "refusing"
  /\ Become(w, Idle)
  /\ UNCHANGED <<param, row, unchecked>>
  /\ Alerted({})

\* core _login raises AccessDenied: _lockout_record writes the failure and
\* decides on the alert from its snapshot and its own row
WrongPassword(w) ==
  LET cfg == Config(param)
      r   == Recorded(row, cfg, LoginOf(w), "failed")
  IN  /\ worker[w].pc = "password" /\ HasRoom(r)
      /\ Become(w, [Step(w, "writing") EXCEPT !.row = r,
                    !.alert = Alerts(Insert(row, r), cfg, LoginOf(w))])
      /\ UNCHANGED <<param, row, unchecked>>
      /\ Alerted({})

\* core _login succeeds, which it can only for a stored spelling
RightPassword(w) ==
  /\ worker[w].pc = "password" /\ worker[w].known
  /\ Become(w, [Step(w, "writing") EXCEPT
       !.row = Recorded(row, Config(param), LoginOf(w), "success")])
  /\ UNCHANGED <<param, row, unchecked>>
  /\ Alerted({})

\* core _login raises something else: nothing is recorded
LoginError(w) ==
  /\ worker[w].pc = "password"
  /\ Become(w, Idle)
  /\ UNCHANGED <<param, row, unchecked>>
  /\ Alerted({})

\* _lockout_record commits: the row and the alert mail become visible
RecordCommit(w) ==
  /\ worker[w].pc = "writing"
  /\ HasRoom(worker[w].row)
  /\ row' = Insert(row, worker[w].row)
  /\ Become(w, Idle)
  /\ UNCHANGED <<param, unchecked>>
  /\ Alerted(IF worker[w].alert THEN {LoginOf(w)} ELSE {})

\* _lockout_record raises: logged, the row and the alert are lost
RecordFails(w) ==
  /\ worker[w].pc = "writing"
  /\ Become(w, Idle)
  /\ UNCHANGED <<param, row, unchecked>>
  /\ Alerted({})

-----------------------------------------------------------------------------
(* The administrator, the purge and the clock *)

Releasable(S) ==
  {i \in S : row[i].result = "failed" /\ ~row[i].released}

Release(S) ==
  /\ Releasable(S) # {}
  /\ row' = [i \in Slots |-> IF i \in Releasable(S)
                             THEN [row[i] EXCEPT !.released = TRUE] ELSE row[i]]
  /\ UNCHANGED <<param, worker, unchecked>>
  /\ Alerted({})

SaveSettings(f) ==
  /\ param' = Saved(f)
  /\ UNCHANGED <<row, worker, unchecked>>
  /\ Alerted({})

EditParameters(p) ==
  /\ param' = p
  /\ UNCHANGED <<row, worker, unchecked>>
  /\ Alerted({})

\* mutant: successes are purged first, whatever their age
StaleSuccess(cfg) ==
  {i \in Slots : row[i] # NoRow /\ (row[i].age > cfg.retention
                                    \/ row[i].result = "success")}

Stale(cfg) == {i \in Slots : row[i] # NoRow /\ row[i].age > cfg.retention}

\* oldest first, up to the ceiling of one run; rows of one instant in any order
PurgeBatch(cfg) ==
  {S \in SUBSET Stale(cfg) :
     /\ \A i \in S, j \in Stale(cfg) \ S : row[i].age >= row[j].age
     /\ \/ S = Stale(cfg)
        \/ Cardinality(S) = PurgeCap}

Purge ==
  \E S \in PurgeBatch(Config(param)) :
    /\ Cardinality(S) \in 1..PurgeCap
    /\ row' = [i \in Slots |-> IF i \in S THEN NoRow ELSE row[i]]
    /\ UNCHANGED <<param, worker, unchecked>>
    /\ Alerted({})

Older(r) == IF r = NoRow \/ r.age = MaxAge THEN r ELSE [r EXCEPT !.age = @ + 1]

Tick ==
  /\ row' = [i \in Slots |-> Older(row[i])]
  /\ worker' = [w \in Workers |-> [worker[w] EXCEPT !.row = Older(@)]]
  /\ UNCHANGED <<param, unchecked>>
  /\ Alerted({})

-----------------------------------------------------------------------------
Init ==
  /\ param \in Stored
  /\ row = [i \in Slots |-> NoRow]
  /\ worker = [w \in Workers |-> Idle]
  /\ unchecked = 0
  /\ alerts = [l \in Logins |-> 0]

Request(w) ==
  \/ \E typed \in Spellings : \/ Pass(w, typed)
                              \/ GuardFails(w, typed)
                              \/ Refuse(w, typed)
  \/ RefuseCommit(w)
  \/ RefuseRollback(w)
  \/ WrongPassword(w)
  \/ RightPassword(w)
  \/ LoginError(w)
  \/ RecordCommit(w)
  \/ RecordFails(w)

Admin ==
  \/ \E S \in SUBSET Slots : Release(S)
  \/ \E f \in Forms : SaveSettings(f)
  \/ \E p \in Params : EditParameters(p)

Next == \/ \E w \in Workers : Request(w)
        \/ Admin
        \/ Purge
        \/ Tick

Spec == Init /\ [][Next]_vars

\* time passes; nobody is obliged to log in, to release or to purge
FairSpec == Spec /\ WF_vars(Tick)

-----------------------------------------------------------------------------
(* Properties *)

WorkerState ==
  [pc : {"idle", "password", "refusing", "writing"},
   login : Logins \cup {NoLogin}, known : BOOLEAN,
   row : Row \cup {NoRow}, alert : BOOLEAN]

\* The stored parameters, the table and the requests keep their shapes.
TypeOK ==
  /\ param \in Stored
  /\ row \in [Slots -> Row \cup {NoRow}]
  /\ worker \in [Workers -> WorkerState]
  /\ unchecked \in Nat
  /\ alerts \in [Logins -> Nat]

InFlight(l) ==
  {w \in Workers : worker[w].pc \in {"password", "writing"} /\ LoginOf(w) = l}

\* The guard and the recording are separate transactions, so concurrent
\* requests overshoot the allowance; never by more than one guess for each
\* worker, plus the attempts that met no working guard at all.
OvershootBounded ==
  \A l \in Logins :
    Cardinality(Streak(row, l, ShortestWindow)) + Cardinality(InFlight(l))
      <= Threshold - 1 + Cardinality(Workers) + unchecked

\* One lockout sends at most one alert for each request already past the
\* guard when it began: refused knocks send none, however long they go on.
AlertsBounded ==
  \A l \in Logins :
    alerts[l] + Cardinality(InFlight(l))
      <= Cardinality(Workers) + unchecked

\* _lockout_guard: a refused knock, written down or not, leaves the set of
\* counted failures as it was, so it cannot extend the running lockout.
RefusalNeverExtends ==
  [][\A w \in Workers :
       worker[w].pc = "refusing" /\ worker'[w].pc = "idle"
         => \A l \in Logins, window \in 1..MaxAge :
              Streak(row, l, window)' = Streak(row, l, window)]_vars

SameInstant(l) ==
  \E i, j \in Slots : /\ row[i].login = l /\ row[i].result = "failed"
                      /\ row[j].login = l /\ row[j].result = "success"
                      /\ row[i].age = row[j].age

\* _gc_login_attempts: a purge never locks a login, even where a lockout
\* outlasts the retention and the run stops at its ceiling, because the
\* success that cleared a streak goes after the failures it cleared.
PurgeNeverLocks ==
  [][Purge => \A l \in Logins :
                LockedNow(l)' => LockedNow(l) \/ SameInstant(l)]_vars

\* Nobody is locked out for good: whoever keeps knocking, and whatever the
\* other requests do, every login is again and again open to its owner.
LockoutLifts == \A l \in Logins : []<>~LockedNow(l)
=============================================================================
