--------------------------- MODULE ScheduledExport ---------------------------
(***************************************************************************)
(* scheduled_filter_export: exports that an hourly job builds and queues,  *)
(* that people send by hand, and that are edited meanwhile.                *)
(*                                                                         *)
(* The job is one transaction on the snapshot taken at its start.  Each    *)
(* export runs in a savepoint; a row that somebody changed since the       *)
(* snapshot cannot be written, neither with a result nor with the failure. *)
(* Its mails are rows too, and leave only if the job commits.  An export   *)
(* sent by hand leaves by SMTP before anything is written.                 *)
(***************************************************************************)
EXTENDS Integers, Functions, TLAPS

CONSTANTS
  Exports,
  Users,        \* those who manage exports
  Admins,       \* Settings administrators among them
  Owner,        \* [Exports -> Users]: create_uid
  Zone,         \* [Users -> Int]: hours their clock is ahead of UTC
  Fields,
  Readable,     \* [Users -> SUBSET Fields]
  Contents,     \* schedules, columns and recipients an export may have
  Weekday,      \* [days -> days of the week]
  DayOfMonth,   \* [days -> Nat]
  LastDay,      \* [days -> Nat]: the length of their months
  DayHours,     \* hours of a day
  MaxHour,      \* bound: the last hour of the model
  Never,
  MaxEdits      \* bound on what people change

VARIABLES
  export,       \* [Exports -> Export]: the committed rows
  usable,       \* the users an export may run as: active, internal
  now,
  job,          \* the hourly run
  request,      \* the export somebody is sending by hand
  decided,      \* history: who decided last what an export reads, and as whom
  edits

vars == <<export, usable, now, job, request, decided, edits>>

ASSUME ConstantsAssumption ==
  /\ Admins \subseteq Users /\ Owner \in [Exports -> Users]
  /\ Zone \in [Users -> Int] /\ Readable \in [Users -> SUBSET Fields]
  /\ DayHours \in Nat \ {0} /\ MaxHour \in Nat /\ MaxEdits \in Nat
  /\ Never \notin Int
  /\ Contents \subseteq [interval : {"daily", "weekly", "monthly"}, day : Int,
                           hour : 0..(DayHours - 1), columns : SUBSET Fields,
                           addressed : BOOLEAN]

Results == {"never", "success", "empty", "error"}

Export == [enabled : BOOLEAN, content : Contents, run_as : Users,
           last_run : {Never} \cup 0..MaxHour, result : Results]

-----------------------------------------------------------------------------
(* When *)

\* the day and the hour of t where the export runs
Day(r, t) == (t + Zone[r.run_as]) \div DayHours
Hour(r, t) == (t + Zone[r.run_as]) % DayHours

Smaller(a, b) == IF a < b THEN a ELSE b

OnItsDay(c, day) ==
  /\ c.interval = "weekly" => Weekday[day] = c.day
  /\ c.interval = "monthly" =>
       DayOfMonth[day] = Smaller(IF c.day < 1 THEN 1 ELSE c.day, LastDay[day])

\* mutant: the export is met by every check of its day
NotYetEver(r, t) == TRUE

NotYet(r, t) == r.last_run # Never => Day(r, r.last_run) < Day(r, t)

InSlot(r, t) == Hour(r, t) >= r.content.hour /\ OnItsDay(r.content, Day(r, t))

\* _is_due
Due(r, t) == InSlot(r, t) /\ NotYet(r, t)

-----------------------------------------------------------------------------
(* What *)

\* _recipient_emails, _readable_model, _collect_columns: what raises before a
\* row is read.  A column the user cannot read is dropped.
Columns(r) == r.content.columns \cap Readable[r.run_as]

Buildable(r, users) ==
  r.content.addressed /\ r.run_as \in users /\ Columns(r) # {}

\* _run_export: it raises where it must, and may where the filter, a renderer or
\* the mail does; the filter may match nothing
Outcomes(r, users) ==
  IF Buildable(r, users) THEN {"success", "empty", "error"} ELSE {"error"}

Stamped(r, t, result) == [r EXCEPT !.last_run = t, !.result = result]

-----------------------------------------------------------------------------
(* The hourly job *)

\* may: the exports that are due, and what each may come to; those that are not
\* are passed over
NoJob == [pc |-> "idle", at |-> 0, may |-> <<>>, touched |-> {}, done |-> <<>>]

Todo == DOMAIN job.may
Written == DOMAIN job.done

Locked(e) == e \in Written

Without(f, e) == Restrict(f, DOMAIN f \ {e})

\* the rows the job or the request read and somebody now changes
Touch(es) ==
  /\ job' = IF job.pc = "idle" THEN job ELSE [job EXCEPT !.touched = @ \cup es]
  /\ request' = IF request.pc # "idle" /\ request.export \in es
                THEN [request EXCEPT !.touched = TRUE] ELSE request

JobStart ==
  /\ job.pc = "idle"
  /\ LET due == {e \in Exports : export[e].enabled /\ Due(export[e], now)}
     IN  job' = [NoJob EXCEPT !.pc = "running", !.at = now,
                   !.may = [e \in due |-> Outcomes(export[e], usable)]]
  /\ UNCHANGED <<export, usable, now, request, decided, edits>>

\* mutant: the failure is not written
RecordedFailing(done, e, result) ==
  IF result = "error" THEN done
  ELSE [d \in DOMAIN done \cup {e} |-> IF d = e THEN result ELSE done[d]]

\* the result, or the failure in a savepoint of its own
Recorded(done, e, result) ==
  [d \in DOMAIN done \cup {e} |-> IF d = e THEN result ELSE done[d]]

JobRuns(e) ==
  /\ e \in Todo \ job.touched
  /\ \E result \in job.may[e] :
       job' = [job EXCEPT !.may = Without(@, e), !.done = Recorded(@, e, result)]
  /\ UNCHANGED <<export, usable, now, request, decided, edits>>

\* the row changed: the mail is rolled back with the result, and the failure
\* cannot be written either
JobLosesRow(e) ==
  /\ e \in Todo \cap job.touched
  /\ job' = [job EXCEPT !.may = Without(@, e)]
  /\ UNCHANGED <<export, usable, now, request, decided, edits>>

JobCommit ==
  /\ job.pc = "running" /\ Todo = {}
  /\ export' = [e \in Exports |->
       IF e \in Written THEN Stamped(export[e], job.at, job.done[e]) ELSE export[e]]
  /\ job' = NoJob
  /\ request' = IF request.pc # "idle" /\ request.export \in Written
                THEN [request EXCEPT !.touched = TRUE] ELSE request
  /\ UNCHANGED <<usable, now, decided, edits>>

JobCrash ==
  /\ job.pc = "running"
  /\ job' = NoJob
  /\ UNCHANGED <<export, usable, now, request, decided, edits>>

-----------------------------------------------------------------------------
(* People *)

NoRequest == [pc |-> "idle"]

HasAccess(u, e) == u = Owner[e] \/ u \in Admins

\* action_run_now: builds and sends; a failure is shown and changes nothing
RunNow(u, e) ==
  /\ request.pc = "idle" /\ HasAccess(u, e)
  /\ \E result \in Outcomes(export[e], usable) \ {"error"} :
       request' = [pc |-> "sent", export |-> e, at |-> now, result |-> result,
                    touched |-> FALSE]
  /\ UNCHANGED <<export, usable, now, job, decided, edits>>

RunNowCommit ==
  LET e == request.export
  IN  /\ request.pc = "sent" /\ ~request.touched /\ ~Locked(e)
      /\ export' = [export EXCEPT ![e] = Stamped(@, request.at, request.result)]
      /\ request' = NoRequest
      /\ job' = IF job.pc = "idle" THEN job ELSE [job EXCEPT !.touched = @ \cup {e}]
      /\ UNCHANGED <<usable, now, decided, edits>>

\* the row changed, or the server stopped: the button is pressed again, or not
RunNowFails ==
  /\ request.pc = "sent"
  /\ request' = NoRequest
  /\ UNCHANGED <<export, usable, now, job, decided, edits>>

\* _check_run_as_permission
MayActAs(u, user) == u \in Admins \/ u = user

\* mutant: only changes of the user are looked at
MayWriteChange(u, r, new) == new.run_as # r.run_as => MayActAs(u, new.run_as)

\* write(): the stored row and the new values
MayWrite(u, r, new) == MayActAs(u, r.run_as) /\ MayActAs(u, new.run_as)

\* _check_ready_to_run
Ready(content) == content.columns # {} /\ content.addressed

\* the fields _check_ready_to_run is bound to: the schedule is none of them
Watched(r) == <<r.enabled, r.content.columns, r.content.addressed>>

\* the constraints of the fields that are written
Valid(r, new) ==
  /\ new.run_as # r.run_as => new.run_as \in usable
  /\ new.enabled /\ Watched(new) # Watched(r) => Ready(new.content)

Commit(u, e, new) ==
  /\ ~Locked(e) /\ new # export[e] /\ edits < MaxEdits
  /\ export' = [export EXCEPT ![e] = new]
  /\ decided' = IF <<new.content, new.run_as>> = <<export[e].content, export[e].run_as>>
                THEN decided ELSE [decided EXCEPT ![e] = u]
  /\ edits' = edits + 1
  /\ Touch({e})
  /\ UNCHANGED <<usable, now>>

Edit(u, e) ==
  /\ HasAccess(u, e)
  /\ \E enabled \in BOOLEAN, content \in Contents, user \in Users :
       LET new == [export[e] EXCEPT !.enabled = enabled, !.content = content,
                                    !.run_as = user]
       IN  MayWrite(u, export[e], new) /\ Valid(export[e], new) /\ Commit(u, e, new)

\* a line removed by itself passes the check of the lines, not of the export; it
\* changes no row of the export
RemoveColumn(u, e) ==
  /\ HasAccess(u, e) /\ MayActAs(u, export[e].run_as) /\ edits < MaxEdits
  /\ \E content \in Contents :
       /\ content.columns # export[e].content.columns
       /\ content = [export[e].content EXCEPT !.columns = content.columns]
       /\ content.columns \subseteq export[e].content.columns
       /\ export' = [export EXCEPT ![e].content = content]
  /\ decided' = [decided EXCEPT ![e] = u]
  /\ edits' = edits + 1
  /\ UNCHANGED <<usable, now, job, request>>

\* a user is archived, or comes back
ArchiveUser(u) ==
  /\ edits < MaxEdits /\ edits' = edits + 1
  /\ usable' = IF u \in usable THEN usable \ {u} ELSE usable \cup {u}
  /\ UNCHANGED <<export, now, job, request, decided>>

Tick ==
  /\ now < MaxHour
  /\ now' = now + 1
  /\ UNCHANGED <<export, usable, job, request, decided, edits>>

-----------------------------------------------------------------------------
\* create() and the writes since: what u decided, on an export that has not run
Created(u, e) ==
  {r \in Export : /\ r.last_run = Never /\ r.result = "never"
                  /\ HasAccess(u, e) /\ MayActAs(u, r.run_as)
                  /\ r.enabled => Ready(r.content)}

Init ==
  /\ decided \in [Exports -> Users]
  /\ export \in [Exports -> UNION {Created(u, e) : u \in Users, e \in Exports}]
  /\ \A e \in Exports : export[e] \in Created(decided[e], e)
  /\ usable = Users
  /\ now = 0
  /\ job = NoJob
  /\ request = NoRequest
  /\ edits = 0

Job ==
  \/ JobStart \/ JobCommit \/ JobCrash
  \/ \E e \in Exports : JobRuns(e) \/ JobLosesRow(e)

People ==
  \/ \E u \in Users, e \in Exports : RunNow(u, e) \/ Edit(u, e) \/ RemoveColumn(u, e)
  \/ \E u \in Users : ArchiveUser(u)
  \/ RunNowCommit \/ RunNowFails

\* time stops at MaxHour, and the model with it
Finished == now = MaxHour /\ UNCHANGED vars

Next == Job \/ People \/ Tick \/ Finished

Spec == Init /\ [][Next]_vars

-----------------------------------------------------------------------------
(* Properties *)

\* _is_due: the job never mails an export that ran, by the job or by hand, on the
\* same day of the user it runs as, whoever sends or edits while it runs.
OncePerDay ==
  [][\A e \in Written :
       JobCommit /\ job.done[e] = "success" /\ export[e].last_run # Never =>
         Day(export[e], export[e].last_run) < Day(export[e], job.at)]_vars

\* "Each export runs in its own savepoint: one broken export never stops the
\* others, and its error is shown on the record": a job that ends has left its
\* mark on every enabled export it met within its slot, failed or not, but for
\* those that were changed while it ran.
EverySlotStamped ==
  [][JobCommit =>
       \A e \in Exports \ job.touched :
         export[e].enabled /\ InSlot(export[e], job.at)
           => export'[e].last_run # Never
              /\ Day(export[e], export'[e].last_run) >= Day(export[e], job.at)]_vars

\* write(), "that creator could still re-point the recipients, filter, columns or
\* model and receive records only the Run As user may read": what an export
\* reads was decided last by an administrator or by the user it runs as.
DecidedByReader ==
  \A e \in Exports : MayActAs(decided[e], export[e].run_as)

-----------------------------------------------------------------------------
(* Proofs: who decides what an export reads, when it runs again, and that no *)
(* slot is passed over, for any exports, users, calendars and edits.         *)

Times == 0..MaxHour

\* what the exports of a run may come to, and what they came to
Plans == UNION {[S -> SUBSET Results] : S \in SUBSET Exports}
Marks == UNION {[S -> Results] : S \in SUBSET Exports}

RowsTyped ==
  /\ export \in [Exports -> Export] /\ decided \in [Exports -> Users]
  /\ usable \subseteq Users /\ now \in Times

JobTyped ==
  job \in [pc : {"idle", "running"}, at : Times, may : Plans,
           touched : SUBSET Exports, done : Marks]

RequestTyped ==
  \/ request = NoRequest
  \/ request \in [pc : {"sent"}, export : Exports, at : Times, result : Results,
                  touched : BOOLEAN]

\* Every variable stays within its type.
Typed == RowsTyped /\ JobTyped /\ RequestTyped

\* What a run has written, or may still write, has not run on the day of the run:
\* the rows behind it are those it read, or are its own.
DueStill ==
  job.pc = "running" =>
    \A e \in (Todo \ job.touched) \cup Written : NotYet(export[e], job.at)

\* What was due when the run began is still to do, or done, or was changed.
NoneMissed ==
  job.pc = "running" =>
    \A e \in Exports \ job.touched :
      export[e].enabled /\ Due(export[e], job.at) => e \in Todo \cup Written

-----------------------------------------------------------------------------
(* Types *)

\* An empty plan and an empty set of marks.
LEMMA Nothing == <<>> \in Plans /\ <<>> \in Marks
<1>1. <<>> \in [{} -> SUBSET Results] /\ <<>> \in [{} -> Results]
  OBVIOUS
<1> QED
  BY <1>1 DEF Plans, Marks

\* A run that is over, or has not begun, is well typed.
LEMMA IdleTyped == NoJob \in [pc : {"idle"}, at : Times, may : Plans,
                              touched : SUBSET Exports, done : Marks]
  BY Nothing, ConstantsAssumption DEF NoJob, Times

\* Taking an export off a plan leaves a plan.
LEMMA WithoutTyped ==
  ASSUME NEW f \in Plans, NEW e
  PROVE  Without(f, e) \in Plans /\ DOMAIN Without(f, e) = DOMAIN f \ {e}
         /\ \A d \in DOMAIN f \ {e} : Without(f, e)[d] = f[d]
<1>1. PICK S \in SUBSET Exports : f \in [S -> SUBSET Results]
  BY DEF Plans
<1>2. Without(f, e) = [d \in S \ {e} |-> f[d]]
  BY <1>1 DEF Without, Restrict
<1>3. Without(f, e) \in [S \ {e} -> SUBSET Results]
  BY <1>1, <1>2
<1> QED
  BY <1>1, <1>2, <1>3 DEF Plans

\* Adding a result leaves results.
LEMMA RecordedTyped ==
  ASSUME NEW f \in Marks, NEW e \in Exports, NEW r \in Results
  PROVE  Recorded(f, e, r) \in Marks
         /\ DOMAIN Recorded(f, e, r) = DOMAIN f \cup {e}
<1>1. PICK S \in SUBSET Exports : f \in [S -> Results]
  BY DEF Marks
<1>2. Recorded(f, e, r) = [d \in S \cup {e} |-> IF d = e THEN r ELSE f[d]]
  BY <1>1 DEF Recorded
<1>3. Recorded(f, e, r) \in [S \cup {e} -> Results]
  BY <1>1, <1>2
<1> QED
  BY <1>1, <1>2, <1>3 DEF Marks

\* A plan knows exports only, and what may come of each is a result.
LEMMA PlansTyped ==
  ASSUME NEW f \in Plans
  PROVE  DOMAIN f \subseteq Exports /\ \A e \in DOMAIN f : f[e] \subseteq Results
  BY DEF Plans

LEMMA MarksTyped ==
  ASSUME NEW f \in Marks
  PROVE  DOMAIN f \subseteq Exports /\ \A e \in DOMAIN f : f[e] \in Results
  BY DEF Marks

\* Stamping a row keeps it a row, of the same user, state and content.
LEMMA StampedTyped ==
  ASSUME NEW r \in Export, NEW t \in Times, NEW result \in Results
  PROVE  /\ Stamped(r, t, result) \in Export
         /\ Stamped(r, t, result).run_as = r.run_as
         /\ Stamped(r, t, result).content = r.content
         /\ Stamped(r, t, result).last_run = t
  BY DEF Export, Stamped, Times

\* What a row may come to is a result, whoever is still active.
LEMMA OutcomesTyped ==
  ASSUME NEW r, NEW users
  PROVE  Outcomes(r, users) \subseteq Results
  BY DEF Outcomes, Results

\* Telling a run or a request that rows changed keeps their types.
LEMMA TouchTyped ==
  ASSUME JobTyped, RequestTyped, NEW es \in SUBSET Exports, Touch(es)
  PROVE  /\ JobTyped' /\ RequestTyped'
         /\ job'.pc = job.pc
         /\ job.pc = "running" =>
              /\ job'.touched = job.touched \cup es
              /\ job' = [job EXCEPT !.touched = job'.touched]
<1>1. /\ JobTyped' /\ job'.pc = job.pc
      /\ job.pc = "running" =>
           /\ job'.touched = job.touched \cup es
           /\ job' = [job EXCEPT !.touched = job'.touched]
  BY DEF Touch, JobTyped
<1>2. RequestTyped'
  BY DEF Touch, RequestTyped, NoRequest
<1> QED
  BY <1>1, <1>2

\* The initial rows are rows; nothing runs and nobody sends.
LEMMA InitTyped == Init => Typed
<1> SUFFICES ASSUME Init PROVE Typed
  OBVIOUS
<1>1. export \in [Exports -> Export]
  BY DEF Init, Created
<1>2. RowsTyped
  BY <1>1, ConstantsAssumption DEF Init, RowsTyped, Times
<1>3. JobTyped
  BY IdleTyped DEF Init, JobTyped
<1>4. RequestTyped
  BY DEF Init, RequestTyped
<1> QED
  BY <1>2, <1>3, <1>4 DEF Typed

\* The steps of the job keep the types.
LEMMA JobStepTyped ==
  ASSUME Typed, Job
  PROVE  Typed'
<1> USE DEF Typed
<1>1. CASE JobStart
  <2> DEFINE due == {e \in Exports : export[e].enabled /\ Due(export[e], now)}
             may == [e \in due |-> Outcomes(export[e], usable)]
  <2>1. may \in Plans
    <3>1. may \in [due -> SUBSET Results]
      BY OutcomesTyped
    <3> QED
      BY <3>1 DEF Plans
  <2>2. job' = [NoJob EXCEPT !.pc = "running", !.at = now, !.may = may]
    BY <1>1 DEF JobStart
  <2> HIDE DEF may
  <2>3. JobTyped'
    BY <2>1, <2>2, IdleTyped DEF JobTyped, RowsTyped
  <2> QED
    BY <1>1, <2>3 DEF JobStart, RowsTyped, RequestTyped
<1>2. ASSUME NEW e \in Exports, JobRuns(e) PROVE Typed'
  <2>1. PICK result \in job.may[e] :
          job' = [job EXCEPT !.may = Without(@, e), !.done = Recorded(@, e, result)]
    BY <1>2 DEF JobRuns
  <2>2. e \in DOMAIN job.may /\ job.may \in Plans /\ job.done \in Marks
    BY <1>2 DEF JobRuns, Todo, JobTyped
  <2>3. result \in Results
    BY <2>1, <2>2, PlansTyped
  <2>4. Without(job.may, e) \in Plans /\ Recorded(job.done, e, result) \in Marks
    BY <2>2, <2>3, WithoutTyped, RecordedTyped
  <2>5. JobTyped'
    BY <2>1, <2>4 DEF JobTyped
  <2> QED
    BY <1>2, <2>5 DEF JobRuns, RowsTyped, RequestTyped
<1>3. ASSUME NEW e \in Exports, JobLosesRow(e) PROVE Typed'
  <2>1. Without(job.may, e) \in Plans
    BY WithoutTyped DEF JobTyped
  <2>2. JobTyped'
    BY <1>3, <2>1 DEF JobLosesRow, JobTyped
  <2> QED
    BY <1>3, <2>2 DEF JobLosesRow, RowsTyped, RequestTyped
<1>4. CASE JobCommit
  <2>1. \A e \in Written : job.done[e] \in Results
    BY MarksTyped DEF JobTyped, Written
  <2>2. ASSUME NEW e \in Exports
        PROVE  (IF e \in Written THEN Stamped(export[e], job.at, job.done[e])
                                 ELSE export[e]) \in Export
    BY <2>1, StampedTyped DEF RowsTyped, JobTyped
  <2>3. RowsTyped'
    BY <1>4, <2>2 DEF JobCommit, RowsTyped
  <2>4. JobTyped'
    BY <1>4, IdleTyped DEF JobCommit, JobTyped
  <2>5. RequestTyped'
    BY <1>4 DEF JobCommit, RequestTyped, NoRequest
  <2> QED
    BY <2>3, <2>4, <2>5
<1>5. CASE JobCrash
  BY <1>5, IdleTyped DEF JobCrash, JobTyped, RowsTyped, RequestTyped
<1> QED
  BY <1>1, <1>2, <1>3, <1>4, <1>5 DEF Job

\* A change of a row by a person keeps the types.
LEMMA CommitTyped ==
  ASSUME Typed, NEW u \in Users, NEW e \in Exports, NEW new \in Export,
         Commit(u, e, new)
  PROVE  Typed'
<1>1. RowsTyped'
  BY DEF Typed, Commit, RowsTyped
<1>2. Touch({e}) /\ {e} \in SUBSET Exports
  BY DEF Commit
<1>3. JobTyped' /\ RequestTyped'
  BY <1>2, TouchTyped DEF Typed
<1> QED
  BY <1>1, <1>3 DEF Typed

\* The values a person chooses make a row.
LEMMA EditedTyped ==
  ASSUME NEW r \in Export, NEW enabled \in BOOLEAN, NEW content \in Contents,
         NEW user \in Users
  PROVE  [r EXCEPT !.enabled = enabled, !.content = content, !.run_as = user] \in Export
  BY DEF Export

\* So is a row that lost a column.
LEMMA ContentTyped ==
  ASSUME NEW r \in Export, NEW content \in Contents
  PROVE  /\ [r EXCEPT !.content = content] \in Export
         /\ [r EXCEPT !.content = content].run_as = r.run_as
         /\ [r EXCEPT !.content = content].last_run = r.last_run
         /\ [r EXCEPT !.content = content].enabled = r.enabled
         /\ [r EXCEPT !.content = content].content = content
  BY DEF Export

\* The steps of people keep the types.
LEMMA PeopleStepTyped ==
  ASSUME Typed, People
  PROVE  Typed'
<1>1. ASSUME NEW u \in Users, NEW e \in Exports, RunNow(u, e) PROVE Typed'
  <2>1. PICK result \in Outcomes(export[e], usable) :
          request' = [pc |-> "sent", export |-> e, at |-> now, result |-> result,
                      touched |-> FALSE]
    BY <1>1 DEF RunNow
  <2>2. RequestTyped'
    BY <2>1, OutcomesTyped DEF RequestTyped, Typed, RowsTyped
  <2> QED
    BY <1>1, <2>2 DEF RunNow, Typed, RowsTyped, JobTyped
<1>2. ASSUME NEW u \in Users, NEW e \in Exports, Edit(u, e) PROVE Typed'
  <2>1. PICK enabled \in BOOLEAN, content \in Contents, user \in Users :
          Commit(u, e, [export[e] EXCEPT !.enabled = enabled, !.content = content,
                                         !.run_as = user])
    BY <1>2 DEF Edit
  <2>2. export[e] \in Export
    BY DEF Typed, RowsTyped
  <2> QED
    BY <2>1, <2>2, EditedTyped, CommitTyped
<1>3. ASSUME NEW u \in Users, NEW e \in Exports, RemoveColumn(u, e) PROVE Typed'
  <2>1. PICK content \in Contents : export' = [export EXCEPT ![e].content = content]
    BY <1>3 DEF RemoveColumn
  <2>2. export[e] \in Export
    BY DEF Typed, RowsTyped
  <2>3. RowsTyped'
    BY <1>3, <2>1, <2>2, ContentTyped DEF RemoveColumn, Typed, RowsTyped
  <2> QED
    BY <1>3, <2>3 DEF RemoveColumn, Typed, JobTyped, RequestTyped
<1>4. ASSUME NEW u \in Users, ArchiveUser(u) PROVE Typed'
  BY <1>4 DEF ArchiveUser, Typed, RowsTyped, JobTyped, RequestTyped
<1>5. CASE RunNowCommit
  <2>1. request.export \in Exports /\ request.at \in Times /\ request.result \in Results
    BY <1>5 DEF RunNowCommit, Typed, RequestTyped, NoRequest
  <2>2. RowsTyped'
    BY <1>5, <2>1, StampedTyped DEF RunNowCommit, Typed, RowsTyped
  <2>3. JobTyped'
    BY <1>5, <2>1 DEF RunNowCommit, Typed, JobTyped
  <2> QED
    BY <1>5, <2>2, <2>3 DEF RunNowCommit, Typed, RequestTyped
<1>6. CASE RunNowFails
  BY <1>6 DEF RunNowFails, Typed, RowsTyped, JobTyped, RequestTyped
<1> QED
  BY <1>1, <1>2, <1>3, <1>4, <1>5, <1>6 DEF People

\* Every step keeps the types.
LEMMA StepTyped ==
  ASSUME Typed, [Next]_vars
  PROVE  Typed'
<1>1. CASE UNCHANGED vars
  BY <1>1 DEF vars, Typed, RowsTyped, JobTyped, RequestTyped
<1>2. CASE Tick
  BY <1>2, ConstantsAssumption
  DEF Tick, Typed, RowsTyped, JobTyped, RequestTyped, Times
<1> QED
  BY <1>1, <1>2, JobStepTyped, PeopleStepTyped DEF Next, Finished

\* Whatever is edited, archived, run and lost, every variable stays in its type.
THEOREM TypeCorrect == Spec => []Typed
<1>1. Init => Typed
  BY InitTyped
<1>2. Typed /\ [Next]_vars => Typed'
  BY StepTyped
<1> QED
  BY <1>1, <1>2, PTL DEF Spec

-----------------------------------------------------------------------------
(* Who decides *)

\* A new export is decided by whoever wrote it.
LEMMA InitDecided == Init => DecidedByReader
  BY ConstantsAssumption DEF Init, DecidedByReader, Created

\* A row keeps its user, or was written by one who may act as the new one: the
\* check of the row before the write covers the content, that of the row after it
\* the user.
LEMMA StepDecided ==
  ASSUME Typed, DecidedByReader, [Next]_vars
  PROVE  DecidedByReader'
<1> USE DEF Typed, RowsTyped
<1>1. ASSUME NEW u \in Users, NEW e \in Exports, Edit(u, e) PROVE DecidedByReader'
  <2>1. PICK new : MayWrite(u, export[e], new) /\ Commit(u, e, new)
    BY <1>1 DEF Edit
  <2>2. MayActAs(u, new.run_as)
    BY <2>1 DEF MayWrite
  <2>3. export' = [export EXCEPT ![e] = new]
    BY <2>1 DEF Commit
  <2>4. \/ decided' = [decided EXCEPT ![e] = u]
        \/ decided' = decided /\ new.run_as = export[e].run_as
    BY <2>1 DEF Commit
  <2> QED
    BY <2>2, <2>3, <2>4 DEF DecidedByReader, MayActAs
<1>2. ASSUME NEW u \in Users, NEW e \in Exports, RemoveColumn(u, e) PROVE DecidedByReader'
  <2>1. PICK content \in Contents : export' = [export EXCEPT ![e].content = content]
    BY <1>2 DEF RemoveColumn
  <2>2. export'[e].run_as = export[e].run_as
    BY <2>1, ContentTyped
  <2> QED
    BY <1>2, <2>1, <2>2 DEF RemoveColumn, DecidedByReader, MayActAs
<1>3. CASE RunNowCommit
  <2>1. request.export \in Exports /\ request.at \in Times /\ request.result \in Results
    BY <1>3 DEF RunNowCommit, RequestTyped, NoRequest
  <2>2. \A e \in Exports : export'[e].run_as = export[e].run_as
    BY <1>3, <2>1, StampedTyped DEF RunNowCommit
  <2> QED
    BY <1>3, <2>2 DEF RunNowCommit, DecidedByReader, MayActAs
<1>4. CASE JobCommit
  <2>1. \A e \in Written : job.done[e] \in Results
    BY MarksTyped DEF JobTyped, Written
  <2>2. \A e \in Exports : export'[e].run_as = export[e].run_as
    BY <1>4, <2>1, StampedTyped DEF JobCommit, JobTyped
  <2> QED
    BY <1>4, <2>2 DEF JobCommit, DecidedByReader, MayActAs
<1>5. ASSUME UNCHANGED <<export, decided>> PROVE DecidedByReader'
  BY <1>5 DEF DecidedByReader, MayActAs
<1> QED
  BY <1>1, <1>2, <1>3, <1>4, <1>5
  DEF Next, Job, People, Tick, Finished, vars, JobStart, JobRuns, JobLosesRow,
      JobCrash, RunNow, RunNowFails, ArchiveUser

\* write() asks for the permission before and after: what an export reads was
\* decided last by an administrator or by the user it runs as.
THEOREM DecidedByItsReader == Spec => []DecidedByReader
<1>1. Init => DecidedByReader
  BY InitDecided
<1>2. Typed /\ DecidedByReader /\ [Next]_vars => DecidedByReader'
  BY StepDecided
<1> QED
  BY <1>1, <1>2, TypeCorrect, PTL DEF Spec

-----------------------------------------------------------------------------
(* When it runs *)

Promises == Typed /\ DueStill /\ NoneMissed

\* A row that a person changes is not one the run has written, and is taken out
\* of those it may write; the others are what they were.
LEMMA RowChanged ==
  ASSUME Promises, NEW e \in Exports, ~Locked(e),
         \A d \in Exports \ {e} : export'[d] = export[d],
         job'.pc = job.pc,
         job.pc = "running" => job' = [job EXCEPT !.touched = job.touched \cup {e}]
  PROVE  DueStill' /\ NoneMissed'
<1> SUFFICES ASSUME job.pc = "running"
             PROVE  DueStill' /\ NoneMissed'
  BY DEF DueStill, NoneMissed
<1>1. /\ job'.touched = job.touched \cup {e} /\ job'.may = job.may
      /\ job'.done = job.done /\ job'.at = job.at
  BY DEF Promises, Typed, JobTyped
<1>2. Todo' = Todo /\ Written' = Written
  BY <1>1 DEF Todo, Written
<1>3. Todo \cup Written \subseteq Exports
  BY PlansTyped, MarksTyped DEF Promises, Typed, JobTyped, Todo, Written
<1>4. DueStill'
  BY <1>1, <1>2, <1>3 DEF DueStill, Locked, Promises
<1>5. NoneMissed'
  BY <1>1, <1>2 DEF NoneMissed, Promises
<1> QED
  BY <1>4, <1>5

\* The run keeps its promises: it begins with what is due, and moves each from
\* what is to do to what is done, unless it was changed.
LEMMA JobPromises ==
  ASSUME Promises, Job
  PROVE  DueStill' /\ NoneMissed'
<1> USE DEF Promises
<1>1. CASE JobStart
  <2> DEFINE due == {e \in Exports : export[e].enabled /\ Due(export[e], now)}
             may == [e \in due |-> Outcomes(export[e], usable)]
  <2>1. job' = [NoJob EXCEPT !.pc = "running", !.at = now, !.may = may]
    BY <1>1 DEF JobStart
  <2>2. DOMAIN may = due
    OBVIOUS
  <2> HIDE DEF may
  <2>3. /\ job'.at = now /\ job'.may = may /\ job'.done = <<>> /\ job'.touched = {}
    BY <2>1 DEF NoJob
  <2>4. Todo' = due /\ Written' = {}
    BY <2>2, <2>3 DEF Todo, Written
  <2>5. export' = export
    BY <1>1 DEF JobStart
  <2> QED
    BY <2>3, <2>4, <2>5 DEF DueStill, NoneMissed, Due
<1>2. ASSUME NEW e \in Exports, JobRuns(e) PROVE DueStill' /\ NoneMissed'
  <2>1. PICK result \in job.may[e] :
          job' = [job EXCEPT !.may = Without(@, e), !.done = Recorded(@, e, result)]
    BY <1>2 DEF JobRuns
  <2>2. e \in Todo \ job.touched /\ e \in DOMAIN job.may /\ UNCHANGED export
    BY <1>2 DEF JobRuns, Todo
  <2>3. job.may \in Plans /\ job.done \in Marks
    BY DEF Typed, JobTyped
  <2>4. result \in Results
    BY <2>1, <2>2, <2>3, PlansTyped
  <2>5. /\ job'.pc = job.pc /\ job'.at = job.at /\ job'.touched = job.touched
        /\ job'.may = Without(job.may, e) /\ job'.done = Recorded(job.done, e, result)
    BY <2>1 DEF Typed, JobTyped
  <2>6. /\ DOMAIN Without(job.may, e) = DOMAIN job.may \ {e}
        /\ DOMAIN Recorded(job.done, e, result) = DOMAIN job.done \cup {e}
    BY <2>3, <2>4, WithoutTyped, RecordedTyped
  <2>7. Todo' = Todo \ {e} /\ Written' = Written \cup {e}
    BY <2>5, <2>6 DEF Todo, Written
  <2> QED
    BY <2>2, <2>5, <2>7 DEF DueStill, NoneMissed
<1>3. ASSUME NEW e \in Exports, JobLosesRow(e) PROVE DueStill' /\ NoneMissed'
  <2>1. /\ job'.pc = job.pc /\ job'.at = job.at /\ job'.touched = job.touched
        /\ job'.may = Without(job.may, e) /\ job'.done = job.done
    BY <1>3 DEF JobLosesRow, Typed, JobTyped
  <2>2. Todo' = Todo \ {e} /\ Written' = Written
    BY <2>1, WithoutTyped DEF Todo, Written, Typed, JobTyped
  <2>3. e \in job.touched /\ UNCHANGED export
    BY <1>3 DEF JobLosesRow
  <2> QED
    BY <2>1, <2>2, <2>3 DEF DueStill, NoneMissed
<1>4. CASE JobCommit \/ JobCrash
  BY <1>4 DEF JobCommit, JobCrash, NoJob, DueStill, NoneMissed
<1> QED
  BY <1>1, <1>2, <1>3, <1>4 DEF Job

\* People keep the promises of the run: a row they change, or a run by hand, is
\* out of its hands; a column less makes no difference to when an export is due.
LEMMA PeoplePromises ==
  ASSUME Promises, People
  PROVE  DueStill' /\ NoneMissed'
<1> USE DEF Promises
<1>1. ASSUME NEW u \in Users, NEW e \in Exports, Edit(u, e)
      PROVE  DueStill' /\ NoneMissed'
  <2>1. PICK new : Commit(u, e, new)
    BY <1>1 DEF Edit
  <2>2. ~Locked(e) /\ export' = [export EXCEPT ![e] = new] /\ Touch({e})
    BY <2>1 DEF Commit
  <2>3. /\ job'.pc = job.pc
        /\ job.pc = "running" => job' = [job EXCEPT !.touched = job.touched \cup {e}]
    BY <2>2 DEF Touch, Typed, JobTyped
  <2> QED
    BY <2>2, <2>3, RowChanged DEF Typed, RowsTyped
<1>2. ASSUME NEW u \in Users, NEW e \in Exports, RemoveColumn(u, e)
      PROVE  DueStill' /\ NoneMissed'
  <2>1. PICK content \in Contents :
          /\ content = [export[e].content EXCEPT !.columns = content.columns]
          /\ export' = [export EXCEPT ![e].content = content]
    BY <1>2 DEF RemoveColumn
  <2>2. /\ export'[e].run_as = export[e].run_as
        /\ export'[e].last_run = export[e].last_run
        /\ export'[e].enabled = export[e].enabled
        /\ export'[e].content = content
    BY <2>1, ContentTyped DEF Typed, RowsTyped
  <2>3. /\ content.interval = export[e].content.interval
        /\ content.day = export[e].content.day
        /\ content.hour = export[e].content.hour
    BY <2>1, ConstantsAssumption DEF Typed, RowsTyped, Export
  <2>4. \A d \in Exports \ {e} : export'[d] = export[d]
    BY <2>1 DEF Typed, RowsTyped
  <2>5. ASSUME NEW t
        PROVE  /\ NotYet(export'[e], t) = NotYet(export[e], t)
               /\ Due(export'[e], t) = Due(export[e], t)
    BY <2>2, <2>3 DEF NotYet, Due, InSlot, OnItsDay, Day, Hour
  <2>6. UNCHANGED job
    BY <1>2 DEF RemoveColumn
  <2>7. Todo' = Todo /\ Written' = Written /\ Todo \cup Written \subseteq Exports
    BY <2>6, PlansTyped, MarksTyped DEF Typed, JobTyped, Todo, Written
  <2> QED
    BY <2>2, <2>4, <2>5, <2>6, <2>7 DEF DueStill, NoneMissed
<1>3. CASE RunNowCommit
  <2>1. request.export \in Exports
    BY <1>3 DEF RunNowCommit, Typed, RequestTyped, NoRequest
  <2>2. /\ ~Locked(request.export)
        /\ \A d \in Exports \ {request.export} : export'[d] = export[d]
    BY <1>3, <2>1 DEF RunNowCommit, Typed, RowsTyped
  <2>3. /\ job'.pc = job.pc
        /\ job.pc = "running" =>
             job' = [job EXCEPT !.touched = job.touched \cup {request.export}]
    BY <1>3 DEF RunNowCommit, Typed, JobTyped
  <2> QED
    BY <2>1, <2>2, <2>3, RowChanged
<1>4. ASSUME UNCHANGED <<export, job>> PROVE DueStill' /\ NoneMissed'
  BY <1>4 DEF DueStill, NoneMissed, Todo, Written
<1> QED
  BY <1>1, <1>2, <1>3, <1>4 DEF People, RunNow, RunNowFails, ArchiveUser

\* At no time is the job going to mail what ran that day, nor has it lost sight of
\* what was due when it began.
LEMMA PromisesHold == Spec => []Promises
<1>1. Init => DueStill /\ NoneMissed
  BY DEF Init, NoJob, DueStill, NoneMissed
<1>2. Promises /\ [Next]_vars => DueStill' /\ NoneMissed'
  <2> SUFFICES ASSUME Promises, [Next]_vars PROVE DueStill' /\ NoneMissed'
    OBVIOUS
  <2>1. ASSUME UNCHANGED <<export, job>> PROVE DueStill' /\ NoneMissed'
    BY <2>1 DEF Promises, DueStill, NoneMissed, Todo, Written
  <2> QED
    BY <2>1, JobPromises, PeoplePromises DEF Next, Tick, Finished, vars
<1> QED
  BY <1>1, <1>2, TypeCorrect, PTL DEF Spec, Promises

\* _is_due: no export is mailed by the job twice on a day of its user.
THEOREM OnceADay == Spec => OncePerDay
<1>1. ASSUME Promises, JobCommit, NEW e \in Written, export[e].last_run # Never
      PROVE  Day(export[e], export[e].last_run) < Day(export[e], job.at)
  BY <1>1 DEF Promises, DueStill, JobCommit, NotYet
<1>2. Promises /\ [Next]_vars =>
        [\A e \in Written :
           JobCommit /\ job.done[e] = "success" /\ export[e].last_run # Never =>
             Day(export[e], export[e].last_run) < Day(export[e], job.at)]_vars
  BY <1>1
<1> QED
  BY <1>2, PromisesHold, PTL DEF Spec, OncePerDay

\* The day and the hour are numbers.
LEMMA DayIsInt ==
  ASSUME NEW r \in Export, NEW t \in Int
  PROVE  Day(r, t) \in Int
<1>1. t + Zone[r.run_as] \in Int
  BY ConstantsAssumption DEF Export
<1>2. \A n \in Int, d \in Nat \ {0} : n \div d \in Int
  OBVIOUS
<1> QED
  BY <1>1, <1>2, ConstantsAssumption DEF Day

\* "one broken export never stops the others, and its error is shown": a job that
\* ends has stamped, on its day, every export it met within its slot.
THEOREM SlotsAreStamped == Spec => EverySlotStamped
<1>1. ASSUME Promises, JobCommit, NEW e \in Exports \ job.touched,
             export[e].enabled, InSlot(export[e], job.at)
      PROVE  /\ export'[e].last_run # Never
             /\ Day(export[e], export'[e].last_run) >= Day(export[e], job.at)
  <2>1. /\ export[e] \in Export /\ job.at \in Times /\ job.at \in Int
        /\ job.pc = "running" /\ Todo = {}
    BY <1>1, ConstantsAssumption
    DEF JobCommit, Promises, Typed, RowsTyped, JobTyped, Times
  <2>2. CASE e \in Written
    <3>1. job.done[e] \in Results
      BY <1>1, <2>2, MarksTyped DEF Promises, Typed, JobTyped, Written
    <3>2. export'[e] = Stamped(export[e], job.at, job.done[e])
      BY <1>1, <2>2 DEF JobCommit
    <3>3. export'[e].last_run = job.at
      BY <2>1, <3>1, <3>2, StampedTyped
    <3> QED
      BY <2>1, <3>3, DayIsInt, ConstantsAssumption
  <2>3. CASE e \notin Written
    <3>1. ~NotYet(export[e], job.at)
      BY <1>1, <2>1, <2>3 DEF Promises, NoneMissed, Due
    <3>2. export'[e] = export[e]
      BY <1>1, <2>3 DEF JobCommit
    <3>3. export[e].last_run # Never
      BY <3>1 DEF NotYet
    <3>4. export[e].last_run \in Int
      BY <2>1, <3>3, ConstantsAssumption DEF Export
    <3>5. /\ Day(export[e], export[e].last_run) \in Int
          /\ Day(export[e], job.at) \in Int
      BY <2>1, <3>4, DayIsInt
    <3> QED
      BY <3>1, <3>2, <3>3, <3>5 DEF NotYet
  <2> QED
    BY <2>2, <2>3
<1>2. Promises /\ [Next]_vars =>
        [JobCommit =>
           \A e \in Exports \ job.touched :
             export[e].enabled /\ InSlot(export[e], job.at)
               => export'[e].last_run # Never
                  /\ Day(export[e], export'[e].last_run) >= Day(export[e], job.at)]_vars
  BY <1>1
<1> QED
  BY <1>2, PromisesHold, PTL DEF Spec, EverySlotStamped
=============================================================================
