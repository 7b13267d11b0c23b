------------------------------ MODULE Archiving ------------------------------
(***************************************************************************)
(* auto_archive_stale_records and archive_reason_log on one table: rules   *)
(* archive what nobody touched for long; people archive with a reason that *)
(* is logged, restore and edit.                                            *)
(*                                                                         *)
(* A run of rules and a wizard are transactions on the snapshot taken at   *)
(* their start: a row somebody changed since cannot be written, and that   *)
(* write fails alone, in its savepoint.                                    *)
(***************************************************************************)
EXTENDS Integers, Sequences, FiniteSets

CONSTANTS
  Records,      \* their ids
  Protected,    \* contacts of users and of companies
  Stubborn,     \* records whose archiving a constraint or an override refuses
  Rules,        \* in the order they are applied: a sequence
  Filter,       \* [RuleSet -> SUBSET Records]
  Inactivity,   \* [RuleSet -> Int]: inactivity_days, as stored
  Floor,        \* MIN_INACTIVITY_DAYS
  BatchLimit,
  Reasons,
  NoteMode,     \* [Reasons -> {"optional", "required", "forbidden"}]
  MaxRecords,   \* MAX_RECORDS of the wizard
  NoReason,
  Runners,      \* the nightly job and the Run Now button
  Cron,         \* the job
  MaxDay,       \* bound: the last day of the model
  MaxEdits      \* bound on what people do

VARIABLES
  record,       \* [Records -> Row]
  log,          \* [Records -> Seq(Entry)]: archive.reason.log
  rule,         \* [RuleSet -> [enabled, broken, total]]
  run,          \* [Runners -> Run]
  wizard,
  now,
  credit,       \* history: [RuleSet -> Nat], archivings that were committed
  missed,       \* history: records restored while the log could not be written
  edits

vars == <<record, log, rule, run, wizard, now, credit, missed, edits>>

RuleSet == {Rules[n] : n \in DOMAIN Rules}

Row == [active : BOOLEAN, written : Nat, reason : Reasons \cup {NoReason}]
Entry == [reason : Reasons, open : BOOLEAN]

\* broken: its model is not installed, or its filter cannot be applied
Rule == [enabled : BOOLEAN, broken : BOOLEAN, total : Nat]

Archived(row, reason) ==
  [row EXCEPT !.active = FALSE, !.written = now, !.reason = reason]

-----------------------------------------------------------------------------
(* Transactions *)

NoRun == [pc |-> "idle"]
NoWizard == [pc |-> "idle"]

\* what a commit of somebody else makes of the transactions that are open
SpoilRun(t, rs, rus) ==
  IF t.pc = "idle" THEN t
  ELSE [t EXCEPT !.touched = @ \cup (rs \cap DOMAIN t.seen),
                 !.lost = @ \cup (rus \cap t.todo)]

SpoilWizard(w, rs) ==
  IF w.pc = "idle" THEN w ELSE [w EXCEPT !.touched = @ \cup (rs \cap w.todo)]

Touch(rs, rus) ==
  /\ run' = [p \in Runners |-> SpoilRun(run[p], rs, rus)]
  /\ wizard' = SpoilWizard(wizard, rs)

-----------------------------------------------------------------------------
(* auto_archive_stale_records *)

\* mutant: the age that is stored, whatever it is
EffectiveStored(ru) == Inactivity[ru]

\* _effective_inactivity_days
Effective(ru) == IF Inactivity[ru] < Floor THEN Floor ELSE Inactivity[ru]

\* _target_domain, on the records the run saw and has not archived yet
Targets(ru, t, gone) ==
  {r \in (DOMAIN t.seen \ DOMAIN gone) \ Protected :
     r \in Filter[ru] /\ t.seen[r] < now - Effective(ru)}

\* order='write_date, id'
Before(t, r, s) == t.seen[r] < t.seen[s] \/ (t.seen[r] = t.seen[s] /\ r < s)

\* _target_records: at most BatchLimit, the stalest first
Batch(ru, t, gone) ==
  LET all == Targets(ru, t, gone)
  IN  {r \in all : Cardinality({s \in all : Before(t, s, r)}) < BatchLimit}

\* mutant: the whole batch or nothing
TakenTogether(batch, refused) == IF batch \cap refused = {} THEN batch ELSE {}

\* _run_rule: the batch in one write, or record by record
Taken(batch, refused) == batch \ refused

\* mutant: everything that was selected is counted
CountSelected(batch, done) == Cardinality(batch)

\* what _run_rule adds to archived_count
Count(batch, done) == Cardinality(done)

\* a rule that is broken, or that somebody edited meanwhile, fails alone
Runs(t, ru) == ru \in t.todo \ t.lost /\ ~rule[ru].broken

\* what ru archives and counts after the rules before it, which acc tells
Apply(t, acc, ru) ==
  LET done == Taken(Batch(ru, t, acc.gone), Stubborn \cup t.touched)
  IN  IF ~Runs(t, ru) THEN acc
      ELSE [gone |-> [r \in done \cup DOMAIN acc.gone |->
                        IF r \in done THEN ru ELSE acc.gone[r]],
            total |-> [acc.total EXCEPT
                         ![ru] = @ + Count(Batch(ru, t, acc.gone), done)],
            ran |-> acc.ran \cup {ru}]

NoneYet == [gone |-> <<>>, total |-> [ru \in RuleSet |-> rule[ru].total], ran |-> {}]

\* the run after each of its rules
Progress(t) ==
  LET after[n \in 0..Len(Rules)] ==
        IF n = 0 THEN NoneYet ELSE Apply(t, after[n - 1], Rules[n])
  IN  after

Applied(t) == Progress(t)[Len(Rules)]

RunStart(p, rus) ==
  /\ run[p].pc = "idle" /\ rus # {}
  /\ run' = [run EXCEPT ![p] =
       [pc |-> "running", todo |-> rus, touched |-> {}, lost |-> {},
        seen |-> [r \in {s \in Records : record[s].active} |-> record[r].written]]]
  /\ UNCHANGED <<record, log, rule, wizard, now, credit,
                 missed, edits>>

\* _cron_archive: the enabled rules; action_run_now: this rule
CronStart == RunStart(Cron, {ru \in RuleSet : rule[ru].enabled})
RunNow(ru) == \E p \in Runners \ {Cron} : RunStart(p, {ru})

RunCommit(p) ==
  /\ run[p].pc = "running"
  /\ LET all == Applied(run[p])
         gone == DOMAIN all.gone
     IN  /\ record' = [r \in Records |->
              IF r \in gone THEN Archived(record[r], record[r].reason) ELSE record[r]]
         /\ rule' = [ru \in RuleSet |-> [rule[ru] EXCEPT !.total = all.total[ru]]]
         /\ credit' = [ru \in RuleSet |->
              credit[ru] + Cardinality({r \in gone : all.gone[r] = ru})]
         /\ run' = [q \in Runners |-> IF q = p THEN NoRun
                                      ELSE SpoilRun(run[q], gone, all.ran)]
         /\ wizard' = SpoilWizard(wizard, gone)
  /\ UNCHANGED <<log, now, missed, edits>>

RunCrash(p) ==
  /\ run[p].pc = "running"
  /\ run' = [run EXCEPT ![p] = NoRun]
  /\ UNCHANGED <<record, log, rule, wizard, now, credit,
                 missed, edits>>

-----------------------------------------------------------------------------
(* archive_reason_log *)

\* the checks of action_archive_records on the reason and the explanation
Accepts(reason, explained) ==
  /\ NoteMode[reason] = "required" => explained
  /\ NoteMode[reason] = "forbidden" => ~explained

\* _split_selection
ToArchive(selection) == {r \in selection \ Protected : record[r].active}

WizardStart ==
  /\ wizard.pc = "idle"
  /\ \E selection \in SUBSET Records, reason \in Reasons, explained \in BOOLEAN :
       /\ Accepts(reason, explained)
       /\ ToArchive(selection) # {}
       /\ Cardinality(ToArchive(selection)) <= MaxRecords
       /\ wizard' = [pc |-> "running", todo |-> ToArchive(selection),
                     reason |-> reason, touched |-> {}]
  /\ UNCHANGED <<record, log, rule, run, now, credit,
                 missed, edits>>

\* record, reason, log entry and note, each record in its savepoint; the note
\* may fail alone
WizardCommit ==
  /\ wizard.pc = "running"
  /\ LET done == wizard.todo \ (Stubborn \cup wizard.touched)
     IN  /\ record' = [r \in Records |->
              IF r \in done THEN Archived(record[r], wizard.reason) ELSE record[r]]
         /\ log' = [r \in Records |->
              IF r \in done
              THEN Append(log[r], [reason |-> wizard.reason, open |-> TRUE])
              ELSE log[r]]
         /\ run' = [p \in Runners |-> SpoilRun(run[p], done, {})]
  /\ wizard' = NoWizard
  /\ UNCHANGED <<rule, now, credit, missed, edits>>

\* mutant: only the entries of records that still carry a reason are closed
ClosedWhereFlagged(r, entries) ==
  IF record[r].reason = NoReason THEN entries
  ELSE [i \in DOMAIN entries |-> [entries[i] EXCEPT !.open = FALSE]]

\* _mark_restored
Closed(r, entries) == [i \in DOMAIN entries |-> [entries[i] EXCEPT !.open = FALSE]]

-----------------------------------------------------------------------------
(* People *)

Editing == edits < MaxEdits /\ edits' = edits + 1

\* write({'active': True}) and its bookkeeping, which a failure of the database
\* undoes alone
Restore(r) ==
  /\ Editing
  /\ \E kept \in BOOLEAN :
       /\ record' = [record EXCEPT ![r].active = TRUE, ![r].written = now,
                       ![r].reason = IF kept THEN NoReason ELSE @]
       /\ log' = IF kept THEN [log EXCEPT ![r] = Closed(r, @)] ELSE log
       /\ missed' = IF kept THEN missed \ {r} ELSE missed \cup {r}
  /\ Touch({r}, {})
  /\ UNCHANGED <<rule, now, credit>>

\* archived from its own form
ArchiveByHand(r) ==
  /\ Editing /\ record[r].active /\ r \notin Stubborn
  /\ record' = [record EXCEPT ![r] = Archived(@, @.reason)]
  /\ Touch({r}, {})
  /\ UNCHANGED <<log, rule, now, credit, missed>>

\* the record is edited; an import may clear its reason
EditRecord(r) ==
  /\ Editing
  /\ \E reason \in {record[r].reason, NoReason} :
       record' = [record EXCEPT ![r].written = now, ![r].reason = reason]
  /\ Touch({r}, {})
  /\ UNCHANGED <<log, rule, now, credit, missed>>

\* a rule is enabled or disabled; its model goes away, or comes back
EditRule(ru) ==
  /\ Editing
  /\ rule' = [rule EXCEPT ![ru].enabled = ~@]
  /\ Touch({}, {ru})
  /\ UNCHANGED <<record, log, now, credit, missed>>

Uninstall(ru) ==
  /\ Editing
  /\ rule' = [rule EXCEPT ![ru].broken = ~@]
  /\ UNCHANGED <<record, log, run, wizard, now, credit, missed>>

Tick ==
  /\ now < MaxDay
  /\ now' = now + 1
  /\ UNCHANGED <<record, log, rule, run, wizard, credit,
                 missed, edits>>

Init ==
  /\ record = [r \in Records |-> [active |-> TRUE, written |-> 0, reason |-> NoReason]]
  /\ log = [r \in Records |-> <<>>]
  /\ rule = [ru \in RuleSet |-> [enabled |-> FALSE, broken |-> FALSE, total |-> 0]]
  /\ run = [p \in Runners |-> NoRun]
  /\ wizard = NoWizard
  /\ now = 0
  /\ credit = [ru \in RuleSet |-> 0]
  /\ missed = {}
  /\ edits = 0

Automatic ==
  \/ CronStart
  \/ \E ru \in RuleSet : RunNow(ru)
  \/ \E p \in Runners : RunCommit(p) \/ RunCrash(p)

People ==
  \/ WizardStart \/ WizardCommit
  \/ \E r \in Records : Restore(r) \/ ArchiveByHand(r) \/ EditRecord(r)
  \/ \E ru \in RuleSet : EditRule(ru) \/ Uninstall(ru)

Next == Automatic \/ People \/ Tick

Spec == Init /\ [][Next]_vars

-----------------------------------------------------------------------------
(* Properties *)

Open(r) == {i \in DOMAIN log[r] : log[r][i].open}

\* "The log - not the column above - is the source of truth": unless a restore
\* failed to write it, an entry is open only while its record is archived, and a
\* record has one at most, whoever archives, restores or clears reasons meanwhile.
LogTells ==
  \A r \in Records \ missed :
    Cardinality(Open(r)) <= 1 /\ (Open(r) # {} => ~record[r].active)

\* "nothing younger than this many days is ever archived", "this is the guard
\* that survives a mistyped 0": what a run archives was, when it commits, last
\* written before the floor, and is nobody's contact.
OldOnly ==
  \A p \in Runners : RunCommit(p) =>
    \A r \in Records : record[r].active /\ ~record'[r].active =>
      r \notin Protected /\ record[r].written + Floor < now

\* "a record blocked by a constraint [...] is logged and skipped, it never aborts
\* the rest of the run": a committed run leaves active no record of the first
\* batch of a rule it applied, but those that refuse or were written meanwhile.
SkipsOnlyRefused ==
  \A p \in Runners : RunCommit(p) =>
    \A ru \in RuleSet : Runs(run[p], ru) =>
      \A r \in Batch(ru, run[p], <<>>) \ (Stubborn \cup run[p].touched) :
        ~record'[r].active

\* _run_rule: the total of a rule is what it archived, however many runs race,
\* fail or skip.
CountTells == \A ru \in RuleSet : rule[ru].total = credit[ru]

-----------------------------------------------------------------------------
(* The inductive invariant *)

Proper ==
  /\ IsFiniteSet(Records) /\ Rules \in Seq(RuleSet) /\ Cron \in Runners
  /\ Floor \in Nat /\ BatchLimit \in Nat /\ Inactivity \in [RuleSet -> Int]

Typed ==
  /\ now \in Nat /\ record \in [Records -> Row] /\ log \in [Records -> Seq(Entry)]
  /\ run = [p \in Runners |-> run[p]]
  /\ rule \in [RuleSet -> Rule]

\* what a run saw of a record that nobody wrote since is what the record holds
RunHolds(p) ==
  run[p].pc # "idle" =>
    /\ run[p] = [pc |-> "running", todo |-> run[p].todo, touched |-> run[p].touched,
                 lost |-> run[p].lost, seen |-> run[p].seen]
    /\ DOMAIN run[p].seen \subseteq Records
    /\ \A r \in DOMAIN run[p].seen \ run[p].touched :
         record[r].active /\ record[r].written = run[p].seen[r]

\* what the wizard is about to archive is active, unless somebody wrote it since
WizardHolds ==
  wizard.pc # "idle" =>
    /\ wizard = [pc |-> "running", todo |-> wizard.todo, reason |-> wizard.reason,
                 touched |-> wizard.touched]
    /\ wizard.reason \in Reasons /\ wizard.todo \subseteq Records
    /\ \A r \in wizard.todo \ wizard.touched : record[r].active

\* LogTells without the size: two entries that are open are one
LogHolds ==
  \A r \in Records \ missed :
    /\ \A i \in Open(r) : \A j \in Open(r) : i = j
    /\ Open(r) # {} => ~record[r].active

\* what a run has archived after its first n rules, and counted
Exact(t, acc, n) ==
  /\ DOMAIN acc.gone \subseteq DOMAIN t.seen \ (Protected \cup Stubborn \cup t.touched)
  /\ \A r \in DOMAIN acc.gone : \E ru \in RuleSet : t.seen[r] < now - Effective(ru)
  /\ \A m \in 1..n : Runs(t, Rules[m]) =>
       Batch(Rules[m], t, <<>>) \ (Stubborn \cup t.touched) \subseteq DOMAIN acc.gone
  /\ acc.total \in [RuleSet -> Nat]
  /\ \A ru \in RuleSet :
       acc.total[ru] = rule[ru].total + Cardinality({r \in DOMAIN acc.gone : acc.gone[r] = ru})

IInv == Typed /\ (\A p \in Runners : RunHolds(p)) /\ WizardHolds /\ LogHolds /\ CountTells
=============================================================================
