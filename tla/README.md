# Models and proofs for odoo-apps

The repository is a collection of 59 independent add-ons for Odoo 14. This
directory holds TLA+ models of the add-ons that do something over time, the TLC
runs that check them on small instances, and TLAPS proofs for every instance.

- [The system](#the-system) — what the parts are and what makes them hard
- [Modules](#modules) — which module models what, and how it corresponds to the code
- [Runs](#runs) — what is checked, with which bounds and why they are enough
- [Proofs](#proofs) — what is proved, from what and along which argument
- [What the code does not keep](#what-the-code-does-not-keep)
- [What is not modelled](#what-is-not-modelled), and the [plan](#plan)

To repeat: `tlc -workers 2 -config LoginLockout.cfg MCLoginLockout` (each
configuration names its module in `PROJECT.json`) and `tlapm
UserLifecycle_proofs.tla`.

## The system

Every add-on is a set of overrides and models inside one Odoo server. They share
the database, the scheduler (`ir.cron`), the mail queue (`mail.mail`) and the
parameters (`ir.config_parameter`), and interact through these and through the
overrides of the same method, which run one inside the other.

What all of them stand on is the same, and is in no add-on:

* A request or a scheduled job is one transaction on a snapshot (REPEATABLE
  READ). Its writes lock their rows until it ends. Writing a row that somebody
  changed since the snapshot fails; a web request is then retried on a fresh
  snapshot, a job is not.
* `cr.savepoint()` confines a failed statement. An exception that is caught
  without a savepoint leaves the transaction aborted: whatever else it does, its
  commit keeps nothing.
* The server may stop at any time, a job may run longer than its limit. What was
  not committed is gone; what has left by SMTP has left.
* Two workers run requests and jobs at once; a job runs on one worker at a time.
* A missing parameter has a default, and any parameter may be edited by hand, past
  the checks of the settings screen.

### Components

Those with behaviour over time, by subsystem:

| Add-on | State | Operations | What is hard | What makes it correct |
|---|---|---|---|---|
| `auth_login_lockout` | `auth.login.attempt` rows; parameters | guard, record, alert, release, purge, settings | guard and record are separate transactions; rows refused are in the table the lockout is computed from; batched purge | bounded overshoot and alerts; refusals never extend; purge never locks; lockouts end |
| `crm_lead_round_robin` | `rr_last_member_id` of the team, the leads | `create()`, hourly run | pointer shared by requests and run; buckets with different members; savepoints and re-raised conflicts | fair shares; never reassigns; companies respected |
| `auto_deactivate_dormant_users` | flag and date of `res.users`; parameters | nightly run, `write()`, settings | edits and logins while it runs; mail in the same transaction | minimum period; edits win; archives survive the mail |
| `user_access_expiry` | end date, flag and date of `res.users` | nightly run, `write()` | the same users as above; two calendars | as above; re-activation lasts |
| `password_expiry_policy` | `password_write_date` | guard on every request, change, settings | every way to a new password has to stamp, and nothing else may | the age is that of the password |
| `keep_sent_email_history`, `failed_mail_bulk_retry`, `failed_mail_alert`, `mail_outgoing_auto_bcc`, `activity_summary_digest`, `mail_template_usage_report` | `mail.mail` rows, stamps, counters | `create()`, `write()`, `_send`, queue, wizard, purge, watchdog | send before commit; wizards, queue and purge on the same rows; stamps read and written | no mail delivered twice without a fault; credentials never kept; pending mails never purged; alerts limited |
| `scheduled_filter_export` | export, `last_run`, `last_error` | due test, hourly job, run by hand, `write()` | late scheduler; mail before the stamp; who may decide what is read as whom | once a day; every slot stamped; decided by who may read |
| `auto_archive_stale_records`, `archive_reason_log`, `archive_audit_trail` | `active` of any record; rules; reasons; notes | daily run in batches, wizard, `write()` | fallback from bulk to single; bookkeeping that may be swallowed | log and record agree; the rule makes progress |
| `cron_execution_history`, `cron_watchdog_alert` | history rows, stamp | overrides of `ir.cron`, page loads | own cursors; error handed over; job and pages at once | each execution has its row; alerts limited |
| `config_change_audit`, `data_export_audit_log`, `ir_logging_viewer` | audit rows | overrides, callback of the commit, purge | the audit's settings are what it audits; counts on a cursor that is rolled back; purge by id | the trail tells what is; the log adds up to what left |
| `orphan_attachment_cleaner`, `duplicate_attachment_cleaner`, `attachment_link_checker`, `attachment_bulk_download`, `external_id_manager`, `duplicate_contact_finder`, `attachment_upload_guard` | attachments, identifiers, the lines of a scan | scan, list, clean-up, download | acts on an old scan; batches, caps and limits; names that clash | nothing in use is deleted; a copy remains; numbers add up; lists and searches agree |
| `mass_field_update`, `record_owner_bulk_reassign`, `bulk_tag_manager`, `mass_schedule_activity`, `activity_bulk_reassign`, `followers_bulk_manage`, `partner_bank_change_alert`, `mail_blacklist_bulk_import` | the records of a selection | one wizard each | preview and write apart; one record of several fails | counts tell what happened; the others are written |
| `menu_access_visibility`, `field_rules_by_group`, `default_value_manager`, `field_help_editor`, `global_default_saved_filter`, `user_permission_diff`, `mail_autofollow_optout`, `database_neutralize_toggle` | groups of menus, rules, defaults, labels, filters, switches | wizards, overrides, caches | cached rules; what is remembered to restore; a dialog that has grown old | the cache follows the rules; restore gives back what was there; a copy only adds |
| `record_rule_tester`, `sequence_gap_report` | the results on a screen | run, scan, reset | caps at their limit; rules that are combined; numbers at the border of a series | a blame is exact; a count without a flag is exact; gaps are all the gaps |

The others are reports (views, SQL queries, scans that show a screen), checks of
one call (`sale_below_cost_warning`, `sale_duplicate_ref_warning`,
`partner_private_address_type`) or pure I/O. `PROJECT.json` lists all of them,
one by one, with the reason.

## Modules

| Module | Of | Extends |
|---|---|---|
| `LoginLockout` | `auth_login_lockout` | |
| `LoginLockout_proofs` | theorems about it | `LoginLockout` |
| `LeadRoundRobin` | `crm_lead_round_robin` | |
| `LeadRoundRobin_proofs` | theorems about it | `LeadRoundRobin` |
| `UserLifecycle` | `auto_deactivate_dormant_users` and `user_access_expiry` together | |
| `UserReactivation` | a history variable over its small instances | `MCUserLifecycle` |
| `UserLifecycle_proofs` | theorems about it | `UserLifecycle` |
| `Mailbox` | the promise of a mail queue, abstract | |
| `MailQueue` | `failed_mail_bulk_retry` and `keep_sent_email_history` on the queue of the core | (instantiates `Mailbox`) |
| `MailQueue_proofs` | theorems about it | `MailQueue` |
| `ScheduledExport` | `scheduled_filter_export`, with theorems about it | |
| `Archiving` | `auto_archive_stale_records` and `archive_reason_log` together | |
| `DuplicateCleaner`, `OrphanCleaner`, `LinkChecker`, `BulkDownload` | the four add-ons on attachments | |
| `ContactFinder`, `ExternalIds`, `DefaultValues` | `duplicate_contact_finder`, `external_id_manager`, `default_value_manager` | |
| `MassFieldUpdate`, `BulkTags`, `OwnerReassign`, `BlacklistImport` | the four bulk wizards | |
| `MenuVisibility` | `menu_access_visibility`, with lemmas about it | |
| `FailedMailAlert`, `CronWatchdog`, `CronHistory` | `failed_mail_alert`, `cron_watchdog_alert`, `cron_execution_history` | |
| `FieldRules`, `PasswordExpiry`, `GlobalFilter`, `PermissionDiff` | `field_rules_by_group`, `password_expiry_policy`, `global_default_saved_filter`, `user_permission_diff` | |
| `ConfigAudit`, `ExportAudit` | `config_change_audit`, `data_export_audit_log` | |
| `FieldHelp`, `Neutralize` | `field_help_editor`, `database_neutralize_toggle` | |
| `RuleTester`, `SequenceGaps` | `record_rule_tester`, `sequence_gap_report` | |
| `AddOns` | the modules from `Archiving` on side by side, one of them in each behaviour | (instantiates them) |
| `Administration_proofs`, `Cleanup_proofs` | theorems about them: those of the run `administration` and of the run `cleanup` | `AddOns` |
| `MCAddOns` | instances of all of them | `AddOns` |
| `MC...` | the other instances | the module they name |

### LoginLockout

`param` is what `ir.config_parameter` holds, `row` the committed rows of
`auth.login.attempt`, `worker` what each request is doing. A request is `Pass`,
`GuardFails` or `Refuse` (`_lockout_guard`), then `WrongPassword`,
`RightPassword` or `LoginError` (the core check and what `_lockout_record`
computes from its snapshot), then `RecordCommit` or `RecordFails`; a refused one
is `RefuseCommit` or `RefuseRollback`. `Refuse` and `WrongPassword` read the
table, the commit after them inserts: what the others commit in between is not
seen, which is what the overshoot comes from.

Time is relative. A row holds its age, which stops at `MaxAge`, beyond every
window and every retention; `Tick` ages all rows, those not yet committed too,
because `create_date` is the start of the transaction. A streak (`Streak`) is the
set of failures within the window, after the last success, not released; the code
computes when it ends, the model asks whether it is running.

`alerts` and `unchecked` are history: alerts since the lockout of a login began,
and attempts that met no working guard. `MaxUnchecked` and the number of `Slots`
are bounds: nothing is recorded while the table is full.

### LeadRoundRobin

`pointer` is `rr_last_member_id`. A creation (`CreatePlanned`, `CreateGiven`)
reads and writes it in one action, because the write follows the read at once,
waits for whoever holds the row and is retried on a fresh snapshot if the row
changed; it holds the row (`Holds`) until `CreateCommit` or `CreateRollback`.
A plan that ends on the member it began after writes the value that is there,
which is not counted on to lock anything (`Moved`).

The run takes its snapshot in `RunStart` (leads, pointers, rosters), handles a
team in `RunTeam` with its share of the batch, bucket after bucket in the order
of their first leads, or loses it in its savepoint (`RunSkip`), and ends in
`RunCommit` or `RunAbort`. `teams_changed` and `leads_changed` are what others
committed since the snapshot, which it cannot write. People change the
salesperson, lose the lead and change the roster at any time.

`turns` is history: how many more leads a member got than the member of the team
served least, since the roster last changed; it counts to two, which is one more
than `FairShare` allows. A list of values (`vals_list`) is modelled as leads of one
team and company: the code groups by these and plans each group by itself.

### UserLifecycle and UserReactivation

`user` is the committed rows; `seen` the days since the last login (or the
creation), `date` the days until `access_expiry_date`. Each of the two runs takes its
candidates in `RunStart`, writes them one by one (`Archive`, `ArchiveFails`),
then its notice (`Notified`, `DormancyNoticeFails`, `ExpiryNoticeFails`), and ends
in `RunCommit` or `RunCrash`. `done` are the rows it has locked, `touched` the rows
it still has to do that others changed: it cannot write these, and the error
stays in the savepoint of that user. `Reactivate` is `write()` of both add-ons on
top of each other: the flags go, and the date if it has passed on the writer's day,
which is that of the run plus `zone`. A login writes no row of `res.users` and
stops nobody; `logins` remembers those the dormancy run could not see.

`UserReactivation` adds `back`, the days since a user archived by a run came back.

### Mailbox and MailQueue

`Mailbox` knows which mails are done with, how often each was delivered and how many of
these deliveries nobody remembers. A mail that is done with is delivered no more,
unless its delivery is forgotten.

`MailQueue` has the rows (`mail`), the parameters of the history (`param`), what each
screen was opened on and lists (`screen`), and what its `request` is doing. Opening and
refreshing a screen read and are one action. A retry or a cancellation is a
transaction: `RetrySelected`, `RetrySince` or `CancelSelected` takes the snapshot and
what of it is still failed (`Eligible`); then the bulk write (`BulkRequeue`), or its
failure and single writes (`BulkFails`, `WriteOne`, `SkipOne`); then up to `MAX_SEND_NOW`
sends, each taken, refused, or raised in its savepoint (`SendTaken`, `SendRefused`,
`SendRaises`, `SendForgotten`); then the reload of the list and the commit (`RequestEnds`).
`row` is what the request has written, and locks; `touched` what it meant to write and
others changed; `smtp` what the mail server has taken for it. The reload deletes and
inserts lines that refer to mails; where one of these was removed since the snapshot the
database refuses it (`Clash`), the request is rolled back and made again
(`RequestClashes`). A crash rolls back too.

The queue commits mail by mail and, like the buttons and the purge, is one action
on a row nobody holds. Both add-ons meet in these rows: the history decides which mails
are removed once sent (`AskedToDelete`), which is what makes lists go stale, and the
retry renews the write date the purge goes by.

`delivered`, `lost` and `undone` are history: deliveries, those a fault made forgotten
(at most `MaxLost`), and those a replayed request made forgotten. A mail is done with
when its row is sent or removed or a request that has not ended has delivered it; with
`forgotten` the sum of the two, every step of `MailQueue` is a step of `Mailbox`
(`IsMailbox`). A delivery that only one of several recipients took, while another was
refused, counts as forgotten: the row says failed.

### ScheduledExport

`export` is the committed row with its last run, `decided` who wrote last what it reads,
`job` and `request` what the hourly job and a run by hand hold. `JobStart` takes the snapshot
and runs every export that is due (`Due`: the hour, the day of the week or the month, the
last run, all in the time zone of the user it runs as); each leaves with rows, empty, failed, or failed
and unrecorded because somebody wrote the row meanwhile (`JobRuns`, `JobLosesRow`); `JobCommit`
writes the stamps and lets the mails go, `JobCrash` neither. A run by hand sends its mail (`RunNow`)
before it commits (`RunNowCommit`) or fails (`RunNowFails`). `Commit` is `write()`: the permission is asked of the row before and of the
row after (`MayWrite`).

### Archiving

The rows of one table (`record`: active, reason, last written), the `log` of reasons, the rules with
their totals. A run of rules is a transaction of the job or a button: the batch of a rule is
the oldest `BatchLimit` rows that match, written at once, or one by one where one refuses. The
wizard archives with a reason; `write()` of both add-ons closes the entry on
restore, in a savepoint of its own, which may fail (`missed`). `credit` is
history: what each rule archived.

### DuplicateCleaner, OrphanCleaner, LinkChecker, BulkDownload

Each has a scan that lists and a clean-up (or a build) that comes later and looks again, and between the
two anybody edits, deletes and moves attachments, uninstalls modules and installs them again, or loses and restores files.
A clean-up is a transaction on a snapshot in `DuplicateCleaner`, where two of them may run at once, and in `LinkChecker`,
where it looks at the disk row by row (`LookAgain`) and deletes afterwards (`DeleteCommit`): the rows are those of its
snapshot, the disk is that of the moment, for the scan too, which walks in batches. `delete.missed` is history: the
files that were missing at some time since the button was pressed. In `OrphanCleaner` and `BulkDownload` it is one
action. `moved` and `returned` of `OrphanCleaner` are history: what was edited since the scan, and whether the model came back.
`BulkDownload` numbers names until they are free, on names that are a stem, a case and a list of
numbers, which is what two different names can have in common.

### ContactFinder, ExternalIds, DefaultValues

Lists that are computed: groups of contacts under two caps, the badge of an external identifier,
the status of a default. The same answer is computed in two ways in the code (by line and
by search), and both are here. `Delete...` are transactions on a snapshot.

### MassFieldUpdate, BulkTags, OwnerReassign, BlacklistImport

The dialogs with every early return, and Apply as a transaction on a snapshot that ends in
`ApplyCommit` with the counts it reports. In `MassFieldUpdate` and `OwnerReassign` a row somebody
else wrote makes the request start again; in `BulkTags` it is one more failed record. A run of tags
keeps the names of its snapshot: a rename (`RenameTag`) writes no record it could collide with.
`Hidden`, `Denied` and `Refusing` are the records the user does not see, may not write, and those
a constraint refuses.

### MenuVisibility

`groups` is committed, `cache` what each worker answers from, `signalled` what it has still to
drop. `Admits`, `BlockedBy` and `Why` are the explanations of the preview; `shown` is what the preview that has just
ended says of every menu.

### FailedMailAlert, CronWatchdog, CronHistory

A check reads the stamp, warns, and writes the stamp in a transaction that may fail; a job and a
person, or a job and page loads, do it at once. A warning goes to the mail server at once, which may refuse it: both
add-ons only log that, and write the stamp. `handed` of `FailedMailAlert` is history: the warnings handed over and whether they left;
so is `kept` of `CronWatchdog`: when an alert that names an action left of a check that was then committed. `CronWatchdog`
has the row locks of the scheduler and the savepoint of a page load. `CronHistory` has the three
overrides around a run, the error one hands to the next, and the cursor of its own that writes the row; `owed` is
history: the rows it should hold.

### FieldRules, PasswordExpiry, GlobalFilter, PermissionDiff

Who may do what. `FieldRules` has the rules, a cache of the active ones in each worker, and requests that
answer from the cache or fill it from their snapshot; a `Change` is committed before its `Signal`, and a request that it
overtakes is `late`. `PasswordExpiry` has the policy as stored and the stamp of each user; `changed` is history: when a
new password was stored. Each way to a password (`ChangeForm`, `ChangePassword`, `WritePassword`) says whether it
stores one. `GlobalFilter` writes from the snapshot of a request, and fails on a row another wrote since;
`Demoted` is what `_unset_sibling_global_defaults` unflags, and `flagged` what the last write made the default.
In `PermissionDiff` the comparison (`screen`), the confirmation (`dialog`) and the transaction of Grant (`copy`) are each
older than the next; what is granted is computed on the snapshot of the last.

### ConfigAudit, ExportAudit

Logs that are written in the transaction they log. In `ConfigAudit` the settings are keys of `param` like any
other, read after the change from its own snapshot; a transaction locks the keys it changes. `told` is history: whether the row of the last change
of a key is there, was skipped, was lost in its savepoint or was cut off by the ceiling of the purge. In `ExportAudit` each
transaction has its cursor: the counts (`pending`), whether the callback is registered (`hook`), the rows it has
inserted. `Precommit` runs the callback, `FlushEarly` is a savepoint that runs it in the middle; `Again` is a
rollback and repetition on the same cursor, which forgets the callback and keeps the counts.

### FieldHelp, Neutralize

What is remembered to be given back. `FieldHelp` has what modules ship (`source`), the translations over it and
the customizations (`row`) with the originals they remember; `own` is history: what each field showed, in each language, when nobody had
customized it, and what modules and language packs brought since. `Neutralize` has the flags, the two parameters, and saves as
transactions: `Written` are the rows a save writes, `stale` says that one of them, or the parameters, changed since. `was`
is history: the flags when the switch went on. The uninstall hook restores in the same way.

### RuleTester, SequenceGaps

Screens that answer a question about what is there. A rule of `RuleTester` is the set of records its domain
matches; how rules are combined and which of them the core blames is external. `Results` are what `action_run` puts on the screen,
`Raises` the two searches nothing catches. In `SequenceGaps` a value is a prefix, a number and a width; `Holes` are
between neighbours of a series, `Gaps` those that are not too wide.

## Runs

| Run | States | Shows |
|---|---|---|
| `login_lockout` | 843 000 | `OvershootBounded`, `AlertsBounded`, `RefusalNeverExtends`, `PurgeNeverLocks` |
| `login_lockout_live` | | `LockoutLifts` |
| `lead_round_robin` | 1 650 000 | `FairShare`, `NeverReassigned`, `OnlyAllowed` |
| `user_lifecycle` | 1 100 000 | `FlagsTell`, `NeverAgainstEdit`, `MinimumKept`, `NoticeKeepsArchives` |
| `mail_retry` | 1 670 000 | `DeliveredOnce`, `OnlyFailedSelected`, `IsMailbox` |
| `mail_history` | 913 000 | `CredentialsLeave`, `PurgeSpares` |
| `scheduled_export` | 634 000 | `DecidedByReader`, `OncePerDay`, `EverySlotStamped` |
| `cleanup` | 1 692 000 | `RunExact` (archiving), `LogTells` (archiving, exports), `OneCopyKept`, `OnlyDeadGo`, `ArchiveSound` (attachments), `LargestFirst` (contacts), `NumbersAddUp` (links, archiving, numbers), `ListsAgree` (identifiers, defaults), `OnlyMeantGo` (identifiers, defaults, exports) |
| `administration` | 3 167 000 | `ReportTells` (fields, blacklist), `OthersKept` (tags, permissions, labels, switch), `HandsOver` (owners, permissions), `TakesEffect` (menus, field rules, passwords, filters), `ScreensTell` (menus, rules, forms), `HistoryTells` (jobs, parameters), `QuietMeansWarned`, `AlertsAreDue` (watchdogs) |
| `mail_replay`, `user_notice`, `user_reactivation_dormant` | | each refutes one sentence of a comment or a README, see below |

`cleanup` and `administration` check many components that have nothing to do with each other: in `AddOns` each behaviour belongs to
one of them (`part`, chosen by the first state), and they share the variables `s1` to `s10`. Each component has one constant, a record of the
values of the constants of its module, and `Parts` says which of them a run is about. A property
says what it says of one part and nothing of the others. Where it is made of two or three
statements, of one part or of several, each of them is stated and commented in the module of its
component.

**Bounds.** *Login:* two workers are what overlapping guards need; three slots hold a
streak of two and one row more (a success, a refusal or the failure that
overshoots); three policies differ in threshold, window and retention, one keeps
rows for less than its lockouts last and one is switched off; one attempt may pass
unchecked. The liveness run has two slots and no symmetry. *Leads:* three members,
of whom one is not allowed in the company, two leads created singly or together by one
session, with the run and the people beside it; three rosters, one of a team that does not
rotate. *Users:* two users, so that
each run may hold one of them, both with the same start; three days of
age, dates of today and tomorrow, two edits, which is what a re-activation after
an edit, or one edit in each run, takes. *Mails:* `mail_retry` has two screens and two
mails, one to be written by both and one to be removed under a list; a batch of one so
that opening on a selection and retrying since a day meet their cap, one send per
request so that the second mail of a request is left to the queue, and one fault.
`mail_history` has one screen, three contents, a history that is on with the default
retention of a day or off with a negative one, and ages up to two days, one more than
the retention; nobody deletes mails by hand there (`Manual`), so that whatever goes was
removed by the add-ons or the queue.
*Exports:* two exports of which one is an administrator's, a
manager in the zone before and an administrator who reads one more field, days of two hours in two months, one edit:
a last day, a late job, a job that meets the next day. *Clean-ups:* two to four rows, so that a batch,
a cap or a limit of one or two falls before, at and behind the last one; one to
three edits beside the scan and its clean-up. In the part of the contacts the keys of the first
contact are fixed, as any other key would only rename it. *Wizards:* three or four records, of which one is hidden, one denied and
one refuses; two requests of the same dialog; four names, or entries, of which two are one. *Menus:* a chain of three and two
workers. *Watchdogs:* two checks, a clock of two to four hours, a day of one to three.
*Parameters:* the three settings and a secret, two values of which one switches off, keeps for ever or matches nothing, two
transactions, a purge that may take one row. *Exports logged:* two transactions of two chunks, a retention of
nothing, one day, or a value that is none. *Permissions:* two users of whom one is protected, a chain of
implications of two and a group that excludes it, a table of one line. *Rules:* four records of which one is hidden by something else,
two rules that are global, of a group or broken, a cap of two. *Field rules:* two workers, two rules that meet on a field, a user, an administrator and the superuser.
*Passwords:* a shortest period of two days, a longest of four, a parameter below, within, above and beyond reading. *Filters:* two
filters and two requests, three changes: two flaggings and an edit between. *Labels:* one field, two languages, three texts, three edits:
a customization, something beside it, and a reset. *Switch:* two records and a job, two saves and three edits. *Numbers:* series
with a hole of one, of a few and too wide, at the cap and above.

**Fairness.** Only `login_lockout_live` assumes any, and only that time passes
(`WF_vars(Tick)`): no request, no administrator and no purge is obliged to do
anything. `LockoutLifts` holds because a refusal adds nothing that counts.
It says that the login is open again and again, not that its owner gets through
before the next guesser.

`CHECK_DEADLOCK` is off in `cleanup` and `administration`, whose edits are bounded: a dialog that was used up and a clock that has stopped
leave nothing to do. It is on everywhere else: time or people can always act.

Every property of a passing run has a mutant in `PROJECT.json`, a variant of
one definition such as a plausible bug would make it, under which TLC finds the property
violated. Those definitions stand in the modules next to the ones they vary, marked
`mutant`. Those of the second statement of a property are there too, without a row in `PROJECT.json`.

## Proofs

All theorems hold for any finite or infinite constants that satisfy the assumptions stated in
the modules: `SetsAssumption` and `PolicyAssumption` (every policy in use, as
`Config` reads it, allows at most `Threshold` failures and has a window of at
least `ShortestWindow`; a retention is at most one shorter) and
`ConstantsAssumption` of `UserLifecycle`, of `MailQueue`, of `ScheduledExport` and of
`LeadRoundRobin` (whose members, teams and leads are finite sets). `AddOnsAssumption` is what the components of `AddOns` say of their constants, each
in its module (`Proper`): numbers are numbers, sets that are counted or searched are finite, the values a caller may name are among those there are,
no menu is below itself.

With them every property that a passing run checks is proved for all constants, but for the one that is about what happens in the end.

**LoginLockout_proofs.** `TypeCorrect` first. `OvershootIsBounded` needs more than
its statement: `PendingOwned` (a failure about to be committed belongs to the
login its worker is at) and, for each login, that the streak plus the requests in
flight stays below the bound, or the login is locked and no new request passes
the guard. A lemma for each change of the table says what it does to the size of a streak:
inserting adds at most one, releasing, purging failures and time add none
(`InsertCounts`, `ReleaseCounts`, `PurgeCounts`, `TickCounts`); the purge of a success
cannot add because the failures it cleared are older and beyond `ShortestWindow`
with it. `AlertsAreBounded` is the same argument with the alerts in the place of the streak.
Two theorems are about single steps, and need no more than the types and `PendingOwned`. `RefusalsDoNotExtend`: a refused row is no failure, and a
roll back leaves the table. `PurgesDoNotLock`: each batch takes the oldest rows, so that a success goes after the failures it cleared
(those of the same instant excepted), and what is left of a streak was counted before.

**UserLifecycle_proofs.** The invariant `IInv` adds to the types and `FlagsTell` what
makes both inductive: whatever is within the `Reach` of a run (rows it has
written, and rows it has still to write that nobody changed) is active and
`Warranted`, which is what the run looked for. Each edit of a person either
waits for the lock or takes the row out of the reach of both runs (`EditStep`,
`TouchedRun`); a login is remembered; a day more keeps it true. A commit then archives
active users without a flag (`CommitKeeps`), and takes them out of the reach of the
other run. From `IInv` follow the invariants `TypeOK` and `FlagsTell`, and the
action properties `NeverAgainstEdit`, `MinimumKept` and `NoticeKeepsArchives`.

**MailQueue_proofs.** `DeliversOnceEach` says of the mailbox that the queue is mapped to that its promise is an invariant;
it is inductive as it stands. That the queue implements it needs to know that no row is
delivered from two sides: `IInv` says that two requests never hold the same row
(`Exclusive`), and that each request is `Sound`: what it has written was failed and in its
scope, is not touched by others, and a mail it has delivered is one it has written, and
no longer to be sent. From it follow `TypeOK` and `OnlyFailedSelected`; then one step
at a time, each action delivers a mail that is not done with, gives mails up, forgets
deliveries, or leaves the mailbox alone (`ScreensBox`, `RequestsBox`, `HistoryBox`,
`CoreBox`), which is `QueueIsMailbox`; and from the theorem of the mailbox,
`MailsAreDeliveredOnce`. `CredentialsAlwaysLeave` and `PurgeAlwaysSpares` are about what is committed, and a request commits what it
wrote earlier: `HInv` adds that a mail with a secret is never kept, and that whatever a request holds as sent or as removed
fits the `auto_delete` of the row, which nobody else can write while it is held. Each action then does to each mail only what `May` allows.

**ScheduledExport.** `Typed` is inductive with the assumption on the constants. `DecidedByReader` then is too,
because `write()` asks of the row before and of the row after (`MayWrite`), and a run by hand or by the
job leaves who it runs as alone. Both properties of the job are about its commit, and what it decided at its start may be
old by then: the invariant adds that what it has written, or may still write, has not run on the day of the run (`DueStill`), and that
whatever was due when it began is still to do, done, or was changed by somebody (`NoneMissed`). They hold because every write of others puts the
row among those the job cannot write (`JobPromises`, `PeoplePromises`).

**LeadRoundRobin_proofs.** The first two theorems are about the commit of the run, whose plan was made on an old snapshot. `RunSound` says that
what it has given out was unassigned and active, was not changed by anybody since, and goes to somebody eligible in the roster it read;
creations write unused leads only, and people put what they change among the leads the run cannot write. That the pick is an eligible member
whoever was served last is a lemma about the rotation (`PickIsMember`): each remainder is the position of exactly one member of a finite set
of ids, by the pigeonhole principle (`MemberAtIsThere`). For these two the order of the buckets does not matter.

`SharesAreFair` is about nothing else. Its notion is the arc: everybody has the same share, but for those from one position of the rotation to
before another, who have one more (`Arc`); two arcs of which the second begins where the first ends are one (`ArcsJoin`), a pick after the last
one served is the arc of one member (`PicksArc`), and a plan serves an arc (`BucketsServeAnArc`), by induction over the buckets in the order of their
first leads. The library cannot be used for that induction; `SetInduction` derives it for a set of ranks
from the least element of a set of naturals, and the recursive function of `Served` is unfolded by a lemma of its own (`ServedLastUnfolds`). The
inductive invariant (`Shares`) has four parts: whoever is about to write the pointer of a team holds its row (`OneWriter`), so that a run commits on the pointer its
plan went on from (`RunInTurn`); what a run holds is its plan (`Plans`); and the turns given so far are an arc that ends at the
pointer (`TurnsInTurn`), which makes them differ by at most one.

**Administration_proofs and Cleanup_proofs.** A behaviour of `AddOns` stays in the component it began in (`PartStays`), so that each theorem needs one
inductive invariant for each component it speaks of. They stand in the modules of the components, and say mostly what a step
that was decided earlier still knows when it writes. Of the run `administration`:

* `QuietIsWarned`: until somebody else writes the stamp a check knows it, and the time it is about to write is that of a warning it
  handed over a day later (`FailedMailAlert`, `StampKnown`).
* `ChangesTakeEffect`: the cached menus and fields are those of the rules (`MenuVisibility` and `FieldRules`, `CachesSound`), the stamp of a password
  is that of its last change (`PasswordExpiry`, `StampTells`), and whoever is about to save a filter knows the flags as they are, or loses the row
  (`GlobalFilter`, `SnapshotsHold`).
* `HistoryIsTold`: the rows of one run of a job are apart from those of another, and each that is over ended as it says (`CronHistory`,
  `RunsApart`, `EndsKnown`, `RowsOver`); the rows of a change that is not committed say what it will do, and no two such changes
  are about one parameter (`ConfigAudit`, `ChangeTells`, `Apart`).
* `AlertsAreDueAlways`: a check knows every action as it is but for those written since, and holds the lock of what it found (`CronWatchdog`,
  `SnapshotsHold`, `FoundHeld`); the stamp of an action is no older than any alert that left of a committed check (`StampTells`), so that the stamp
  may be asked in place of the alerts.
* `AllIsHandedOver`: a run sees every record that nobody wrote since as it is (`OwnerReassign`, `RunHolds`), a copy of groups that nobody
  disturbed was computed for the target as it is (`PermissionDiff`, `CopyHolds`). That a copy leaves no gap in rights needs that a set which is closed
  under the implications is all that its groups imply, for any implications.
* `OthersAreKept`: the ids a run of tags resolved are there still, or gone for good, and what it saw of a record is so but for the tags that are
  gone (`BulkTags`, `TagsHold`, `RunSees`); what a label remembers was there before, and what is shown beside it was there or is the customization (`FieldHelp`,
  `RowHolds`); a save that nobody disturbed writes what it saw to be otherwise (`Neutralize`, `SaveHolds`).
* `ReportsTell`: a request knows the dialog and every row that nobody wrote since as they are (`MassFieldUpdate`, `RequestSound`; `BlacklistImport`, `IInv`). The
  counts of an import are about sequences: the first of each address are as many as the addresses (`EmailsAreFirst`), by the first of those that name one.
* `ScreensAreTrue`: the caches again, of menus and fields. The parents of a menu are a recursive function, which `ChainUnfolds` unfolds because no menu is below
  itself; the topmost hidden one is the reason. `RuleTester` needs no history: which rules are to blame follows from how they are combined (`FailingAreToBlame`,
  `FoundIsWithoutNone`), and a capped count from the cardinality of what was fetched.

And of the run `cleanup`:

* `ListsAgreeWithFilters`: it is about two ways to compute one answer, and needs of the table only its shape (`ExternalIds`, `TableTyped`).
* `OneCopyIsKept`: a clean-up sees every copy that nobody wrote since as it is (`DuplicateCleaner`, `CleanupSees`).
* `OnlyDeadAreDeleted`: what was listed and not written since is an orphan still while its model has not come back (`OrphanCleaner`, `IInv`); a
  clean-up of links sees the rows that nobody wrote since as they are, and every file it has looked at was missing (`LinkChecker`, `RowsHold`).
* `OnlyMeantAreDeleted`: a selected identifier of a record that died stays dead (`ExternalIds`, `SelectedDead`), a form shows what it deletes
  (`DefaultValues`, `Fits`), ids of the log follow dates up to the length of a request (`ExportAudit`, `IdsFollowDates`).
* `RunsAreExact`, and `TotalsAreKept` for the part of the archiving: a run sees every record that nobody wrote since as it is (`Archiving`, `RunHolds`). What it archives is
  built rule by rule by a recursive function; `Exact` says what is archived and counted after the first n rules, and holds for each n by
  induction over the numbers of the rules (`ProgressUnfolds` unfolds the function, `BatchStays` says that rules before it only shorten the queue of a rule).
* `LogsTell`: of a record that nobody unarchived behind the add-on at most one entry is open (`Archiving`, `LogHolds`). What a transaction exported is in the rows
  it wrote or on its cursor (`ExportAudit`, `Counted`), which takes sums over finite sets: `TotalIsSum` shows that the fold of the
  library is one, `SumOfAnyFirst` that the order does not matter, `TotalOfMore` what one more row adds, by the least counterexample.
* `NumbersAreRight`: what was scanned are the rows up to the last one, at every page (`LinkChecker`, `CountsAddUp`); what the page counts is the next
  segment of the ids. In `SequenceGaps` two holes of a series share no number (`HolesAreApart`), so that what is lacking is as many as the sum of their widths.
* `LargestAreFirst`: the place of a group in the list is the number of groups ahead of it (`AheadIsExact`), which makes a list cut at the
  cap a set of the largest; those of one size come in turns because their places within a criterion are compared first.
* `ArchivesAreSound`: the entries are built one after another by a recursive function, and each takes the first number that makes its name free. There is one, by the
  pigeonhole principle on the names taken so far; that the names are distinct is shown by the least number of entries for which they would not be.

Only model-checked are `LockoutLifts`, which is about what happens in the end and needs fairness and `ENABLED`, out of the prover's
reach, and the runs that expect a violation, which each show one counterexample.


## What the code does not keep

| Run | Where | What |
|---|---|---|
| `mail_replay` | `failed_mail_bulk_retry/wizard/failed_mail_retry_wizard.py:355` | "can never be rolled back and sent twice": the reload of the list comes after the sends, in their transaction; when a mail of the list was removed meanwhile all is rolled back and replayed. `DeliveredOnce`, which counts these, is what does hold. |
| `user_notice` | `user_access_expiry/models/res_users.py:110` | "notification failure must not fail the cron": a mail the database refuses aborts the transaction. The other add-on has the savepoint, and its comment says why. |
| `user_reactivation_dormant` | `auto_deactivate_dormant_users/models/res_users.py:41` | "counted from fresh activity": the last login is what it was, the next run archives the user again. |

Seen while modelling, and stated by no run; the properties are worded around them:

* `auth_login_lockout/models/res_users.py:70`, "the alert fires once": two requests past the guard together alert
  twice. `AlertsBounded` is what holds.
* `crm_lead_round_robin`, "take turns": with one pointer over members of different companies, two who may
  receive the same leads get unequal shares. `FairShare` is about teams whose members may all receive all leads.
* `user_access_expiry/models/res_users.py:42`, "not re-archived the next night": the date is cleared by the writer's calendar
  and met by that of the run, which may be a day ahead.
* `duplicate_attachment_cleaner`: the oldest copy is only read. When somebody deletes it while the clean-up of the others
  runs, the file is lost; `OneCopyKept` excepts this.
* `orphan_attachment_cleaner`: an attachment that was moved to a living record after the scan is deleted, and one whose model was
  installed again; `OnlyDeadGo` excepts them. "Never listed and never deleted", says its README of "attachments not linked
  to a record yet (upload in progress)": those of a model that is gone are both (`wizard/orphan_attachment_scan.py:124-132`).
* `attachment_link_checker/wizard/attachment_link_check.py:634`, "can never be deleted by a stale report": the disk is
  asked for all rows and the rows are deleted afterwards; a file that comes back in between loses its row.
* `record_owner_bulk_reassign`: a repeat run continues where the last one stopped for all records of a user, not for a selection,
  whose first records it meets again.
* `bulk_tag_manager`: a tag that is renamed after its name was turned into an id is given, or taken, under its new name.
* `failed_mail_alert`: two checks at once, or one whose commit fails, warn twice in a day. A warning that the mail server
  refuses is logged, and silences the checks for a day like one that left (`models/mail_mail.py:219-228`).
* `cron_watchdog_alert`, "Each stalled action re-alerts at most once per 24 hours": an alert leaves before its check is committed,
  so a check that is rolled back is followed by one that alerts again; and the stamp is written also when no
  administrator has an address or the alert is refused (`models/ir_cron.py:147-151`), which silences the action for a day.
* `cron_execution_history`: the row of a success is committed before the job is, which may still fail.
* `default_value_manager`: the search for orphaned "in [True, False]" finds the orphans only.
* `config_change_audit`: a secret that is renamed to a key that is always audited has its old value stored in clear; of the
  old rows the purge takes the latest first, so that its ceiling leaves older ones for a while.
* `data_export_audit_log/models/base.py:24`, "one user export ends up as one row with the real total record count": a request
  that is repeated after a conflict finds its counts on the cursor and registers no callback, so that nothing is logged. `ExportsTold` excepts it. The
  purge takes ids to follow dates, which they do up to the length of a request: rows may go early by that much.
* `database_neutralize_toggle`: a record that is switched by hand while the save runs is given back what the save saw.
* `field_help_editor`: an empty tooltip that was remembered is met by removing the override, which shows what the module ships by then.
* `record_rule_tester/wizard/record_rule_tester.py:290`, "must not escape as a red traceback in the client": the search of the
  verdict and the count of the administrator catch access errors only, so a broken rule of reading ends in one. The flag
  of capped counts leaves out the reference count, and results stay on the screen when the dialog is filled in anew.
* `global_default_saved_filter`: writing the owner, the action or the archiving of a filter that is flagged is not looked at again; two flaggings
  that overlap leave two flags, and two filters of one action flagged by one write leave none.
* `password_expiry_policy`: a user without a stamp is never sent away.
* `menu_access_visibility`: the answer of the add-on for one item does not look at an action on a parent of the item, which Odoo does.

## What is not modelled

Wording, logging, layout, translations, the SQL of views, SMTP itself, access rights
of the core (an action stands for somebody who may do it), the size limits of
columns. Normalisation of logins is a constant function. What the core does is modelled only as far as
the add-ons use it and is marked external in `PROJECT.json`.

Of the 26 add-ons without a module, most are reports or checks of one call. The others keep no state that a later step reads:
`activity_summary_digest`, `activity_bulk_reassign`, `mass_schedule_activity` and `followers_bulk_manage` write once and forget;
`archive_audit_trail`, `partner_bank_change_alert`, `mail_outgoing_auto_bcc` and `mail_autofollow_optout` act within the call they
override; `mail_template_usage_report` counts; the purge of `ir_logging_viewer` is that of `auth_login_lockout`.

## Plan

1. **Proofs**: what is left of the types, which the inductive invariants state as far as they are needed, and an abstract
   specification of the wizards that act on a snapshot (what a commit may do), implemented by each of them.
2. **Mails that are computed**: `activity_summary_digest`, `partner_bank_change_alert`, `mail_template_usage_report`.
3. **The rest of the wizards**: `activity_bulk_reassign`, `followers_bulk_manage`, `mass_schedule_activity`.
