------------------------------- MODULE AddOns -------------------------------
(***************************************************************************)
(* The add-ons that share nothing but the server: a behaviour is one of    *)
(* them, which its first state chooses, and they share the variables of    *)
(* this module.  Each has one constant, a record of the values of the      *)
(* constants of its module.                                                *)
(***************************************************************************)
EXTENDS Integers, Sequences, TLC

CONSTANTS
  Parts,        \* the components a behaviour may be of
  \* administration: what changes many records, restricts, watches or switches
  Updates, Tagging, Owners, Blacklist, Visibility, Mail, Overdue, Audit, Permissions,
  RuleTests, Restraints, Passwords, Offers, Labels, Switch, History,
  \* cleaning: what archives, deletes, collects, counts or logs
  Archives, Duplicates, Leftovers, Links, Downloads, Finder, Identifiers, Defaults, Exports,
  Numbering

VARIABLES
  part,         \* the component of this behaviour
  s1, s2, s3, s4, s5, s6, s7, s8, s9, s10   \* its variables

Upd == INSTANCE MassFieldUpdate WITH
  rec <- s1, offered <- s2, wizard <- s3, request <- s4, edits <- s5,
  Records <- Updates.Records, Hidden <- Updates.Hidden, Denied <- Updates.Denied,
  Refusing <- Updates.Refusing, Fields <- Updates.Fields, Required <- Updates.Required,
  Values <- Updates.Values, Empty <- Updates.Empty, Dialog <- Updates.Dialog,
  MaxRecords <- Updates.MaxRecords, Requests <- Updates.Requests,
  MaxEdits <- Updates.MaxEdits

Tag == INSTANCE BulkTags WITH
  tag <- s1, next <- s2, on <- s3, run <- s4, edits <- s5,
  Records <- Tagging.Records, Denied <- Tagging.Denied, Refusing <- Tagging.Refusing,
  Names <- Tagging.Names, Runs <- Tagging.Runs, MaxTags <- Tagging.MaxTags,
  MaxEdits <- Tagging.MaxEdits

Own == INSTANCE OwnerReassign WITH
  many <- s1, owners <- s2, run <- s3, edits <- s4,
  Records <- Owners.Records, Hidden <- Owners.Hidden, Denied <- Owners.Denied,
  Refusing <- Owners.Refusing, Users <- Owners.Users, Nobody <- Owners.Nobody,
  MaxRecords <- Owners.MaxRecords, MaxEdits <- Owners.MaxEdits

Bla == INSTANCE BlacklistImport WITH
  list <- s1, form <- s2, import <- s3, edits <- s4,
  Entries <- Blacklist.Entries, Addresses <- Blacklist.Addresses,
  Invalid <- Blacklist.Invalid, Normal <- Blacklist.Normal, Limit <- Blacklist.Limit,
  MaxEntries <- Blacklist.MaxEntries, MaxEdits <- Blacklist.MaxEdits

Men == INSTANCE MenuVisibility WITH
  groups <- s1, cache <- s2, signalled <- s3, request <- s4, shown <- s5, edits <- s6,
  Menus <- Visibility.Menus, Root <- Visibility.Root, Parent <- Visibility.Parent,
  Folders <- Visibility.Folders, Openable <- Visibility.Openable,
  Groups <- Visibility.Groups, Held <- Visibility.Held, Refusing <- Visibility.Refusing,
  Workers <- Visibility.Workers, Nothing <- Visibility.Nothing,
  MaxEdits <- Visibility.MaxEdits

Fma == INSTANCE FailedMailAlert WITH
  queue <- s1, config <- s2, reachable <- s3, stamp <- s4, check <- s5, handed <- s6,
  now <- s7, edits <- s8,
  Mails <- Mail.Mails, Checks <- Mail.Checks, Thresholds <- Mail.Thresholds,
  Age <- Mail.Age, RealertHours <- Mail.RealertHours, MaxTime <- Mail.MaxTime,
  MaxEdits <- Mail.MaxEdits

Dog == INSTANCE CronWatchdog WITH
  cron <- s1, holder <- s2, lastWeb <- s3, tx <- s4, enabled <- s5, now <- s6, kept <- s7,
  Crons <- Overdue.Crons, Exempt <- Overdue.Exempt, Pages <- Overdue.Pages,
  Watchdog <- Overdue.Watchdog, Lag <- Overdue.Lag, RealertHours <- Overdue.RealertHours,
  WebCheckEvery <- Overdue.WebCheckEvery, Interval <- Overdue.Interval,
  MaxTime <- Overdue.MaxTime

Aud == INSTANCE ConfigAudit WITH
  param <- s1, log <- s2, tx <- s3, told <- s4, now <- s5, edits <- s6,
  Keys <- Audit.Keys, Values <- Audit.Values, EnabledKey <- Audit.EnabledKey,
  RetentionKey <- Audit.RetentionKey, PatternsKey <- Audit.PatternsKey, Off <- Audit.Off,
  Days <- Audit.Days, Matched <- Audit.Matched, DefaultDays <- Audit.DefaultDays,
  DefaultMatched <- Audit.DefaultMatched, Present <- Audit.Present,
  Changers <- Audit.Changers, Ceiling <- Audit.Ceiling, MaxTime <- Audit.MaxTime,
  MaxEdits <- Audit.MaxEdits

Per == INSTANCE PermissionDiff WITH
  assigned <- s1, screen <- s2, dialog <- s3, copy <- s4, edits <- s5,
  Users <- Permissions.Users, Groups <- Permissions.Groups,
  Implied <- Permissions.Implied, Types <- Permissions.Types,
  Protected <- Permissions.Protected, Models <- Permissions.Models,
  Ops <- Permissions.Ops, Public <- Permissions.Public, Limit <- Permissions.Limit,
  MaxEdits <- Permissions.MaxEdits, Access <- Permissions.Access

Rul == INSTANCE RuleTester WITH
  rows <- s1, rule <- s2, held <- s3, acl <- s4, form <- s5, screen <- s6, edits <- s7,
  Records <- RuleTests.Records, Rules <- RuleTests.Rules, Users <- RuleTests.Users,
  Groups <- RuleTests.Groups, Ops <- RuleTests.Ops, Operator <- RuleTests.Operator,
  Outside <- RuleTests.Outside, Limits <- RuleTests.Limits,
  MaxEdits <- RuleTests.MaxEdits, Kinds <- RuleTests.Kinds

Fru == INSTANCE FieldRules WITH
  rule <- s1, cache <- s2, signalled <- s3, request <- s4, answer <- s5, edits <- s6,
  Fields <- Restraints.Fields, Groups <- Restraints.Groups, Users <- Restraints.Users,
  Held <- Restraints.Held, Admins <- Restraints.Admins,
  Superusers <- Restraints.Superusers, RuleIds <- Restraints.RuleIds,
  Workers <- Restraints.Workers, NoCache <- Restraints.NoCache,
  NoRule <- Restraints.NoRule, MaxEdits <- Restraints.MaxEdits,
  Contents <- Restraints.Contents

Pwd == INSTANCE PasswordExpiry WITH
  user <- s1, policy <- s2, changed <- s3, page <- s4, now <- s5, edits <- s6,
  Users <- Passwords.Users, Spared <- Passwords.Spared, Unstamped <- Passwords.Unstamped,
  NoStamp <- Passwords.NoStamp, Periods <- Passwords.Periods,
  NoPeriod <- Passwords.NoPeriod, MinDays <- Passwords.MinDays,
  MaxDays <- Passwords.MaxDays, DefaultDays <- Passwords.DefaultDays,
  MaxTime <- Passwords.MaxTime, MaxEdits <- Passwords.MaxEdits

Fil == INSTANCE GlobalFilter WITH
  filter <- s1, request <- s2, flagged <- s3, edits <- s4,
  Filters <- Offers.Filters, Actions <- Offers.Actions, AnyAction <- Offers.AnyAction,
  Users <- Offers.Users, Nobody <- Offers.Nobody, Choosing <- Offers.Choosing,
  Requests <- Offers.Requests, MaxEdits <- Offers.MaxEdits

Fhe == INSTANCE FieldHelp WITH
  source <- s1, translation <- s2, row <- s3, own <- s4, edits <- s5,
  Fields <- Labels.Fields, Langs <- Labels.Langs, Texts <- Labels.Texts,
  None <- Labels.None, Translated <- Labels.Translated, MaxEdits <- Labels.MaxEdits

Neu == INSTANCE Neutralize WITH
  active <- s1, param <- s2, save <- s3, executing <- s4, was <- s5, edits <- s6,
  Records <- Switch.Records, Crons <- Switch.Crons, Saves <- Switch.Saves,
  MaxEdits <- Switch.MaxEdits

His == INSTANCE CronHistory WITH
  run <- s1, handed <- s2, history <- s3, config <- s4, cleanup <- s5, fate <- s6,
  owed <- s7, expired <- s8, now <- s9, edits <- s10,
  Actions <- History.Actions, Runs <- History.Runs, Retentions <- History.Retentions,
  BatchLimit <- History.BatchLimit, MaxBatches <- History.MaxBatches,
  MaxTime <- History.MaxTime, MaxEdits <- History.MaxEdits

Arc == INSTANCE Archiving WITH
  record <- s1, log <- s2, rule <- s3, run <- s4, wizard <- s5, now <- s6, credit <- s7,
  missed <- s8, edits <- s9,
  Records <- Archives.Records, Protected <- Archives.Protected,
  Stubborn <- Archives.Stubborn, Rules <- Archives.Rules, Filter <- Archives.Filter,
  Inactivity <- Archives.Inactivity, Floor <- Archives.Floor,
  BatchLimit <- Archives.BatchLimit, Reasons <- Archives.Reasons,
  NoteMode <- Archives.NoteMode, NoReason <- Archives.NoReason,
  MaxRecords <- Archives.MaxRecords, Runners <- Archives.Runners, Cron <- Archives.Cron,
  MaxDay <- Archives.MaxDay, MaxEdits <- Archives.MaxEdits

Dup == INSTANCE DuplicateCleaner WITH
  att <- s1, scan <- s2, edits <- s3,
  Attachments <- Duplicates.Attachments, File <- Duplicates.File,
  InScope <- Duplicates.InScope, Deletable <- Duplicates.Deletable,
  Places <- Duplicates.Places, Scans <- Duplicates.Scans, Scope <- Duplicates.Scope,
  MaxEdits <- Duplicates.MaxEdits

Orp == INSTANCE OrphanCleaner WITH
  att <- s1, installed <- s2, existing <- s3, wizard <- s4, moved <- s5, returned <- s6,
  edits <- s7,
  Attachments <- Leftovers.Attachments, Records <- Leftovers.Records,
  Assets <- Leftovers.Assets, Nowhere <- Leftovers.Nowhere, Pending <- Leftovers.Pending,
  MaxEdits <- Leftovers.MaxEdits

Lnk == INSTANCE LinkChecker WITH
  att <- s1, disk <- s2, check <- s3, delete <- s4, edits <- s5,
  Attachments <- Links.Attachments, Files <- Links.Files, Elsewhere <- Links.Elsewhere,
  Hidden <- Links.Hidden, FieldRows <- Links.FieldRows, Deletable <- Links.Deletable,
  BatchSize <- Links.BatchSize, Stops <- Links.Stops, MaxLines <- Links.MaxLines,
  CacheMax <- Links.CacheMax, MaxEdits <- Links.MaxEdits

Dwn == INSTANCE BulkDownload WITH
  there <- s1, readable <- s2, limit <- s3, wizard <- s4, archive <- s5, edits <- s6,
  Users <- Downloads.Users, Records <- Downloads.Records,
  Attachments <- Downloads.Attachments, Of <- Downloads.Of, Folder <- Downloads.Folder,
  Name <- Downloads.Name, Recorded <- Downloads.Recorded, Real <- Downloads.Real,
  Limits <- Downloads.Limits, MaxRecords <- Downloads.MaxRecords,
  MaxEdits <- Downloads.MaxEdits

Con == INSTANCE ContactFinder WITH
  keys <- s1, finder <- s2, edits <- s3,
  Contacts <- Finder.Contacts, Hidden <- Finder.Hidden, Criteria <- Finder.Criteria,
  Keys <- Finder.Keys, Caps <- Finder.Caps, MaxMembers <- Finder.MaxMembers,
  MaxEdits <- Finder.MaxEdits

Xid == INSTANCE ExternalIds WITH
  entry <- s1, installed <- s2, rows <- s3, gone <- s4, request <- s5, edits <- s6,
  Entries <- Identifiers.Entries, Models <- Identifiers.Models,
  NoModel <- Identifiers.NoModel, Searchable <- Identifiers.Searchable,
  Readable <- Identifiers.Readable, Ids <- Identifiers.Ids, Name <- Identifiers.Name,
  ModelLimit <- Identifiers.ModelLimit, HitLimit <- Identifiers.HitLimit,
  MaxEdits <- Identifiers.MaxEdits

Def == INSTANCE DefaultValues WITH
  default <- s1, models <- s2, fields <- s3, targets <- s4, wizard <- s5, edits <- s6,
  Slots <- Defaults.Slots, Fields <- Defaults.Fields, Relational <- Defaults.Relational,
  FieldModel <- Defaults.FieldModel, Comodel <- Defaults.Comodel,
  Models <- Defaults.Models, Users <- Defaults.Users, Companies <- Defaults.Companies,
  All <- Defaults.All, Targets <- Defaults.Targets, Admins <- Defaults.Admins,
  CompaniesOf <- Defaults.CompaniesOf, MaxEdits <- Defaults.MaxEdits

Exp == INSTANCE ExportAudit WITH
  tx <- s1, pending <- s2, written <- s3, exported <- s4, lost <- s5, log <- s6,
  serial <- s7, setting <- s8, now <- s9, edits <- s10,
  Txs <- Exports.Txs, Keys <- Exports.Keys, Sizes <- Exports.Sizes,
  MaxChunks <- Exports.MaxChunks, MaxOpen <- Exports.MaxOpen,
  Settings <- Exports.Settings, DefaultDays <- Exports.DefaultDays,
  MaxTime <- Exports.MaxTime, MaxEdits <- Exports.MaxEdits

Gap == INSTANCE SequenceGaps WITH
  doc <- s1, form <- s2, report <- s3, edits <- s4,
  Documents <- Numbering.Documents, NoNumber <- Numbering.NoNumber,
  NoDocument <- Numbering.NoDocument, Values <- Numbering.Values,
  Unreadable <- Numbering.Unreadable, Caps <- Numbering.Caps,
  AbsoluteMaxGaps <- Numbering.AbsoluteMaxGaps, AbsoluteMaxRows <- Numbering.AbsoluteMaxRows,
  MaxGapSpan <- Numbering.MaxGapSpan, Int4Max <- Numbering.Int4Max,
  MaxEdits <- Numbering.MaxEdits

-----------------------------------------------------------------------------
\* what the modules ask of their constants
ASSUME AddOnsAssumption ==
  /\ Pwd!Proper /\ Fil!Proper /\ His!Proper /\ Aud!Proper /\ Xid!Proper
  /\ Dog!Proper /\ Dup!Proper /\ Exp!Proper /\ Arc!Proper
  /\ Own!Proper /\ Per!Proper /\ Tag!Proper /\ Fhe!Proper /\ Lnk!Proper /\ Gap!Proper
  /\ Fma!Proper
  /\ Con!Proper /\ Dwn!Proper /\ Men!Proper /\ Rul!Proper /\ Upd!Proper /\ Bla!Proper

vars == <<part, s1, s2, s3, s4, s5, s6, s7, s8, s9, s10>>

\* the variables that a component with fewer does not use
Only9 == s10 = 0
Only8 == s9 = 0 /\ Only9
Only7 == s8 = 0 /\ Only8
Only6 == s7 = 0 /\ Only7
Only5 == s6 = 0 /\ Only6
Only4 == s5 = 0 /\ Only5
Only3 == s4 = 0 /\ Only4

\* Starts: the contacts a behaviour may begin with
Init ==
  /\ part \in Parts
  /\ \/ part = "fields" /\ Upd!Init /\ Only5
     \/ part = "tags" /\ Tag!Init /\ Only5
     \/ part = "owners" /\ Own!Init /\ Only4
     \/ part = "blacklist" /\ Bla!Init /\ Only4
     \/ part = "menus" /\ Men!Init /\ Only6
     \/ part = "mail" /\ Fma!Init /\ Only8
     \/ part = "watchdog" /\ Dog!Init /\ Only7
     \/ part = "audit" /\ Aud!Init /\ Only6
     \/ part = "permissions" /\ Per!Init /\ Only5
     \/ part = "rules" /\ Rul!Init /\ Only7
     \/ part = "restraints" /\ Fru!Init /\ Only6
     \/ part = "passwords" /\ Pwd!Init /\ Only6
     \/ part = "filters" /\ Fil!Init /\ Only4
     \/ part = "labels" /\ Fhe!Init /\ Only5
     \/ part = "neutralize" /\ Neu!Init /\ Only6
     \/ part = "history" /\ His!Init
     \/ part = "archiving" /\ Arc!Init /\ Only9
     \/ part = "duplicates" /\ Dup!Init /\ Only3
     \/ part = "orphans" /\ Orp!Init /\ Only7
     \/ part = "links" /\ Lnk!Init /\ Only5
     \/ part = "download" /\ Dwn!Init /\ Only6
     \/ part = "contacts" /\ Con!Init /\ s1 \in Finder.Starts /\ Only3
     \/ part = "ids" /\ Xid!Init /\ Only6
     \/ part = "defaults" /\ Def!Init /\ Only6
     \/ part = "exports" /\ Exp!Init
     \/ part = "numbers" /\ Gap!Init /\ Only4

Next ==
  \/ part = "fields" /\ Upd!Next /\ UNCHANGED <<part, s6, s7, s8, s9, s10>>
  \/ part = "tags" /\ Tag!Next /\ UNCHANGED <<part, s6, s7, s8, s9, s10>>
  \/ part = "owners" /\ Own!Next /\ UNCHANGED <<part, s5, s6, s7, s8, s9, s10>>
  \/ part = "blacklist" /\ Bla!Next /\ UNCHANGED <<part, s5, s6, s7, s8, s9, s10>>
  \/ part = "menus" /\ Men!Next /\ UNCHANGED <<part, s7, s8, s9, s10>>
  \/ part = "mail" /\ Fma!Next /\ UNCHANGED <<part, s9, s10>>
  \/ part = "watchdog" /\ Dog!Next /\ UNCHANGED <<part, s8, s9, s10>>
  \/ part = "audit" /\ Aud!Next /\ UNCHANGED <<part, s7, s8, s9, s10>>
  \/ part = "permissions" /\ Per!Next /\ UNCHANGED <<part, s6, s7, s8, s9, s10>>
  \/ part = "rules" /\ Rul!Next /\ UNCHANGED <<part, s8, s9, s10>>
  \/ part = "restraints" /\ Fru!Next /\ UNCHANGED <<part, s7, s8, s9, s10>>
  \/ part = "passwords" /\ Pwd!Next /\ UNCHANGED <<part, s7, s8, s9, s10>>
  \/ part = "filters" /\ Fil!Next /\ UNCHANGED <<part, s5, s6, s7, s8, s9, s10>>
  \/ part = "labels" /\ Fhe!Next /\ UNCHANGED <<part, s6, s7, s8, s9, s10>>
  \/ part = "neutralize" /\ Neu!Next /\ UNCHANGED <<part, s7, s8, s9, s10>>
  \/ part = "history" /\ His!Next /\ UNCHANGED <<part>>
  \/ part = "archiving" /\ Arc!Next /\ UNCHANGED <<part, s10>>
  \/ part = "duplicates" /\ Dup!Next /\ UNCHANGED <<part, s4, s5, s6, s7, s8, s9, s10>>
  \/ part = "orphans" /\ Orp!Next /\ UNCHANGED <<part, s8, s9, s10>>
  \/ part = "links" /\ Lnk!Next /\ UNCHANGED <<part, s6, s7, s8, s9, s10>>
  \/ part = "download" /\ Dwn!Next /\ UNCHANGED <<part, s7, s8, s9, s10>>
  \/ part = "contacts" /\ Con!Next /\ UNCHANGED <<part, s4, s5, s6, s7, s8, s9, s10>>
  \/ part = "ids" /\ Xid!Next /\ UNCHANGED <<part, s7, s8, s9, s10>>
  \/ part = "defaults" /\ Def!Next /\ UNCHANGED <<part, s7, s8, s9, s10>>
  \/ part = "exports" /\ Exp!Next /\ UNCHANGED <<part>>
  \/ part = "numbers" /\ Gap!Next /\ UNCHANGED <<part, s5, s6, s7, s8, s9, s10>>

Spec == Init /\ [][Next]_vars

-----------------------------------------------------------------------------
(* A wizard reports of each record what became of it: see ReportTells of     *)
(* MassFieldUpdate and ImportTells of BlacklistImport.                       *)
ReportTells ==
  [][/\ part = "fields" => Upd!ReportTells
     /\ part = "blacklist" => Bla!ImportTells]_vars

(* What is changed keeps the rest, and what is undone comes back: see        *)
(* OthersKept of BulkTags, CopyOnlyAdds of PermissionDiff, BackAsItWas of    *)
(* FieldHelp and GivesBack of Neutralize.                                    *)
OthersKept ==
  [][/\ part = "tags" => Tag!OthersKept
     /\ part = "permissions" => Per!CopyOnlyAdds
     /\ part = "labels" => Fhe!BackAsItWas'
     /\ part = "neutralize" => Neu!GivesBack]_vars

(* What is to be handed over arrives: see HandsOver of OwnerReassign and     *)
(* GapClosed of PermissionDiff.                                              *)
HandsOver ==
  [][/\ part = "owners" => Own!HandsOver
     /\ part = "permissions" => Per!GapClosed]_vars

(* What an administrator changed is in force: see TakesEffect of             *)
(* MenuVisibility, RulesInForce of FieldRules, AgeIsOfPassword of            *)
(* PasswordExpiry and DefaultFollows of GlobalFilter.                        *)
TakesEffect ==
  [][/\ part = "menus" => Men!TakesEffect
     /\ part = "restraints" => Fru!RulesInForce
     /\ part = "passwords" => Pwd!AgeIsOfPassword
     /\ part = "filters" => Fil!DefaultFollows']_vars

(* What a screen says of menus, rules and fields is so: see ReasonsTell and  *)
(* AnswersAgree of MenuVisibility, BlameIsExact and CountsTell of RuleTester *)
(* and FormsSavable of FieldRules.                                           *)
ScreensTell ==
  [][/\ part = "menus" => Men!ReasonsTell /\ Men!AnswersAgree
     /\ part = "rules" => Rul!BlameIsExact /\ Rul!CountsTell
     /\ part = "restraints" => Fru!FormsSavable]_vars

(* The alerts on failed mails are held back for a day only by one that was   *)
(* built and handed to the mail server, and only a day after the one before: *)
(* see QuietMeansWarned of FailedMailAlert.                                  *)
QuietMeansWarned == [][part = "mail" => Fma!QuietMeansWarned]_vars

(* A job is reported when it is late, and once a day unless the check that   *)
(* reported it was rolled back: see AlertsAreDue of CronWatchdog.            *)
AlertsAreDue == [][part = "watchdog" => Dog!AlertsAreDue]_vars

(* The history of the jobs and of the parameters tells what became of them:  *)
(* see HistoryTells of CronHistory and TrailTells of ConfigAudit.            *)
HistoryTells ==
  /\ part = "history" => His!HistoryTells
  /\ part = "audit" => Aud!TrailTells

(* The logs of archiving and of exports tell what happened: see LogTells of  *)
(* Archiving and ExportsTold of ExportAudit.                                 *)
LogTells ==
  [][/\ part = "archiving" => Arc!LogTells'
     /\ part = "exports" => Exp!ExportsTold]_vars

(* A run archives only what is old enough, and leaves only what refused: see *)
(* OldOnly and SkipsOnlyRefused of Archiving.                                *)
RunExact == [][part = "archiving" => Arc!OldOnly /\ Arc!SkipsOnlyRefused]_vars

(* The cleaning keeps one copy of every file: see OneCopyKept of              *)
(* DuplicateCleaner.                                                         *)
OneCopyKept == [][part = "duplicates" => Dup!OneCopyKept]_vars

(* What a cleanup deletes was listed, and is an orphan still unless it was   *)
(* edited or its model came back, or a link whose file was missing after the *)
(* button was pressed: see OnlyOrphansGo of OrphanCleaner and OnlyDanglingGo *)
(* of LinkChecker.                                                           *)
OnlyDeadGo ==
  [][/\ part = "orphans" => Orp!OnlyOrphansGo
     /\ part = "links" => Lnk!OnlyDanglingGo]_vars

(* The totals on a report are those of what it reports: see NumbersAddUp of  *)
(* LinkChecker, CountTells of Archiving and GapsExact of SequenceGaps.       *)
NumbersAddUp ==
  [][/\ part = "links" => Lnk!NumbersAddUp'
     /\ part = "archiving" => Arc!CountTells'
     /\ part = "numbers" => Gap!GapsExact]_vars

(* A downloaded archive holds each file under a name of its own: see         *)
(* ArchiveSound of BulkDownload.                                             *)
ArchiveSound == [][part = "download" => Dwn!ArchiveSound]_vars

(* A capped report shows the largest groups: see LargestFirst of             *)
(* ContactFinder.                                                            *)
LargestFirst == [][part = "contacts" => Con!LargestFirst]_vars

(* A filter finds the entries whose badge it names: see BadgeAgrees of       *)
(* ExternalIds and FiltersAgree of DefaultValues.                            *)
ListsAgree ==
  /\ part = "ids" => Xid!BadgeAgrees
  /\ part = "defaults" => Def!FiltersAgree

(* A deletion spares the identifier of a record that lives, the default the  *)
(* list does not show, and the rows that are young: see LiveKept of          *)
(* ExternalIds, OnlyShownGo of DefaultValues and PurgeNearlyExact of         *)
(* ExportAudit.                                                              *)
OnlyMeantGo ==
  [][/\ part = "ids" => Xid!LiveKept
     /\ part = "defaults" => Def!OnlyShownGo
     /\ part = "exports" => Exp!PurgeNearlyExact]_vars
=============================================================================
