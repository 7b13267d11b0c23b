\* one behaviour is one of these components: MCAddOns gives the bounds of each
CONSTANTS
  Parts = {"archiving", "duplicates", "orphans", "links", "download", "contacts", "ids",
    "defaults", "exports", "numbers"}
  Updates <- MCUpdates
  Tagging <- MCTagging
  Owners <- MCOwners
  Blacklist <- MCBlacklist
  Visibility <- MCVisibility
  Mail <- MCMail
  Overdue <- MCOverdue
  Audit <- MCAudit
  Permissions <- MCPermissions
  RuleTests <- MCRuleTests
  Restraints <- MCRestraints
  Passwords <- MCPasswords
  Offers <- MCOffers
  Labels <- MCLabels
  Switch <- MCSwitch
  History <- MCHistory
  Archives <- MCArchives
  Duplicates <- MCDuplicates
  Leftovers <- MCLeftovers
  Links <- MCLinks
  Downloads <- MCDownloads
  Finder <- MCFinder
  Identifiers <- MCIdentifiers
  Defaults <- MCDefaults
  Exports <- MCExports
  Numbering <- MCNumbering
SPECIFICATION Spec
PROPERTY LogTells
PROPERTY NumbersAddUp
INVARIANT ListsAgree
PROPERTY RunExact
PROPERTY OneCopyKept
PROPERTY OnlyDeadGo
PROPERTY ArchiveSound
PROPERTY LargestFirst
PROPERTY OnlyMeantGo
CHECK_DEADLOCK FALSE
