\* one behaviour is one of these components: MCAddOns gives the bounds of each
CONSTANTS
  Parts = {"fields", "tags", "owners", "blacklist", "menus", "mail", "watchdog", "audit",
    "permissions", "rules", "restraints", "passwords", "filters", "labels",
    "neutralize", "history"}
  Updates <- MCUpdates
  Tagging <- MCTagging
  Owners <- MCOwners
  Blacklist <- MCBlacklist
  Visibility <- MCVisibility
  Mail <- MCMail
  Overdue <- MCOverdue
  Audit <- MCAudit
  Permissions <- MCPermissions
  RuleTests <- MCRuleTests
  Restraints <- MCRestraints
  Passwords <- MCPasswords
  Offers <- MCOffers
  Labels <- MCLabels
  Switch <- MCSwitch
  History <- MCHistory
  Archives <- MCArchives
  Duplicates <- MCDuplicates
  Leftovers <- MCLeftovers
  Links <- MCLinks
  Downloads <- MCDownloads
  Finder <- MCFinder
  Identifiers <- MCIdentifiers
  Defaults <- MCDefaults
  Exports <- MCExports
  Numbering <- MCNumbering
SPECIFICATION Spec
PROPERTY QuietMeansWarned
INVARIANT HistoryTells
PROPERTY ReportTells
PROPERTY OthersKept
PROPERTY HandsOver
PROPERTY TakesEffect
PROPERTY ScreensTell
PROPERTY AlertsAreDue
CHECK_DEADLOCK FALSE
