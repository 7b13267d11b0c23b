\* two users, both runs, every fault
CONSTANTS
  unset = unset
  permanent = permanent
  u1 = u1
  u2 = u2
  Users = {u1, u2}
  Admins = {}
  Portal = {}
  Settings <- MCSettings
  Unset = unset
  DefaultDays = 2
  MinDays = 1
  MaxSeen = 3
  Dates <- MCDates
  NoDate = permanent
  Zones <- MCZones
  MaxEdits = 2
SPECIFICATION Spec
INVARIANT TypeOK
INVARIANT FlagsTell
PROPERTY NeverAgainstEdit
PROPERTY MinimumKept
PROPERTY NoticeKeepsArchives
SYMMETRY Symmetry
