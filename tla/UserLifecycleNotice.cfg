\* one user whose access ends
CONSTANTS
  unset = unset
  permanent = permanent
  u1 = u1
  Users = {u1}
  Admins = {}
  Portal = {}
  Settings <- OneSetting
  Unset = unset
  DefaultDays = 2
  MinDays = 1
  MaxSeen = 3
  Dates <- MCDates
  NoDate = permanent
  Zones <- MCZones
  MaxEdits = 0
SPECIFICATION Spec
PROPERTY ExpiryNoticeKeepsArchives
