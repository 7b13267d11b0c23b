\* one user who comes back, and whose access does not end
CONSTANTS
  unset = unset
  permanent = permanent
  u1 = u1
  Users = {u1}
  Admins = {}
  Portal = {}
  Settings <- OneSetting
  Unset = unset
  DefaultDays = 2
  MinDays = 1
  MaxSeen = 3
  Dates = {}
  NoDate = permanent
  Zones <- MCZones
  MaxEdits = 2
SPECIFICATION BackSpec
PROPERTY ReactivationLasts
