\* two exports, one of them an administrator's; a manager and an administrator
CONSTANTS
  e1 = e1
  e2 = e2
  ann = ann
  root = root
  x = x
  y = y
  Exports = {e1, e2}
  Users = {ann, root}
  Admins = {root}
  Owner <- MCOwner
  Zone <- MCZone
  Fields = {x, y}
  Readable <- MCReadable
  Contents <- Monthly
  Weekday <- MCWeekday
  DayOfMonth <- MCDayOfMonth
  LastDay <- MCLastDay
  DayHours = 2
  MaxHour = 2
  Never = Never
  MaxEdits = 1
SPECIFICATION MCSpec
INVARIANT DecidedByReader
PROPERTY OncePerDay
PROPERTY EverySlotStamped
SYMMETRY Symmetry
