\* two screens, the queue and the buttons, every fault
CONSTANTS
  unset = unset
  m1 = m1
  m2 = m2
  a1 = a1
  a2 = a2
  plain = plain
  credential = credential
  linked = linked
  Mails = {m1, m2}
  Manual = {m1, m2}
  Admins = {a1, a2}
  Contents = {plain}
  Plain = plain
  Credential = credential
  Linked = linked
  Settings <- NoHistory
  Unset = unset
  DefaultDays = 1
  MaxLines = 2
  MaxBatch = 1
  MaxSend = 1
  PurgeCap = 1
  MaxAge = 0
  MaxLost = 1
SPECIFICATION Spec
INVARIANT TypeOK
INVARIANT DeliveredOnce
INVARIANT OnlyFailedSelected
PROPERTY IsMailbox
SYMMETRY Symmetry
