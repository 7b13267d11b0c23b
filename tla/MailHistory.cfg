\* the history beside one screen: retentions of a day, and negative
CONSTANTS
  unset = unset
  m1 = m1
  m2 = m2
  a1 = a1
  plain = plain
  credential = credential
  linked = linked
  Mails = {m1, m2}
  Manual = {}
  Admins = {a1}
  Contents = {plain, credential, linked}
  Plain = plain
  Credential = credential
  Linked = linked
  Settings <- MCSettings
  Unset = unset
  DefaultDays = 1
  MaxLines = 1
  MaxBatch = 1
  MaxSend = 1
  PurgeCap = 1
  MaxAge = 2
  MaxLost = 0
SPECIFICATION Spec
PROPERTY CredentialsLeave
PROPERTY PurgeSpares
SYMMETRY Symmetry
