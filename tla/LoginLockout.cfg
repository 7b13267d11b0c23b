\* two workers, every fault, two policies in turn
CONSTANTS
  unset = unset
  w1 = w1
  w2 = w2
  Workers = {w1, w2}
  s1 = s1
  s2 = s2
  s3 = s3
  MCSlots = {s1, s2, s3}
  Slots = {s1, s2, s3}
  Spellings <- MCSpellings
  Logins <- MCLogins
  NoLogin = ""
  Norm <- MCNorm
  Accounts <- MCAccounts
  Params <- MCParams
  Forms <- MCForms
  Unset = unset
  DefaultPolicy <- MCDefault
  PurgeCap = 2
  MaxAge = 3
  MaxUnchecked = 1
  Threshold = 2
  ShortestWindow = 2
SPECIFICATION Spec
INVARIANT TypeOK
INVARIANT OvershootBounded
INVARIANT AlertsBounded
PROPERTY RefusalNeverExtends
PROPERTY PurgeNeverLocks
SYMMETRY Symmetry
