\* two slots, no symmetry: the lockouts lift
CONSTANTS
  unset = unset
  w1 = w1
  w2 = w2
  Workers = {w1, w2}
  s1 = s1
  s2 = s2
  MCSlots = {s1, s2}
  Slots = {s1, s2}
  Spellings <- MCSpellings
  Logins <- MCLogins
  NoLogin = ""
  Norm <- MCNorm
  Accounts <- MCAccounts
  Params <- MCParams
  Forms <- MCForms
  Unset = unset
  DefaultPolicy <- MCDefault
  PurgeCap = 2
  MaxAge = 3
  MaxUnchecked = 1
  Threshold = 2
  ShortestWindow = 2
SPECIFICATION FairSpec
PROPERTY LockoutLifts
