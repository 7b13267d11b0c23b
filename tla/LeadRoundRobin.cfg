\* one team, a creating request, the run, people and roster changes
CONSTANTS
  x = x
  y = y
  none = none
  t1 = t1
  s1 = s1
  Members = {1, 2, 3}
  Named = {1}
  Companies = {x}
  NoCompany = none
  Allowed <- MCAllowed
  Teams = {t1}
  TeamCompany <- MCTeamCompany
  Rosters <- MCRosters
  Leads = {1, 2}
  Sessions = {s1}
  MaxCreate = 2
  Batch = 2
  NoUser = NoUser
SPECIFICATION Spec
INVARIANT FairShare
PROPERTY NeverReassigned
PROPERTY OnlyAllowed
