SPECIFICATION Spec
CONSTANTS
  d1 = d1
  g1 = g1
  g2 = g2
  c1 = c1
  Days = {d1}
  Grades = {g1, g2}
  Classes = {c1}
  Scopes <- MCScopes
  Customs = {0}
  NoCustom = NoCustom
  GivenCodes <- MCGivenCodes
  NoCode = NoCode
  DailyCodes = 2
  MaxLearners = 3
  MaxItems = 1
INVARIANTS
  AutoAssignPossible
