SPECIFICATION AccessSpec
CONSTANTS
  Users = {u1}
  Browsers = {b1, b2}
  Passwords = {p1, p2}
  Nobody = Nobody
  LoginMax = 1
  LoginWindow = 1
  ResetMax = 2
  ResetWindow = 2
  TokenLife = 1
  MaxTime = 2
  MaxRestarts = 2
  MaxSecrets = 3
  MaxTokens = 2
  MaxKeys = 1
SYMMETRY Symmetry
CONSTRAINT InView
INVARIANTS
  AccessTypeOK
  WindowHolds
  BlocksPass
  SwitchConfirmed
  OneUnusedLink
PROPERTIES
  LinksSpentOnce
  TwoSteps
CHECK_DEADLOCK FALSE
