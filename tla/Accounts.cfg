CONSTANTS
  b1 = b1
  b2 = b2
  t1 = t1
  t2 = t2
  None = None
  Browsers = {b1, b2}
  Threads = {t1, t2}
  MaxSessions = 3
  MaxLinks = 2
  MaxPasswords = 2
  MaxRefreshes = 2
  MaxRequests = 4
  MaxFaults = 1
SPECIFICATION Spec
INVARIANTS TypeOK SessionsKnowThePassword PasswordIsLastSet ResetLinksAreSingle BrowserKeepsSession
PROPERTY RevokedForGood
SYMMETRY Alike
CHECK_DEADLOCK FALSE
