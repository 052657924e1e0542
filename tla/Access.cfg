CONSTANTS
  b1 = b1
  b2 = b2
  customer = customer
  t1 = t1
  t2 = t2
  k1 = k1
  k2 = k2
  Bookings = {b1, b2}
  Owner <- MCOwner
  Looked = {b1}
  Tokens = {k1}
  WebPurposes = {"cancel_booking"}
  Threads = {t1, t2}
  MaxAttempts = 2
  Threshold = 2
  BaseBackoff = 1
  MaxBackoff = 2
  Saturation = 3
  SessionTTL = 1
  MaxFaults = 1
SPECIFICATION FairSpec
INVARIANTS TypeOK EntitledOnly DispatchedIsVerified GuessesAreCounted FailuresAreCounted
PROPERTY LocksEnd
CHECK_DEADLOCK FALSE
