SPECIFICATION FairSpec
CONSTANTS
  c1 = c1
  c2 = c2
  c3 = c3
  c4 = c4
  c5 = c5
  k1 = k1
  m1 = m1
  m2 = m2
  Report = Report
  Calls = {c1, c2}
  Keys = {k1}
  Messages = {m1}
  Threads = {t1, t2}
  CallsOf <- TwoCalls
  Kind <- AddThenCreate
  KeyOf <- MCKeyOf
  MaxDeliveries = 3
  MaxFaults = 1
  MaxRestarts = 1
CHECK_DEADLOCK FALSE
INVARIANT TypeOK
INVARIANT SuccessIsReal
INVARIANT NoOrphanedKey
PROPERTY EveryDeliveryEnds
PROPERTY ImplementsOncePerLife
