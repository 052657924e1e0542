SPECIFICATION Spec
CONSTANTS
  c1 = c1
  c2 = c2
  c3 = c3
  c4 = c4
  c5 = c5
  k1 = k1
  m1 = m1
  m2 = m2
  Report = Report
  Calls = {c1, c2, c3, c4, c5}
  Keys = {k1}
  Messages = {m1, m2, Report}
  Threads = {t1}
  CallsOf <- TwoBatches
  Kind <- EveryKind
  KeyOf <- MCKeyOf
  MaxDeliveries = 2
  MaxFaults = 1
  MaxRestarts = 1
CHECK_DEADLOCK FALSE
INVARIANT AddedOncePerFault
INVARIANT BookedOncePerLife
