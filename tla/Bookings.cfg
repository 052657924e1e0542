CONSTANTS
  p1 = p1
  p2 = p2
  r1 = r1
  r2 = r2
  n1 = n1
  n2 = n2
  x1 = x1
  x2 = x2
  f1 = f1
  f2 = f2
  t1 = t1
  t2 = t2
  k1 = k1
  c1 = c1
  c2 = c2
  None = None
  CreateKeys = {k1}
  Callers = {c1}
  Pnrs = {p1, p2}
  Refs = {r1, r2}
  Party = {n1, n2}
  Added = {x1, x2}
  Flights = {f1, f2}
  FlightPrice <- MCFlightPrice
  Quote <- MCQuote
  Threads = {t1, t2}
  MaxRequests = 4
  MaxFaults = 1
SPECIFICATION FairSpec
INVARIANTS TypeOK BookedOnce RowFollowsAirline ManifestIsKnown CancelledAtAirline
PROPERTY KeysAreReleased
CHECK_DEADLOCK FALSE
