SPECIFICATION Spec
CONSTANTS
  b1 = b1
  f1 = f1
  Null = Null
  Bookings = {b1}
  CreateKeys = {k1}
  RefundKeys = {f2}
  CancelKeys = {c1, c2}
  BookingOf <- MCBookingOf
  AskedAmount <- MCAskedAmount
  Price = 2
  RefundableAmounts = {0, 1, 2}
  Reqs = {r1, r2}
  MaxFaults = 1
SYMMETRY MCSymmetry
CHECK_DEADLOCK FALSE
INVARIANT TypeOK
INVARIANT RefundWithinCharge
INVARIANT NoOrphanedKey
INVARIANT OneRefundPerCancellation
INVARIANT CancelledAtAirline
PROPERTY ImplementsLifecycle
