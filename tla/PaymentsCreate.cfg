SPECIFICATION Spec
CONSTANTS
  b1 = b1
  f1 = f1
  Null = Null
  Bookings = {b1}
  CreateKeys = {k1, k2}
  RefundKeys = {}
  CancelKeys = {}
  BookingOf <- MCBookingOf
  AskedAmount <- MCAskedAmount
  Price = 1
  RefundableAmounts = {1}
  Reqs = {r1, r2}
  MaxFaults = 1
SYMMETRY MCSymmetry
CHECK_DEADLOCK FALSE
INVARIANT PaidIsCharged
INVARIANT AckedChargeIsRecorded
INVARIANT PendingIsAlive
