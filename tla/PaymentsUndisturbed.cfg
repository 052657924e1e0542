SPECIFICATION Spec
CONSTANTS
  b1 = b1
  f1 = f1
  Null = Null
  Bookings = {b1}
  CreateKeys = {k1, k2}
  RefundKeys = {f2}
  CancelKeys = {c1}
  BookingOf <- MCBookingOf
  AskedAmount <- MCAskedAmount
  Price = 2
  RefundableAmounts = {0, 1, 2}
  Reqs = {r1, r2}
  MaxFaults = 0
SYMMETRY MCSymmetry
CONSTRAINT Undisturbed
CHECK_DEADLOCK FALSE
INVARIANT BooksCoverRefunds
