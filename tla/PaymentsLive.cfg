SPECIFICATION FairSpec
CONSTANTS
  b1 = b1
  f1 = f1
  Null = Null
  Bookings = {b1}
  CreateKeys = {k1}
  RefundKeys = {}
  CancelKeys = {c1}
  BookingOf <- MCBookingOf
  AskedAmount <- MCAskedAmount
  Price = 2
  RefundableAmounts = {0, 1, 2}
  Reqs = {r1}
  MaxFaults = 2
CHECK_DEADLOCK FALSE
PROPERTY ChargeIsEventuallyRecorded
