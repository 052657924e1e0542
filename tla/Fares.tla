------------------------------- MODULE Fares -------------------------------
(***************************************************************************)
(* The money of MockAirlineProvider, in cents: what a quote, a change of   *)
(* the flight or of the manifest, and a cancellation come to.  Decimal     *)
(* arithmetic is exact; quantize rounds half up, once per amount.          *)
(***************************************************************************)
EXTENDS Integers

TaxPercent == 8
BookingFee == 2500
Weights == [adult |-> 100, child |-> 75, infant |-> 10]

(* _money of n/d cents.                                                    *)
Money(n, d) == (2 * n + d) \div (2 * d)

(* get_fare_quote, for a price per passenger and a party of three counts.  *)
Weight(adults, children, infants) ==
  Weights.adult * adults + Weights.child * children + Weights.infant * infants

BaseFare(price, adults, children, infants) ==
  Money(price * Weight(adults, children, infants), 100)

Taxes(base) == Money(base * TaxPercent, 100)

QuoteTotal(price, adults, children, infants) ==
  LET base == BaseFare(price, adults, children, infants)
  IN  base + Taxes(base) + BookingFee

(* The total that update_booking, add_passenger and remove_passenger set:  *)
(* every passenger of the manifest weighs as much as an adult.             *)
ManifestTotal(price, passengers) ==
  LET count == IF passengers = 0 THEN 1 ELSE passengers
  IN  Money(price * count * (100 + TaxPercent), 100) + BookingFee

(* _compute_cancellation_policy, of a booking that is not cancelled.  left *)
(* is the time to the departure in hours, and may be negative.             *)
FeePercent(left) ==
  CASE left <= 24 -> 90
    [] left > 24 /\ left <= 48 -> 50
    [] left > 48 /\ left <= 7 * 24 -> 25
    [] OTHER -> 10

CancellationFee(total, left) == Money(total * FeePercent(left), 100)
Refundable(total, left) == total - CancellationFee(total, left)
=============================================================================
