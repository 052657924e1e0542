---------------------------- MODULE FaresProofs ----------------------------
(* What holds of every fare and of every flight.                          *)
EXTENDS Catalogue, TLAPS

(* mock.py, _compute_cancellation_policy: whatever the price and however   *)
(* late the cancellation, the fee and the refund are amounts that add up   *)
(* to the price, so that a refund never exceeds what was paid.             *)
THEOREM RefundIsBounded ==
  ASSUME NEW total \in Nat, NEW left \in Int
  PROVE  /\ CancellationFee(total, left) \in 0..total
         /\ Refundable(total, left) \in 0..total
         /\ CancellationFee(total, left) + Refundable(total, left) = total
<1>1. FeePercent(left) \in {90, 50, 25, 10}
  BY DEF FeePercent
<1>2. CancellationFee(total, left) \in 0..total
  <2>1. CASE FeePercent(left) = 90
    BY <2>1 DEF CancellationFee, Money
  <2>2. CASE FeePercent(left) = 50
    BY <2>2 DEF CancellationFee, Money
  <2>3. CASE FeePercent(left) = 25
    BY <2>3 DEF CancellationFee, Money
  <2>4. CASE FeePercent(left) = 10
    BY <2>4 DEF CancellationFee, Money
  <2> QED BY <1>1, <2>1, <2>2, <2>3, <2>4
<1> QED BY <1>2 DEF Refundable

(* mock.py, _compute_cancellation_policy: cancelling later never pays      *)
(* more.                                                                   *)
THEOREM LaterRefundsLess ==
  ASSUME NEW total \in Nat, NEW early \in Int, NEW late \in Int, late <= early
  PROVE  Refundable(total, late) <= Refundable(total, early)
<1>1. /\ FeePercent(late) \in {90, 50, 25, 10}
      /\ FeePercent(early) \in {90, 50, 25, 10}
      /\ FeePercent(early) <= FeePercent(late)
  BY DEF FeePercent
<1>2. Money(total * FeePercent(early), 100) <= Money(total * FeePercent(late), 100)
  BY <1>1 DEF Money
<1>3. /\ CancellationFee(total, early) \in Int
      /\ CancellationFee(total, late) \in Int
  BY RefundIsBounded
<1> QED BY <1>2, <1>3 DEF Refundable, CancellationFee

(* mock.py, get_fare_quote and add_passenger: the two formulas agree on a  *)
(* party of adults, so that a change that puts the booking back to what    *)
(* was quoted puts the price back.                                         *)
THEOREM AdultsPayTheQuote ==
  ASSUME NEW price \in Nat, NEW adults \in Nat \ {0}
  PROVE  QuoteTotal(price, adults, 0, 0) = ManifestTotal(price, adults)
<1> DEFINE fare == price * adults
<1>1. fare \in Nat
  OBVIOUS
<1>2. BaseFare(price, adults, 0, 0) = fare
  <2>1. price * Weight(adults, 0, 0) = fare * 100
    BY DEF Weight, Weights
  <2> HIDE DEF fare
  <2> QED BY <1>1, <2>1 DEF BaseFare, Money
<1>3. ManifestTotal(price, adults) = Money(fare * 108, 100) + BookingFee
  BY DEF ManifestTotal, TaxPercent
<1> HIDE DEF fare
<1>4. QuoteTotal(price, adults, 0, 0) = fare + Money(fare * 8, 100) + BookingFee
  BY <1>2 DEF QuoteTotal, Taxes, TaxPercent
<1>5. fare + Money(fare * 8, 100) = Money(fare * 108, 100)
  BY <1>1 DEF Money
<1> QED BY <1>3, <1>4, <1>5
-----------------------------------------------------------------------------
(* Flights.                                                                *)

(* mock.py, header: "search_flights(...) and a later get_flight(flight_id) *)
(* always agree on the same flight's details".  They do for every flight   *)
(* of a cabin whose name has no underscore.                                *)
THEOREM OffersAreFoundAgain ==
  ASSUME NEW origin, NEW destination, NEW day,
         NEW cabin \in Cabins \ {"premium_economy"},
         NEW flight \in WebSearch(origin, destination, day, cabin).offers
  PROVE  GetFlight(MakeFlightId(flight)) = {flight}
<1>1. /\ {origin, destination} \subseteq Airports
      /\ \E index \in 0..(FlightsPerSearch - 1) :
           flight = Flight(origin, destination, Calendar(day), index, cabin)
  BY DEF WebSearch, Search, Error
<1>2. PICK index \in 0..(FlightsPerSearch - 1) :
        flight = Flight(origin, destination, Calendar(day), index, cabin)
  BY <1>1
<1>3. MakeFlightId(flight) = <<"MOCK", origin, destination, day, index, cabin>>
  BY <1>2 DEF MakeFlightId, Flight, Calendar
<1>4. ParseFlightId(MakeFlightId(flight)) = {flight}
  BY <1>2, <1>3 DEF ParseFlightId
<1>5. flight.origin = origin /\ flight.destination = destination
  BY <1>2 DEF Flight
<1> QED BY <1>1, <1>4, <1>5 DEF GetFlight

(* mock.py, _parse_flight_id: a flight in premium economy is offered by a  *)
(* search, and neither a lookup nor a quote ever finds it.                 *)
THEOREM PremiumIsLost ==
  ASSUME NEW origin \in Airports, NEW destination \in Airports \ {origin}, NEW day
  PROVE  LET offers == WebSearch(origin, destination, day, "premium_economy").offers
         IN  /\ offers # {}
             /\ \A flight \in offers : GetFlight(MakeFlightId(flight)) = {}
<1> DEFINE found(index) ==
      Flight(origin, destination, Calendar(day), index, "premium_economy")
<1>1. WebSearch(origin, destination, day, "premium_economy").offers
        = {found(index) : index \in 0..(FlightsPerSearch - 1)}
  BY DEF WebSearch, Search, Calendar
<1>2. 0 \in 0..(FlightsPerSearch - 1)
  BY DEF FlightsPerSearch
<1>3. ASSUME NEW index \in 0..(FlightsPerSearch - 1)
      PROVE  GetFlight(MakeFlightId(found(index))) = {}
  <2>1. MakeFlightId(found(index))
          = <<"MOCK", origin, destination, day, index, "premium", "economy">>
    BY DEF MakeFlightId, Flight, Calendar
  <2>2. ParseFlightId(MakeFlightId(found(index))) = {}
    BY <2>1 DEF ParseFlightId
  <2> QED BY <2>2 DEF GetFlight
<1> QED BY <1>1, <1>2, <1>3

(* argument_mapping.py map_search_flights beside mock.py _make_flight_id:  *)
(* the voice tool hands the text of a date to code that needs a date, so   *)
(* whatever a caller asks for, the assistant hears of an error.            *)
THEOREM VoiceSearchFails ==
  ASSUME NEW origin, NEW destination, NEW day, NEW cabin
  PROVE  /\ VoiceSearch(origin, destination, day, cabin).error # "none"
         /\ VoiceSearch(origin, destination, day, cabin).offers = {}
BY DEF VoiceSearch, Search, Error, Text

(* mock.py, _generate_flight: on one flight a better cabin never costs     *)
(* less, and every seat costs something.                                   *)
THEOREM CabinsAreOrdered ==
  ASSUME NEW origin, NEW destination, NEW jitter \in 8500..12500
  PROVE  LET price(cabin) == PricePerPassenger(origin, destination, jitter, cabin)
         IN  /\ 0 < price("economy")
             /\ price("charter") = price("economy")
             /\ price("economy") <= price("premium_economy")
             /\ price("premium_economy") <= price("business")
             /\ price("business") <= price("first")
<1> DEFINE base == BasePrice(origin, destination)
<1>1. base \in {140, 320, 620}
  BY DEF BasePrice
<1>2. /\ Multiplier("economy") = 10 /\ Multiplier("charter") = 10
      /\ Multiplier("premium_economy") = 16
      /\ Multiplier("business") = 32 /\ Multiplier("first") = 50
  BY DEF Multiplier
<1> HIDE DEF base
<1>3. /\ 0 < Money(base * jitter * 10, 1000)
      /\ Money(base * jitter * 10, 1000) <= Money(base * jitter * 16, 1000)
      /\ Money(base * jitter * 16, 1000) <= Money(base * jitter * 32, 1000)
      /\ Money(base * jitter * 32, 1000) <= Money(base * jitter * 50, 1000)
  <2>1. CASE base = 140
    BY <2>1 DEF Money
  <2>2. CASE base = 320
    BY <2>2 DEF Money
  <2>3. CASE base = 620
    BY <2>3 DEF Money
  <2> QED BY <1>1, <2>1, <2>2, <2>3
<1> QED BY <1>2, <1>3 DEF PricePerPassenger, base
=============================================================================
