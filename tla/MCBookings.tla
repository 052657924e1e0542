----------------------------- MODULE MCBookings -----------------------------
(* A small instance of Bookings: two flights, a party of two and one       *)
(* passenger added later; and Fares and Catalogue over a range of values.  *)
EXTENDS Bookings, Catalogue

CONSTANTS p1, p2, r1, r2, n1, n2, x1, x2, f1, f2, t1, t2, k1, c1, c2

MCFlightPrice == [f \in Flights |->
  PricePerPassenger("FRA", IF f = f1 THEN "CDG" ELSE "DXB", 9001, "economy")]
MCQuote == [flight |-> f1, adults |-> 1, children |-> 1]

ASSUME FaresAddUp ==
  \A total \in 0..300, left \in {-5, 0, 24, 25, 48, 49, 168, 169, 1000} :
    /\ CancellationFee(total, left) \in 0..total
    /\ \A later \in {-5, 24, 48, 168} :
         later <= left => Refundable(total, later) <= Refundable(total, left)

ASSUME AdultsPayTheQuote ==
  \A price \in 0..200, adults \in 1..4 :
    QuoteTotal(price, adults, 0, 0) = ManifestTotal(price, adults)

ASSUME OffersAreFoundAgain ==
  \A origin, destination \in Airports, cabin \in Cabins :
    \A flight \in WebSearch(origin, destination, 1, cabin).offers :
      GetFlight(MakeFlightId(flight)) =
        IF cabin = "premium_economy" THEN {} ELSE {flight}

ASSUME QuotesFollowOffers ==
  \A flight \in WebSearch("FRA", "DXB", 1, "first").offers :
    QuotedTotals(MakeFlightId(flight), 10000, 1, 0, 0)
      = {QuoteTotal(PricePerPassenger("FRA", "DXB", 10000, "first"), 1, 0, 0)}

ASSUME AirportsResolve ==
  /\ \A code \in Airports : ResolveAirport(code) = code
  /\ ResolveAirport("london") = "AMBIGUOUS_AIRPORT"
  /\ UNION {CityAirports[city] : city \in DOMAIN CityAirports} = Airports
=============================================================================
