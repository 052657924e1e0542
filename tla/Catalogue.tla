----------------------------- MODULE Catalogue -----------------------------
(***************************************************************************)
(* The flights of MockAirlineProvider and the ways that lead to one: a     *)
(* search of the web client or of the voice assistant, the flight's id,    *)
(* a lookup and a quote.  Nothing is stored: an id encodes what a flight   *)
(* is generated from, and a price is a function of it and of the jitter    *)
(* that the seeded generator draws (in ten-thousandths).                   *)
(*                                                                         *)
(* A date is a calendar object or the text of one; the name of a cabin is  *)
(* split at each "_" when it is part of an id.                             *)
(***************************************************************************)
EXTENDS Fares, Sequences

Cabins == {"economy", "premium_economy", "business", "first", "charter"}

European == {"FRA", "BER", "MUC", "HAM", "CDG", "NCE", "LHR", "LGW", "STN",
             "LTN", "AMS", "MAD", "FCO"}
GulfAndTurkey == {"DXB", "DOH", "IST"}
Airports == European \cup GulfAndTurkey \cup {"JFK", "LAX"}

(* CITY_TO_AIRPORTS.                                                       *)
CityAirports ==
  [london |-> {"LHR", "LGW", "STN", "LTN"}, frankfurt |-> {"FRA"},
   berlin |-> {"BER"}, munich |-> {"MUC"}, hamburg |-> {"HAM"},
   paris |-> {"CDG"}, dubai |-> {"DXB"}, doha |-> {"DOH"}, newYork |-> {"JFK"},
   losAngeles |-> {"LAX"}, istanbul |-> {"IST"}, amsterdam |-> {"AMS"},
   madrid |-> {"MAD"}, rome |-> {"FCO"}, nice |-> {"NCE"}]

(* FlightService.resolve_airport.                                          *)
ResolveAirport(text) ==
  LET matches == IF text \in Airports THEN {text}
                 ELSE IF text \in DOMAIN CityAirports THEN CityAirports[text]
                 ELSE {}
  IN  CASE matches = {} -> "UNKNOWN_AIRPORT"
        [] \E code \in matches : matches = {code} -> CHOOSE code \in matches : TRUE
        [] OTHER -> "AMBIGUOUS_AIRPORT"

-----------------------------------------------------------------------------
(* Flights.                                                                *)

Calendar(day) == [form |-> "date", day |-> day]
Text(day) == [form |-> "text", day |-> day]

(* All that _generate_flight is a function of.                             *)
Flight(origin, destination, departure, index, cabin) ==
  [origin |-> origin, destination |-> destination, departure |-> departure,
   index |-> index, cabin |-> cabin]

BasePrice(origin, destination) ==
  IF {origin, destination} \subseteq European THEN 140
  ELSE IF {origin, destination} \cap GulfAndTurkey # {} THEN 320
  ELSE 620

(* cabin_multiplier, in tenths.                                            *)
Multiplier(cabin) ==
  CASE cabin = "premium_economy" -> 16
    [] cabin = "business" -> 32
    [] cabin = "first" -> 50
    [] OTHER -> 10

(* In cents.                                                               *)
PricePerPassenger(origin, destination, jitter, cabin) ==
  Money(BasePrice(origin, destination) * jitter * Multiplier(cabin), 1000)

-----------------------------------------------------------------------------
(* Search.  Neither service nor route passes max_results.                  *)

FlightsPerSearch == 4

Error(code) == [error |-> code, offers |-> {}]

Search(origin, destination, departure, cabin) ==
  IF ~({origin, destination} \subseteq Airports) THEN Error("UNKNOWN_AIRPORT")
  ELSE IF origin = destination THEN Error("INVALID_ROUTE")
  ELSE IF departure.form # "date" THEN Error("INTERNAL_ERROR")   \* isoformat
  ELSE [error |-> "none",
        offers |-> {Flight(origin, destination, departure, index, cabin) :
                      index \in 0..(FlightsPerSearch - 1)}]

(* FlightSearchRequest makes a date of what a client sends; the mapper of  *)
(* the voice tool passes on the assistant's text.                          *)
WebSearch(origin, destination, day, cabin) ==
  Search(origin, destination, Calendar(day), cabin)

VoiceSearch(origin, destination, day, cabin) ==
  Search(origin, destination, Text(day), cabin)

-----------------------------------------------------------------------------
(* Ids, as the sequence of the parts that "_" separates.  A lookup gives   *)
(* the set of the flights it finds: one, or none and FlightNotFoundError.  *)

MakeFlightId(flight) ==
  LET o == flight.origin
      d == flight.destination
      day == flight.departure.day
  IN  IF flight.cabin = "premium_economy"
      THEN <<"MOCK", o, d, day, flight.index, "premium", "economy">>
      ELSE <<"MOCK", o, d, day, flight.index, flight.cabin>>

ParseFlightId(id) ==
  IF Len(id) # 6 \/ id[1] # "MOCK" \/ id[6] \notin Cabins THEN {}
  ELSE {Flight(id[2], id[3], Calendar(id[4]), id[5], id[6])}

GetFlight(id) ==
  {flight \in ParseFlightId(id) :
     {flight.origin, flight.destination} \subseteq Airports}

(* get_fare_quote takes the price of the id's cabin, not of the cabin it   *)
(* is asked for.                                                           *)
QuotedTotals(id, jitter, adults, children, infants) ==
  {QuoteTotal(PricePerPassenger(flight.origin, flight.destination, jitter,
                                flight.cabin),
              adults, children, infants) : flight \in GetFlight(id)}

-----------------------------------------------------------------------------
(* get_aircraft_availability.  A filter is the set of the values it lets   *)
(* through; departures holds the date, if one is given.                    *)

MatchingAircraft(fleet, locations, categories, minSeats) ==
  {craft \in fleet : /\ craft.location \in locations
                     /\ craft.category \in categories
                     /\ craft.capacity >= minSeats}

AircraftAvailability(fleet, locations, categories, minSeats, departures) ==
  LET matches == MatchingAircraft(fleet, locations, categories, minSeats)
      dated   == \A departure \in departures : departure.form = "date"
  IN  IF matches # {} /\ ~dated THEN [error |-> "INTERNAL_ERROR", aircraft |-> {}]
      ELSE [error |-> "none", aircraft |-> matches]
=============================================================================
