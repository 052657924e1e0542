------------------------------ MODULE Bookings ------------------------------
(***************************************************************************)
(* Making and changing a booking: BookingService, PassengerService and the *)
(* status of CancellationService, over the database and the airline's own  *)
(* books (MockAirlineProvider, whose methods hold one lock and are atomic).*)
(*                                                                         *)
(* A request reads the booking, calls the airline and commits the columns  *)
(* it changed; requests of other threads run between these steps.  The     *)
(* calls of one voice batch share a database session, in which a booking   *)
(* that was loaded once is not read again: such a thread is at "held".     *)
(*                                                                         *)
(* Money is in cents (Fares); a flight stands for every column it gives    *)
(* the booking; the two contact columns are one value.  A request that is  *)
(* refused before it changes anything is no step.  Refunds are the subject *)
(* of Payments.                                                            *)
(***************************************************************************)
EXTENDS Fares, FiniteSets

CONSTANTS
  CreateKeys,    \* idempotency keys of create_booking requests
  Callers,       \* calls and clients: part of every other idempotency key
  Pnrs,          \* rows of bookings
  Refs,          \* the airline's references
  Party,         \* passengers of a new booking
  Added,         \* ids that the airline gives to passengers added later
  Flights,
  FlightPrice,   \* flight -> price per passenger
  Quote,         \* the quote of create requests: [flight, adults, children]
  Threads,
  MaxRequests,   \* bound: requests that read or make a booking
  MaxFaults,     \* bound: commits that fail
  None

People == Party \cup Added
Changes == Flights \cup {"contact"}
ModifyKeys == Callers \X Pnrs \X Changes
CancelKeys == Callers \X Pnrs

ASSUME BookingsAssumption ==
  /\ Party # {}
  /\ Party \cap Added = {}
  /\ IsFiniteSet(People)
  /\ "contact" \notin Flights
  /\ FlightPrice \in [Flights -> Nat]
  /\ Quote \in [flight : Flights, adults : Nat, children : Nat]
  /\ CreateKeys \cap (ModifyKeys \cup CancelKeys) = {}
  /\ ModifyKeys \cap CancelKeys = {}
  /\ MaxRequests \in Nat
  /\ MaxFaults \in Nat

VARIABLES
  rows,        \* bookings and booking_passengers: pnr -> its row, or None
  airline,     \* reference -> the airline's booking, or None
  seen,        \* airline: _idempotency_seen
  store,       \* IdempotencyStore of the process
  request,     \* thread -> the request it serves
  overlapped,  \* history: pnrs with two requests at a time
  served,
  faults

vars == <<rows, airline, seen, store, request, overlapped, served, faults>>

-----------------------------------------------------------------------------
(* Types.                                                                  *)

Statuses == {"CONFIRMED", "MODIFIED", "CANCELLED"}
Contacts == {"given", "changed"}

Rows ==
  [ref : Refs, status : Statuses, flight : Flights, price : Nat,
   contact : Contacts, passengers : SUBSET People, passports : SUBSET People]

AirlineBookings ==
  [key : CreateKeys, status : Statuses, flight : Flights, price : Nat,
   contact : Contacts, manifest : SUBSET People]

Stages == {"create_call", "modify_call", "cancel_call", "add_call",
           "remove_call", "commit", "finish"}

(* key: what _idempotency_seen or the store knows the request by, or None. *)
(* arg: the change, or the passenger.                                      *)
Requests ==
  [at : Stages, pnr : Pnrs \cup {None}, old : Rows \cup {None},
   new : Rows \cup {None}, key : CreateKeys \cup ModifyKeys \cup CancelKeys \cup {None},
   arg : Changes \cup People \cup {None}]

ASSUME NoneAssumption ==
  /\ None \notin Pnrs \cup Refs \cup Rows \cup AirlineBookings
  /\ None \notin CreateKeys \cup ModifyKeys \cup CancelKeys

Idle == [at |-> "idle"]
Held(pnr, row) == [at |-> "held", pnr |-> pnr, old |-> row]

Absent == [state |-> "absent", pnr |-> None]

TypeOK ==
  /\ rows \in [Pnrs -> Rows \cup {None}]
  /\ airline \in [Refs -> AirlineBookings \cup {None}]
  /\ seen \in [CreateKeys \cup ModifyKeys -> Refs \cup {None}]
  /\ store \in [CreateKeys \cup CancelKeys ->
       [state : {"absent", "in_progress", "completed"}, pnr : Pnrs \cup {None}]]
  /\ request \in [Threads -> Requests \cup {Idle} \cup
                    [at : {"held"}, pnr : Pnrs, old : Rows]]
  /\ overlapped \subseteq Pnrs
  /\ served \in 0..MaxRequests
  /\ faults \in 0..MaxFaults

Init ==
  /\ rows = [pnr \in Pnrs |-> None]
  /\ airline = [ref \in Refs |-> None]
  /\ seen = [key \in CreateKeys \cup ModifyKeys |-> None]
  /\ store = [key \in CreateKeys \cup CancelKeys |-> Absent]
  /\ request = [t \in Threads |-> Idle]
  /\ overlapped = {}
  /\ served = 0
  /\ faults = 0

-----------------------------------------------------------------------------
(* Requests.                                                               *)

Serve ==
  /\ served < MaxRequests
  /\ served' = served + 1

InFlight(t) == request[t].at \notin {"idle", "held"}
On(t, pnr) == request[t] # Idle /\ request[t].pnr = pnr

(* get_by_pnr: the row, or the object the session already has.             *)
Loaded(t, pnr) == IF On(t, pnr) THEN request[t].old ELSE rows[pnr]

(* _get_active_booking, or the checks modify_booking begins with.          *)
Load(t, pnr) ==
  /\ ~InFlight(t)
  /\ Loaded(t, pnr) # None
  /\ Loaded(t, pnr).status # "CANCELLED"
  /\ Serve
  /\ overlapped' = IF \E u \in Threads \ {t} : On(u, pnr)
                   THEN overlapped \cup {pnr} ELSE overlapped

Goto(t, stage, pnr, new, key, arg) ==
  request' = [request EXCEPT ![t] =
    [at |-> stage, pnr |-> pnr, old |-> Loaded(t, pnr), new |-> new, key |-> key,
     arg |-> arg]]

(* Mutant: the key of a request that failed stays in progress.             *)
FailKeepingKey(t) ==
  /\ request' = [request EXCEPT ![t] = Idle]
  /\ UNCHANGED store

(* An error: the session is rolled back and forgets what it loaded.        *)
Fail(t) ==
  /\ request' = [request EXCEPT ![t] = Idle]
  /\ store' = IF request[t].key \in DOMAIN store
              THEN [store EXCEPT ![request[t].key] = Absent]   \* fail
              ELSE store

-----------------------------------------------------------------------------
(* A lookup, or the read with which the routes check the access.           *)
LookUp(t, pnr) ==
  /\ ~InFlight(t)
  /\ rows[pnr] # None
  /\ Serve
  /\ overlapped' = IF \E u \in Threads \ {t} : On(u, pnr)
                   THEN overlapped \cup {pnr} ELSE overlapped
  /\ request' = [request EXCEPT ![t] = Held(pnr, Loaded(t, pnr))]
  /\ UNCHANGED <<rows, airline, seen, store, faults>>

-----------------------------------------------------------------------------
(* create_booking.                                                         *)

(* Mutant: the airline does not look for the key.                          *)
KnownNever(key) == FALSE

(* The airline has served this key.                                        *)
Known(key) == seen[key] # None

CreateBegin(t, key) ==
  /\ request[t] = Idle
  /\ store[key] = Absent
  /\ Serve
  /\ store' = [store EXCEPT ![key].state = "in_progress"]
  /\ request' = [request EXCEPT ![t] =
       [at |-> "create_call", pnr |-> None, old |-> None, new |-> None, key |-> key,
        arg |-> None]]
  /\ UNCHANGED <<rows, airline, seen, overlapped, faults>>

RowOf(ref, booking) ==
  [ref |-> ref, status |-> "CONFIRMED", flight |-> booking.flight,
   price |-> booking.price, contact |-> booking.contact,
   passengers |-> booking.manifest, passports |-> {}]

CreateCall(t) ==
  LET r == request[t]
      booking == [key |-> r.key, status |-> "CONFIRMED", flight |-> Quote.flight,
                  price |-> QuoteTotal(FlightPrice[Quote.flight], Quote.adults,
                                       Quote.children, 0),
                  contact |-> "given", manifest |-> Party]
      Booked(ref, answer) ==
        request' = [request EXCEPT ![t].at = "commit", ![t].new = RowOf(ref, answer)]
      fresh == CHOOSE ref \in Refs : airline[ref] = None
  IN  /\ r.at = "create_call"
      /\ \/ /\ Known(r.key)
            /\ Booked(seen[r.key], airline[seen[r.key]])
            /\ UNCHANGED <<airline, seen, store>>
         \/ /\ ~Known(r.key)
            /\ \E ref \in Refs : airline[ref] = None
            /\ airline' = [airline EXCEPT ![fresh] = booking]
            /\ seen' = [seen EXCEPT ![r.key] = fresh]
            /\ Booked(fresh, booking)
            /\ UNCHANGED store
         \/ /\ ~Known(r.key)      \* FARE_EXPIRED
            /\ Fail(t)
            /\ UNCHANGED <<airline, seen>>
      /\ UNCHANGED <<rows, overlapped, served, faults>>

-----------------------------------------------------------------------------
(* modify_booking.                                                         *)

Modify(t, pnr, caller, change) ==
  /\ Load(t, pnr)
  /\ Goto(t, "modify_call", pnr, None, <<caller, pnr, change>>, change)
  /\ UNCHANGED <<rows, airline, seen, store, faults>>

(* Mutant: the airline changes a cancelled booking.                        *)
ModifiableAlways(booking) == TRUE

(* MockAirlineProvider.update_booking.                                     *)
Modifiable(booking) == booking.status # "CANCELLED"

Updated(booking, change) ==
  IF change = "contact" THEN [booking EXCEPT !.contact = "changed"]
  ELSE [booking EXCEPT !.flight = change, !.status = "MODIFIED",
          !.price = ManifestTotal(FlightPrice[change], Cardinality(booking.manifest))]

(* Mutant: the price is not taken from the answer.                         *)
ModifiedAtOldPrice(row, change, answer) ==
  [row EXCEPT !.status = IF change = "contact" THEN @ ELSE "MODIFIED",
              !.flight = answer.flight, !.contact = answer.contact]

(* Mutant: a status the rest of the code does not know.                    *)
ModifiedPending(row, change, answer) ==
  [row EXCEPT !.status = "MODIFICATION_PENDING", !.flight = answer.flight,
              !.price = answer.price, !.contact = answer.contact]

(* The columns modify_booking takes from the airline's answer.             *)
Modified(row, change, answer) ==
  [row EXCEPT !.status = IF change = "contact" THEN @ ELSE "MODIFIED",
              !.flight = answer.flight, !.price = answer.price,
              !.contact = answer.contact]

ModifyCall(t) ==
  LET r == request[t]
      ref == r.old.ref
      Answered(booking) ==
        request' = [request EXCEPT ![t].at = "commit",
                                   ![t].new = Modified(r.old, r.arg, booking)]
  IN  /\ r.at = "modify_call"
      /\ \/ /\ Known(r.key)
            /\ Answered(airline[seen[r.key]])
            /\ UNCHANGED <<airline, seen, store>>
         \/ /\ ~Known(r.key) /\ ~Modifiable(airline[ref])
            /\ Fail(t)
            /\ UNCHANGED <<airline, seen>>
         \/ /\ ~Known(r.key) /\ Modifiable(airline[ref])
            /\ airline' = [airline EXCEPT ![ref] = Updated(@, r.arg)]
            /\ seen' = [seen EXCEPT ![r.key] = ref]
            /\ Answered(Updated(airline[ref], r.arg))
            /\ UNCHANGED store
      /\ UNCHANGED <<rows, overlapped, served, faults>>

-----------------------------------------------------------------------------
(* cancel.                                                                 *)

Cancel(t, pnr, caller) ==
  LET key == <<caller, pnr>>
  IN  /\ Load(t, pnr)
      /\ store[key].state # "completed"
      /\ store' = [store EXCEPT ![key].state = "in_progress"]
      /\ Goto(t, "cancel_call", pnr, None, key, None)
      /\ UNCHANGED <<rows, airline, seen, faults>>

(* A cancelled booking is cancelled again.  That the airline also notes    *)
(* the key matters to nobody: cancel_booking does not look for it.         *)
CancelCall(t) ==
  LET r == request[t]
  IN  /\ r.at = "cancel_call"
      /\ airline' = [airline EXCEPT ![r.old.ref].status = "CANCELLED"]
      /\ request' = [request EXCEPT ![t].at = "commit",
                       ![t].new = [r.old EXCEPT !.status = "CANCELLED"]]
      /\ UNCHANGED <<rows, seen, store, overlapped, served, faults>>

-----------------------------------------------------------------------------
(* Passengers.                                                             *)

AddPassenger(t, pnr) ==
  /\ Load(t, pnr)
  /\ Goto(t, "add_call", pnr, None, None, None)
  /\ UNCHANGED <<rows, airline, seen, store, faults>>

WithManifest(booking, manifest) ==
  [booking EXCEPT !.manifest = manifest,
     !.price = ManifestTotal(FlightPrice[booking.flight], Cardinality(manifest))]

InUse(x) ==
  \/ \E ref \in Refs : airline[ref] # None /\ x \in airline[ref].manifest
  \/ \E pnr \in Pnrs : rows[pnr] # None /\ x \in rows[pnr].passengers
  \/ \E t \in Threads : request[t] # Idle /\ request[t].old # None
                          /\ x \in request[t].old.passengers

AddCall(t) ==
  LET r == request[t]
      booking == airline[r.old.ref]
  IN  /\ r.at = "add_call"
      /\ \E y \in Added : ~InUse(y)
      /\ LET x == CHOOSE y \in Added : ~InUse(y)
             updated == WithManifest(booking, booking.manifest \cup {x})
         IN  /\ airline' = [airline EXCEPT ![r.old.ref] = updated]
             /\ request' = [request EXCEPT ![t].at = "commit",
                  ![t].new = [r.old EXCEPT !.passengers = @ \cup {x},
                                           !.price = updated.price]]
      /\ UNCHANGED <<rows, seen, store, overlapped, served, faults>>

(* The airline gave no id to the passengers of a new booking, so it is not *)
(* told when one of them is removed.  When it refuses, nothing is rolled   *)
(* back.                                                                   *)
RemovePassenger(t, pnr, passenger) ==
  LET row == Loaded(t, pnr)
      without == [row EXCEPT !.passengers = @ \ {passenger},
                             !.passports = @ \ {passenger}]
  IN  /\ Load(t, pnr)
      /\ passenger \in row.passengers
      /\ Cardinality(row.passengers) > 1
      /\ IF passenger \in Added
         THEN Goto(t, "remove_call", pnr, None, None, passenger)
         ELSE Goto(t, "commit", pnr, without, None, passenger)
      /\ UNCHANGED <<rows, airline, seen, store, faults>>

RemoveCall(t) ==
  LET r == request[t]
      booking == airline[r.old.ref]
      updated == WithManifest(booking, booking.manifest \ {r.arg})
  IN  /\ r.at = "remove_call"
      /\ IF r.arg \in booking.manifest /\ updated.manifest # {}
         THEN /\ airline' = [airline EXCEPT ![r.old.ref] = updated]
              /\ request' = [request EXCEPT ![t].at = "commit",
                   ![t].new = [r.old EXCEPT !.passengers = @ \ {r.arg},
                                            !.passports = @ \ {r.arg},
                                            !.price = updated.price]]
         ELSE /\ request' = [request EXCEPT ![t] = Held(r.pnr, r.old)]
              /\ UNCHANGED airline
      /\ UNCHANGED <<rows, seen, store, overlapped, served, faults>>

AddPassport(t, pnr, passenger) ==
  LET row == Loaded(t, pnr)
  IN  /\ Load(t, pnr)
      /\ passenger \in row.passengers
      /\ Goto(t, "commit", pnr, [row EXCEPT !.passports = @ \cup {passenger}],
              None, passenger)
      /\ UNCHANGED <<rows, airline, seen, store, faults>>

-----------------------------------------------------------------------------
(* The commit.                                                             *)

Column(current, old, new) == IF new = old THEN current ELSE new

(* Mutant: the collection is written as a whole.                           *)
MembersAsRead(current, old, new) == new

Members(current, old, new) == (current \cup (new \ old)) \ (old \ new)

Written(current, old, new) ==
  LET passengers == Members(current.passengers, old.passengers, new.passengers)
  IN  [current EXCEPT
         !.status = Column(@, old.status, new.status),
         !.flight = Column(@, old.flight, new.flight),
         !.price = Column(@, old.price, new.price),
         !.contact = Column(@, old.contact, new.contact),
         !.passengers = passengers,
         !.passports = Members(@, old.passports, new.passports) \cap passengers]

(* A passport of a passenger whose row is gone: StaleDataError.            *)
Stale(r) ==
  \E passenger \in r.new.passports \ r.old.passports :
    passenger \notin rows[r.pnr].passengers

Insert(t) ==
  LET r == request[t]
  IN  /\ r.at = "commit" /\ r.old = None
      /\ \E pnr \in Pnrs : rows[pnr] = None
      /\ LET fresh == CHOOSE pnr \in Pnrs : rows[pnr] = None
         IN  /\ rows' = [rows EXCEPT ![fresh] = r.new]
             /\ request' = [request EXCEPT ![t].at = "finish", ![t].pnr = fresh,
                                           ![t].old = r.new]
      /\ UNCHANGED <<airline, seen, store, overlapped, served, faults>>

Update(t) ==
  LET r == request[t]
  IN  /\ r.at = "commit" /\ r.old # None
      /\ IF Stale(r) THEN Fail(t) /\ UNCHANGED rows
         ELSE /\ rows' = [rows EXCEPT ![r.pnr] = Written(@, r.old, r.new)]
              /\ request' = [request EXCEPT ![t] =
                   IF r.key \in CancelKeys
                   THEN [r EXCEPT !.at = "finish", !.old = r.new]
                   ELSE Held(r.pnr, r.new)]
              /\ UNCHANGED store
      /\ UNCHANGED <<airline, seen, overlapped, served, faults>>

(* IdempotencyStore.complete.                                              *)
Finish(t) ==
  LET r == request[t]
  IN  /\ r.at = "finish"
      /\ store' = [store EXCEPT ![r.key] = [state |-> "completed", pnr |-> r.pnr]]
      /\ request' = [request EXCEPT ![t] = Held(r.pnr, r.old)]
      /\ UNCHANGED <<rows, airline, seen, overlapped, served, faults>>

CommitFails(t) ==
  /\ request[t].at = "commit"
  /\ faults < MaxFaults
  /\ faults' = faults + 1
  /\ Fail(t)
  /\ UNCHANGED <<rows, airline, seen, overlapped, served>>

(* The batch, or the request, is over.                                     *)
Close(t) ==
  /\ request[t].at = "held"
  /\ request' = [request EXCEPT ![t] = Idle]
  /\ UNCHANGED <<rows, airline, seen, store, overlapped, served, faults>>

-----------------------------------------------------------------------------

Receive(t) ==
  \/ \E key \in CreateKeys : CreateBegin(t, key)
  \/ \E pnr \in Pnrs :
       \/ LookUp(t, pnr)
       \/ \E caller \in Callers, change \in Changes : Modify(t, pnr, caller, change)
       \/ \E caller \in Callers : Cancel(t, pnr, caller)
       \/ AddPassenger(t, pnr)
       \/ \E passenger \in People : RemovePassenger(t, pnr, passenger)
       \/ \E passenger \in People : AddPassport(t, pnr, passenger)

Proceed(t) ==
  \/ CreateCall(t)
  \/ ModifyCall(t)
  \/ CancelCall(t)
  \/ AddCall(t)
  \/ RemoveCall(t)
  \/ Insert(t)
  \/ Update(t)
  \/ Finish(t)
  \/ Close(t)

Next == \E t \in Threads : Receive(t) \/ Proceed(t) \/ CommitFails(t)

Spec == Init /\ [][Next]_vars

(* A thread carries the request it has begun to its end.                   *)
FairSpec == Spec /\ \A t \in Threads : WF_vars(Proceed(t))

-----------------------------------------------------------------------------
(* Properties.                                                             *)

BookingOf(pnr) == airline[rows[pnr].ref]
Quiet(pnr) == \A t \in Threads : ~On(t, pnr)

(* idempotency.py "retrying create_booking must never create a second      *)
(* booking": a key gives at most one booking at the airline and one row;   *)
(* and while no commit has failed, no booking is left without its row.     *)
BookedOnce ==
  /\ \A r, s \in Refs : airline[r] # None /\ airline[s] # None
                          /\ airline[r].key = airline[s].key => r = s
  /\ \A p, q \in Pnrs : rows[p] # None /\ rows[q] # None
                          /\ rows[p].ref = rows[q].ref => p = q
  /\ faults = 0 /\ (\A t \in Threads : ~InFlight(t))
       => \A ref \in Refs : airline[ref] # None
            => \E pnr \in Pnrs : rows[pnr] # None /\ rows[pnr].ref = ref

(* booking_service.py, passenger_service.py: requests that follow one      *)
(* another and commit leave the row with the airline's flight, price and   *)
(* contact, cancelled exactly if the airline has cancelled, and never      *)
(* without a passenger.                                                    *)
RowFollowsAirline ==
  \A pnr \in Pnrs \ overlapped :
    rows[pnr] # None /\ Quiet(pnr) /\ faults = 0
      => /\ rows[pnr].flight = BookingOf(pnr).flight
         /\ rows[pnr].price = BookingOf(pnr).price
         /\ rows[pnr].contact = BookingOf(pnr).contact
         /\ (rows[pnr].status = "CANCELLED") = (BookingOf(pnr).status = "CANCELLED")
         /\ rows[pnr].passengers # {}

(* passenger_service.py: however requests overlap, the passengers that     *)
(* have an airline id are the ones on the airline's manifest, and every    *)
(* passenger of the row is there.                                          *)
ManifestIsKnown ==
  \A pnr \in Pnrs :
    rows[pnr] # None /\ faults = 0 /\ (\A t \in Threads : ~InFlight(t))
      => /\ rows[pnr].passengers \cap Added = BookingOf(pnr).manifest \cap Added
         /\ rows[pnr].passengers \subseteq BookingOf(pnr).manifest

(* cancellation_service.py: a booking that its row calls cancelled, or for *)
(* which a cancellation was completed, is cancelled at the airline,        *)
(* whatever request overlapped it or commit failed.                        *)
CancelledAtAirline ==
  \A pnr \in Pnrs : rows[pnr] # None =>
    \/ BookingOf(pnr).status = "CANCELLED"
    \/ /\ rows[pnr].status # "CANCELLED"
       /\ \A caller \in Callers : store[<<caller, pnr>>].state # "completed"

(* booking_service.py, cancellation_service.py: a key that a request       *)
(* marked in progress is released, whichever step failed.                  *)
KeysAreReleased ==
  \A key \in CreateKeys \cup CancelKeys : []<>(store[key].state # "in_progress")

(* passenger_service.py:61 "A booking must have at least one passenger."   *)
SomebodyFlies == \A pnr \in Pnrs : rows[pnr] # None => rows[pnr].passengers # {}

(* cancellation_service.py:77 calls a cancellation "irreversible from      *)
(* here": a booking the airline has cancelled is not shown as one that     *)
(* stands, once no request is in progress and no commit has failed.        *)
CancelledIsShown ==
  \A pnr \in Pnrs :
    rows[pnr] # None /\ faults = 0 /\ (\A t \in Threads : ~InFlight(t))
      => (BookingOf(pnr).status = "CANCELLED" => rows[pnr].status = "CANCELLED")
=============================================================================
