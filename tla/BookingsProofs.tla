--------------------------- MODULE BookingsProofs ---------------------------
(* Bookings: its types, BookedOnce, CancelledAtAirline, ManifestIsKnown    *)
(* and RowFollowsAirline for any number of threads, keys, bookings,        *)
(* passengers and failing commits.                                         *)
EXTENDS Bookings, FiniteSetTheorems, TLAPS

-----------------------------------------------------------------------------
(* The inductive invariant.                                                *)

Dead(ref) == airline[ref] # None /\ airline[ref].status = "CANCELLED"

(* create_booking on its way to its row, or to the release of its key.     *)
Making(t) == \/ request[t].at = "create_call"
             \/ (request[t].at = "commit" /\ request[t].old = None)
Creating(t) == \/ Making(t)
               \/ (request[t].at = "finish" /\ request[t].key \in CreateKeys)

(* What each stage of a request knows.                                     *)
Staged(t) ==
  LET r == request[t]
  IN  /\ r.at = "create_call" => r.key \in CreateKeys /\ r.old = None
      /\ r.at \in {"modify_call", "cancel_call", "add_call", "remove_call"}
           => r.pnr \in Pnrs /\ r.old \in Rows
      /\ r.at = "modify_call" => r.key \in ModifyKeys /\ r.arg \in Changes
      /\ r.at = "cancel_call" => r.key \in CancelKeys
      /\ r.at \in {"add_call", "remove_call"} => r.key = None
      /\ r.at = "commit" => r.new \in Rows
      /\ r.at = "commit" /\ r.old = None => r.key \in CreateKeys
      /\ r.at = "commit" /\ r.old # None
           => r.pnr \in Pnrs /\ r.old \in Rows /\ r.key \notin CreateKeys
      /\ r.at = "finish" => /\ r.pnr \in Pnrs /\ r.old \in Rows
                            /\ r.key \in CreateKeys \cup CancelKeys

(* What a request holds is of the booking it is about: the row it loaded   *)
(* and the row it will write.                                              *)
HoldsOld(t) ==
  LET r == request[t]
  IN  r # Idle /\ r.old # None
        => /\ rows[r.pnr] # None
           /\ rows[r.pnr].ref = r.old.ref
           /\ r.old.status = "CANCELLED" => Dead(r.old.ref)

HoldsNew(t) ==
  LET r == request[t]
  IN  r.at = "commit"
        => /\ r.old # None => r.new.ref = r.old.ref
           /\ r.old = None => airline[r.new.ref] # None
                              /\ airline[r.new.ref].key = r.key
           /\ r.new.status = "CANCELLED" => Dead(r.new.ref)

(* A cancellation is of the booking its key names, and once the airline    *)
(* has answered that booking is cancelled.                                 *)
Cancelling(t) ==
  LET r == request[t]
  IN  InFlight(t) /\ r.key \in CancelKeys
        => /\ r.key[2] = r.pnr
           /\ r.at \in {"commit", "finish"} => Dead(r.old.ref)

RowsAreBooked ==
  \A pnr \in Pnrs : rows[pnr] # None
    => /\ airline[rows[pnr].ref] # None
       /\ rows[pnr].status = "CANCELLED" => Dead(rows[pnr].ref)

CompletedIsDead ==
  \A caller \in Callers, pnr \in Pnrs :
    store[<<caller, pnr>>].state = "completed"
      => rows[pnr] # None /\ Dead(rows[pnr].ref)

(* The airline finds every booking by its key, and nothing else by a key   *)
(* of create_booking.                                                      *)
SeenIsBooked ==
  /\ \A ref \in Refs : airline[ref] # None => seen[airline[ref].key] = ref
  /\ \A key \in CreateKeys \cup ModifyKeys : seen[key] # None
       => /\ airline[seen[key]] # None
          /\ key \in CreateKeys => airline[seen[key]].key = key

(* One request at a time works on a key of create_booking; while it has no *)
(* row nobody has one for this key, and whoever has one keeps the key.     *)
KeysAreHeld ==
  /\ \A t \in Threads : Creating(t) => store[request[t].key].state # "absent"
  /\ \A t, u \in Threads :
       Creating(t) /\ Creating(u) /\ request[t].key = request[u].key => t = u
  /\ \A pnr \in Pnrs : rows[pnr] # None
       => store[airline[rows[pnr].ref].key].state # "absent"
  /\ \A t \in Threads, pnr \in Pnrs : Making(t) /\ rows[pnr] # None
       => airline[rows[pnr].ref].key # request[t].key

OneRowEach ==
  \A p, q \in Pnrs : rows[p] # None /\ rows[q] # None /\ rows[p].ref = rows[q].ref
    => p = q

(* While no commit failed, every booking of the airline has its row, or    *)
(* the request that made it is about to write it.                          *)
NoneIsLost ==
  faults = 0 => \A ref \in Refs : airline[ref] # None
    => \/ \E pnr \in Pnrs : rows[pnr] # None /\ rows[pnr].ref = ref
       \/ \E t \in Threads : /\ request[t].at = "commit" /\ request[t].old = None
                             /\ request[t].new.ref = ref

Threaded(t) == Staged(t) /\ HoldsOld(t) /\ HoldsNew(t) /\ Cancelling(t)

IInv ==
  /\ TypeOK
  /\ \A t \in Threads : Threaded(t)
  /\ RowsAreBooked
  /\ CompletedIsDead
  /\ SeenIsBooked
  /\ KeysAreHeld
  /\ OneRowEach
  /\ NoneIsLost

-----------------------------------------------------------------------------
(* Prices are amounts, and a price or a row that is updated keeps its type.*)

LEMMA MoneyType == \A n \in Nat : Money(n, 100) \in Nat
BY DEF Money

LEMMA QuoteType ==
  \A price \in Nat, adults, children \in Nat :
    QuoteTotal(price, adults, children, 0) \in Nat
<1> SUFFICES ASSUME NEW price \in Nat, NEW adults \in Nat, NEW children \in Nat
             PROVE  QuoteTotal(price, adults, children, 0) \in Nat
  OBVIOUS
<1>1. Weight(adults, children, 0) \in Nat
  BY DEF Weight, Weights
<1>2. price * Weight(adults, children, 0) \in Nat
  BY <1>1
<1>3. BaseFare(price, adults, children, 0) \in Nat
  BY <1>2, MoneyType DEF BaseFare
<1>4. Taxes(BaseFare(price, adults, children, 0)) \in Nat
  BY <1>3, MoneyType DEF Taxes, TaxPercent
<1> QED BY <1>3, <1>4 DEF QuoteTotal, BookingFee

LEMMA ManifestType ==
  \A price \in Nat, people \in SUBSET People :
    ManifestTotal(price, Cardinality(people)) \in Nat
<1> SUFFICES ASSUME NEW price \in Nat, NEW people \in SUBSET People
             PROVE  ManifestTotal(price, Cardinality(people)) \in Nat
  OBVIOUS
<1>1. Cardinality(people) \in Nat
  BY BookingsAssumption, FS_Subset, FS_CardinalityType DEF BookingsAssumption
<1> DEFINE count == IF Cardinality(people) = 0 THEN 1 ELSE Cardinality(people)
<1>2. count \in Nat
  BY <1>1
<1> HIDE DEF count
<1>3. price * count * (100 + TaxPercent) \in Nat
  BY <1>2 DEF TaxPercent
<1>4. ManifestTotal(price, Cardinality(people))
        = Money(price * count * (100 + TaxPercent), 100) + BookingFee
  BY DEF ManifestTotal, count
<1> QED BY <1>3, <1>4, MoneyType DEF BookingFee

LEMMA UpdatedType ==
  ASSUME NEW booking \in AirlineBookings, NEW change \in Changes
  PROVE  /\ Updated(booking, change) \in AirlineBookings
         /\ Updated(booking, change).key = booking.key
         /\ Modifiable(booking) => Updated(booking, change).status # "CANCELLED"
<1>1. booking.manifest \in SUBSET People
  BY DEF AirlineBookings
<1>2. CASE change = "contact"
  BY <1>2 DEF Updated, AirlineBookings, Contacts, Modifiable
<1>3. CASE change # "contact"
  <2>1. change \in Flights /\ FlightPrice[change] \in Nat
    BY <1>3, BookingsAssumption DEF Changes, BookingsAssumption
  <2>2. ManifestTotal(FlightPrice[change], Cardinality(booking.manifest)) \in Nat
    BY <1>1, <2>1, ManifestType
  <2> QED BY <1>3, <2>1, <2>2 DEF Updated, AirlineBookings, Statuses
<1> QED BY <1>2, <1>3

LEMMA WithManifestType ==
  ASSUME NEW booking \in AirlineBookings, NEW manifest \in SUBSET People
  PROVE  /\ WithManifest(booking, manifest) \in AirlineBookings
         /\ WithManifest(booking, manifest).key = booking.key
         /\ WithManifest(booking, manifest).status = booking.status
<1>1. booking.flight \in Flights
  BY DEF AirlineBookings
<1>2. FlightPrice[booking.flight] \in Nat
  BY <1>1, BookingsAssumption DEF BookingsAssumption
<1>3. ManifestTotal(FlightPrice[booking.flight], Cardinality(manifest)) \in Nat
  BY <1>2, ManifestType
<1> QED BY <1>3 DEF WithManifest, AirlineBookings

LEMMA ModifiedType ==
  ASSUME NEW row \in Rows, NEW change \in Changes, NEW answer \in AirlineBookings
  PROVE  /\ Modified(row, change, answer) \in Rows
         /\ Modified(row, change, answer).ref = row.ref
         /\ Modified(row, change, answer).status \in {row.status, "MODIFIED"}
BY DEF Modified, Rows, AirlineBookings, Statuses

(* What a commit leaves of a row: its reference stays, and its status is   *)
(* the one it had or the one the request writes.                           *)
LEMMA WrittenType ==
  ASSUME NEW current \in Rows, NEW old \in Rows, NEW new \in Rows
  PROVE  /\ Written(current, old, new) \in Rows
         /\ Written(current, old, new).ref = current.ref
         /\ Written(current, old, new).status \in {current.status, new.status}
<1> DEFINE passengers == Members(current.passengers, old.passengers, new.passengers)
           passports == Members(current.passports, old.passports, new.passports)
                          \cap passengers
<1>1. passengers \in SUBSET People /\ passports \in SUBSET People
  BY DEF Members, Rows
<1>2. /\ Column(current.status, old.status, new.status) \in Statuses
      /\ Column(current.status, old.status, new.status) \in {current.status, new.status}
      /\ Column(current.flight, old.flight, new.flight) \in Flights
      /\ Column(current.price, old.price, new.price) \in Nat
      /\ Column(current.contact, old.contact, new.contact) \in Contacts
  BY DEF Column, Rows
<1>3. Written(current, old, new)
        = [current EXCEPT
             !.status = Column(current.status, old.status, new.status),
             !.flight = Column(current.flight, old.flight, new.flight),
             !.price = Column(current.price, old.price, new.price),
             !.contact = Column(current.contact, old.contact, new.contact),
             !.passengers = passengers,
             !.passports = passports]
  BY DEF Written
<1> HIDE DEF passengers, passports
<1> QED BY <1>1, <1>2, <1>3 DEF Rows

-----------------------------------------------------------------------------
(* The kinds of request.                                                   *)

LEMMA RequestKind ==
  ASSUME TypeOK, NEW t \in Threads
  PROVE  /\ request[t].at = "idle" => request[t] = Idle
         /\ request[t] # Idle => request[t].at # "idle"
         /\ request[t].at = "held"
              => /\ request[t].pnr \in Pnrs /\ request[t].old \in Rows
                 /\ request[t] # Idle
         /\ InFlight(t) => request[t] \in Requests /\ request[t] # Idle
<1>1. request[t] \in Requests \cup {Idle} \cup [at : {"held"}, pnr : Pnrs, old : Rows]
  BY DEF TypeOK
<1>2. CASE request[t] \in Requests
  <2>1. request[t].at \in Stages
    BY <1>2 DEF Requests
  <2>2. request[t].at \notin {"idle", "held"}
    BY <2>1 DEF Stages
  <2> QED BY <1>2, <2>2 DEF Idle
<1>3. CASE request[t] = Idle
  BY <1>3 DEF Idle, InFlight
<1>4. CASE request[t] \in [at : {"held"}, pnr : Pnrs, old : Rows]
  BY <1>4 DEF Idle, InFlight
<1> QED BY <1>1, <1>2, <1>3, <1>4

-----------------------------------------------------------------------------
(* What every step leaves: a row keeps its reference, the airline's        *)
(* booking its key, and a cancelled booking stays cancelled.               *)

Kept ==
  /\ \A pnr \in Pnrs : rows[pnr] # None
       => rows'[pnr] # None /\ rows'[pnr].ref = rows[pnr].ref
  /\ \A ref \in Refs : airline[ref] # None
       => airline'[ref] # None /\ airline'[ref].key = airline[ref].key
  /\ \A ref \in Refs : Dead(ref) => Dead(ref)'

(* Then a request that another thread serves still holds what it should.   *)
LEMMA OthersStand ==
  ASSUME TypeOK, Kept, NEW u \in Threads, Threaded(u), request'[u] = request[u]
  PROVE  Threaded(u)'
<1> DEFINE r == request[u]
<1>1. Staged(u)'
  BY DEF Threaded, Staged
<1>2. HoldsOld(u)'
  <2>1. SUFFICES ASSUME r # Idle, r.old # None
                 PROVE  /\ rows'[r.pnr] # None
                        /\ rows'[r.pnr].ref = r.old.ref
                        /\ r.old.status = "CANCELLED" => Dead(r.old.ref)'
    BY DEF HoldsOld
  <2>2. /\ rows[r.pnr] # None /\ rows[r.pnr].ref = r.old.ref
        /\ r.old.status = "CANCELLED" => Dead(r.old.ref)
    BY <2>1 DEF Threaded, HoldsOld
  <2>3. r.pnr \in Pnrs /\ r.old \in Rows
    <3>1. CASE r.at = "held"
      BY <3>1, RequestKind
    <3>2. CASE InFlight(u)
      <4>1. r \in Requests
        BY <3>2, RequestKind
      <4>2. r.at \in Stages /\ r.old \in Rows
        BY <2>1, <4>1 DEF Requests
      <4> QED BY <2>1, <4>2 DEF Threaded, Staged, Stages
    <3>3. CASE r.at = "idle"
      BY <2>1, <3>3, RequestKind
    <3> QED BY <3>1, <3>2, <3>3 DEF InFlight
  <2>4. r.old.ref \in Refs
    BY <2>3 DEF Rows
  <2> QED BY <2>2, <2>3, <2>4 DEF Kept
<1>3. HoldsNew(u)'
  <2>1. SUFFICES ASSUME r.at = "commit"
                 PROVE  /\ r.old # None => r.new.ref = r.old.ref
                        /\ r.old = None => airline'[r.new.ref] # None
                                           /\ airline'[r.new.ref].key = r.key
                        /\ r.new.status = "CANCELLED" => Dead(r.new.ref)'
    BY DEF HoldsNew
  <2>2. r.new.ref \in Refs
    BY <2>1 DEF Threaded, Staged, Rows
  <2> QED BY <2>1, <2>2 DEF Threaded, HoldsNew, Kept
<1>4. Cancelling(u)'
  <2>1. SUFFICES ASSUME InFlight(u), r.key \in CancelKeys
                 PROVE  /\ r.key[2] = r.pnr
                        /\ r.at \in {"commit", "finish"} => Dead(r.old.ref)'
    BY DEF Cancelling, InFlight
  <2>2. /\ r.key[2] = r.pnr
        /\ r.at \in {"commit", "finish"} => Dead(r.old.ref)
    BY <2>1 DEF Threaded, Cancelling
  <2>3. ASSUME r.at \in {"commit", "finish"}
        PROVE  Dead(r.old.ref)'
    <3>1. r.key \notin CreateKeys
      BY <2>1, BookingsAssumption DEF BookingsAssumption
    <3>2. r.old \in Rows
      BY <2>3, <3>1 DEF Threaded, Staged
    <3>3. r.old.ref \in Refs
      BY <3>2 DEF Rows
    <3> QED BY <2>2, <2>3, <3>3 DEF Kept
  <2> QED BY <2>2, <2>3
<1> QED BY <1>1, <1>2, <1>3, <1>4 DEF Threaded

-----------------------------------------------------------------------------
(* A step of a thread that makes no booking.                               *)

Ordinary(t) ==
  /\ Kept
  /\ \A pnr \in Pnrs : rows'[pnr] # None
       => /\ rows[pnr] # None
          /\ rows'[pnr].status = "CANCELLED"
               => rows[pnr].status = "CANCELLED" \/ Dead(rows[pnr].ref)'
  /\ \A ref \in Refs : airline'[ref] # None => airline[ref] # None
  /\ \A key \in CreateKeys : seen'[key] = seen[key] /\ store'[key] = store[key]
  /\ \A key \in ModifyKeys : seen'[key] # None
       => seen'[key] = seen[key] \/ airline'[seen'[key]] # None
  /\ \A caller \in Callers, pnr \in Pnrs :
       store'[<<caller, pnr>>].state = "completed"
         => \/ store[<<caller, pnr>>].state = "completed"
            \/ rows[pnr] # None /\ Dead(rows[pnr].ref)'
  /\ \A u \in Threads \ {t} : request'[u] = request[u]
  /\ ~Creating(t) /\ ~Creating(t)'
  /\ faults' = 0 => faults = 0

LEMMA OrdinaryStep ==
  ASSUME IInv, NEW t \in Threads, Ordinary(t), TypeOK', Threaded(t)'
  PROVE  IInv'
<1> USE DEF IInv
<1>1. Kept
  BY DEF Ordinary
<1>2. ASSUME NEW u \in Threads
      PROVE  Threaded(u)'
  BY <1>1, OthersStand DEF Ordinary
<1>a. ASSUME NEW pnr \in Pnrs, rows[pnr] # None
      PROVE  /\ rows[pnr].ref \in Refs
             /\ airline[rows[pnr].ref] # None
             /\ airline[rows[pnr].ref].key \in CreateKeys
  <2>1. rows[pnr] \in Rows
    BY <1>a DEF TypeOK
  <2>2. rows[pnr].ref \in Refs
    BY <2>1 DEF Rows
  <2>3. airline[rows[pnr].ref] # None
    BY <1>a DEF RowsAreBooked
  <2>4. airline[rows[pnr].ref] \in AirlineBookings
    BY <2>2, <2>3 DEF TypeOK
  <2> QED BY <2>2, <2>3, <2>4 DEF AirlineBookings
<1>b. ASSUME NEW pnr \in Pnrs, rows'[pnr] # None
      PROVE  /\ rows[pnr] # None
             /\ rows'[pnr].ref = rows[pnr].ref
             /\ airline'[rows[pnr].ref] # None
             /\ airline'[rows[pnr].ref].key = airline[rows[pnr].ref].key
  <2>1. rows[pnr] # None
    BY <1>b DEF Ordinary
  <2> QED BY <1>1, <1>a, <2>1 DEF Kept
<1>3. RowsAreBooked'
  <2> SUFFICES ASSUME NEW pnr \in Pnrs, rows'[pnr] # None
               PROVE  /\ airline'[rows'[pnr].ref] # None
                      /\ rows'[pnr].status = "CANCELLED" => Dead(rows[pnr].ref)'
    BY DEF RowsAreBooked
  <2>1. airline'[rows'[pnr].ref] # None /\ rows'[pnr].ref = rows[pnr].ref
    BY <1>b
  <2>2. ASSUME rows'[pnr].status = "CANCELLED"
        PROVE  Dead(rows[pnr].ref)'
    <3>1. CASE rows[pnr].status = "CANCELLED"
      BY <1>1, <1>a, <1>b, <3>1 DEF RowsAreBooked, Kept
    <3>2. CASE Dead(rows[pnr].ref)'
      BY <3>2
    <3> QED BY <2>2, <3>1, <3>2 DEF Ordinary
  <2> QED BY <2>1, <2>2
<1>4. CompletedIsDead'
  <2> SUFFICES ASSUME NEW caller \in Callers, NEW pnr \in Pnrs,
                      store'[<<caller, pnr>>].state = "completed"
               PROVE  rows'[pnr] # None /\ Dead(rows[pnr].ref)'
    BY DEF CompletedIsDead
  <2>1. rows[pnr] # None /\ Dead(rows[pnr].ref)'
    <3>1. CASE store[<<caller, pnr>>].state = "completed"
      BY <1>1, <1>a, <3>1 DEF CompletedIsDead, Kept
    <3>2. CASE rows[pnr] # None /\ Dead(rows[pnr].ref)'
      BY <3>2
    <3> QED BY <3>1, <3>2 DEF Ordinary
  <2> QED BY <1>1, <2>1 DEF Kept
<1>5. SeenIsBooked'
  <2>1. ASSUME NEW ref \in Refs, airline'[ref] # None
        PROVE  seen'[airline'[ref].key] = ref
    <3>1. airline[ref] # None /\ airline'[ref].key = airline[ref].key
      BY <1>1, <2>1 DEF Ordinary, Kept
    <3>2. airline[ref].key \in CreateKeys
      BY <3>1 DEF TypeOK, AirlineBookings
    <3> QED BY <3>1, <3>2 DEF Ordinary, SeenIsBooked
  <2>2. ASSUME NEW key \in CreateKeys \cup ModifyKeys, seen'[key] # None
        PROVE  /\ airline'[seen'[key]] # None
               /\ key \in CreateKeys => airline'[seen'[key]].key = key
    <3>1. ASSUME seen'[key] = seen[key]
          PROVE  /\ airline'[seen'[key]] # None
                 /\ key \in CreateKeys => airline'[seen'[key]].key = key
      <4>1. seen[key] \in Refs
        BY <2>2, <3>1 DEF TypeOK
      <4> QED BY <1>1, <2>2, <3>1, <4>1 DEF SeenIsBooked, Kept
    <3>2. key \in CreateKeys => seen'[key] = seen[key]
      BY DEF Ordinary
    <3>3. key \in ModifyKeys => seen'[key] = seen[key] \/ airline'[seen'[key]] # None
      BY <2>2 DEF Ordinary
    <3> QED BY <3>1, <3>2, <3>3
  <2> QED BY <2>1, <2>2 DEF SeenIsBooked
<1>c. ASSUME NEW u \in Threads
      PROVE  /\ Creating(u)' => /\ Creating(u) /\ request'[u] = request[u]
                                /\ request[u].key \in CreateKeys
             /\ Making(u)' => Making(u) /\ Creating(u)'
  <2>1. Making(u)' => Creating(u)'
    BY DEF Creating
  <2>2. CASE u = t
    BY <2>1, <2>2 DEF Ordinary
  <2>3. CASE u # t
    <3>1. request'[u] = request[u]
      BY <2>3 DEF Ordinary
    <3>2. Creating(u) => request[u].key \in CreateKeys
      BY DEF Creating, Making, Threaded, Staged
    <3> QED BY <2>1, <3>1, <3>2 DEF Creating, Making
  <2> QED BY <2>2, <2>3
<1>6. KeysAreHeld'
  <2>1. ASSUME NEW u \in Threads, Creating(u)'
        PROVE  store'[request'[u].key].state # "absent"
    BY <1>c, <2>1 DEF KeysAreHeld, Ordinary
  <2>2. ASSUME NEW u \in Threads, NEW v \in Threads, Creating(u)', Creating(v)',
               request'[u].key = request'[v].key
        PROVE  u = v
    BY <1>c, <2>2 DEF KeysAreHeld
  <2>3. ASSUME NEW pnr \in Pnrs, rows'[pnr] # None
        PROVE  store'[airline'[rows'[pnr].ref].key].state # "absent"
    BY <1>a, <1>b, <2>3 DEF KeysAreHeld, Ordinary
  <2>4. ASSUME NEW u \in Threads, NEW pnr \in Pnrs, Making(u)', rows'[pnr] # None
        PROVE  airline'[rows'[pnr].ref].key # request'[u].key
    BY <1>b, <1>c, <2>4 DEF KeysAreHeld
  <2> QED BY <2>1, <2>2, <2>3, <2>4 DEF KeysAreHeld
<1>7. OneRowEach'
  BY <1>b DEF OneRowEach
<1>8. NoneIsLost'
  <2> SUFFICES ASSUME faults' = 0, NEW ref \in Refs, airline'[ref] # None
               PROVE  \/ \E pnr \in Pnrs : rows'[pnr] # None /\ rows'[pnr].ref = ref
                      \/ \E u \in Threads :
                           /\ request'[u].at = "commit" /\ request'[u].old = None
                           /\ request'[u].new.ref = ref
    BY DEF NoneIsLost
  <2>1. airline[ref] # None /\ faults = 0
    BY DEF Ordinary
  <2>2. CASE \E pnr \in Pnrs : rows[pnr] # None /\ rows[pnr].ref = ref
    BY <1>1, <2>2 DEF Kept
  <2>3. CASE \E u \in Threads : /\ request[u].at = "commit" /\ request[u].old = None
                                /\ request[u].new.ref = ref
    <3>1. PICK u \in Threads : /\ request[u].at = "commit" /\ request[u].old = None
                               /\ request[u].new.ref = ref
      BY <2>3
    <3>2. u # t
      BY <3>1 DEF Ordinary, Creating, Making
    <3> QED BY <3>1, <3>2 DEF Ordinary
  <2> QED BY <2>1, <2>2, <2>3 DEF NoneIsLost
<1> QED BY <1>2, <1>3, <1>4, <1>5, <1>6, <1>7, <1>8

-----------------------------------------------------------------------------
(* What the steps of a request have in common.                             *)

AnyRequest == Requests \cup {Idle} \cup [at : {"held"}, pnr : Pnrs, old : Rows]

LEMMA IdleThread ==
  ASSUME NEW t \in Threads, request'[t] = Idle
  PROVE  Threaded(t)' /\ ~Creating(t)'
BY DEF Threaded, Staged, HoldsOld, HoldsNew, Cancelling, InFlight, Creating, Making, Idle

LEMMA HeldThread ==
  ASSUME NEW t \in Threads, NEW pnr \in Pnrs, NEW row \in Rows,
         request'[t] = Held(pnr, row),
         rows'[pnr] # None, rows'[pnr].ref = row.ref,
         row.status = "CANCELLED" => Dead(row.ref)'
  PROVE  Threaded(t)' /\ ~Creating(t)'
<1>1. /\ request'[t].at = "held" /\ request'[t].pnr = pnr /\ request'[t].old = row
  BY DEF Held
<1>2. Staged(t)' /\ HoldsNew(t)' /\ Cancelling(t)' /\ ~Creating(t)'
  BY <1>1 DEF Staged, HoldsNew, Cancelling, InFlight, Creating, Making
<1>3. HoldsOld(t)'
  BY <1>1 DEF HoldsOld, Dead
<1> QED BY <1>2, <1>3 DEF Threaded

LEMMA Booked ==
  ASSUME IInv, NEW pnr \in Pnrs, rows[pnr] # None
  PROVE  /\ rows[pnr] \in Rows /\ rows[pnr].ref \in Refs
         /\ airline[rows[pnr].ref] # None
         /\ airline[rows[pnr].ref] \in AirlineBookings
<1>1. rows[pnr] \in Rows
  BY DEF IInv, TypeOK
<1>2. rows[pnr].ref \in Refs
  BY <1>1 DEF Rows
<1>3. airline[rows[pnr].ref] # None
  BY DEF IInv, RowsAreBooked
<1> QED BY <1>1, <1>2, <1>3 DEF IInv, TypeOK

LEMMA LoadedRow ==
  ASSUME IInv, NEW t \in Threads, NEW pnr \in Pnrs, ~InFlight(t),
         Loaded(t, pnr) # None \/ rows[pnr] # None
  PROVE  /\ Loaded(t, pnr) \in Rows
         /\ rows[pnr] # None /\ rows[pnr].ref = Loaded(t, pnr).ref
         /\ Loaded(t, pnr).status = "CANCELLED" => Dead(Loaded(t, pnr).ref)
         /\ ~Creating(t)
<1>1. ~Creating(t)
  BY DEF InFlight, Creating, Making
<1>2. CASE On(t, pnr)
  <2>1. request[t].at = "held" /\ request[t].old \in Rows /\ request[t].pnr = pnr
    BY <1>2, RequestKind DEF On, InFlight, IInv
  <2>2. request[t].old # None
    BY <2>1, NoneAssumption DEF NoneAssumption
  <2>3. HoldsOld(t)
    BY DEF IInv, Threaded
  <2> QED BY <1>1, <1>2, <2>1, <2>2, <2>3 DEF HoldsOld, Loaded, On
<1>3. CASE ~On(t, pnr)
  <2>1. Loaded(t, pnr) = rows[pnr] /\ rows[pnr] # None
    BY <1>3 DEF Loaded
  <2> QED BY <1>1, <2>1, Booked DEF IInv, RowsAreBooked
<1> QED BY <1>2, <1>3

(* The books stay as they are.                                             *)
LEMMA BooksStand ==
  ASSUME IInv, NEW t \in Threads, UNCHANGED <<rows, airline, seen>>,
         \A key \in CreateKeys : store'[key] = store[key],
         \A caller \in Callers, pnr \in Pnrs :
           store'[<<caller, pnr>>].state = "completed"
             => \/ store[<<caller, pnr>>].state = "completed"
                \/ rows[pnr] # None /\ Dead(rows[pnr].ref),
         \A u \in Threads \ {t} : request'[u] = request[u],
         ~Creating(t), ~Creating(t)', faults' = 0 => faults = 0
  PROVE  Ordinary(t)
<1>1. Kept
  BY DEF Kept, Dead
<1>2. \A caller \in Callers, pnr \in Pnrs :
        store'[<<caller, pnr>>].state = "completed"
          => \/ store[<<caller, pnr>>].state = "completed"
             \/ rows[pnr] # None /\ Dead(rows[pnr].ref)'
  BY DEF Dead
<1> QED BY <1>1, <1>2 DEF Ordinary

(* The airline changes one booking.                                        *)
LEMMA OneChanges ==
  ASSUME IInv, NEW t \in Threads, UNCHANGED <<rows, store, faults>>,
         NEW ref \in Refs, NEW booking \in AirlineBookings, airline[ref] # None,
         airline' = [airline EXCEPT ![ref] = booking],
         booking.key = airline[ref].key,
         airline[ref].status = "CANCELLED" => booking.status = "CANCELLED",
         \A key \in CreateKeys : seen'[key] = seen[key],
         \A key \in ModifyKeys : seen'[key] = seen[key] \/ seen'[key] = ref,
         \A u \in Threads \ {t} : request'[u] = request[u],
         ~Creating(t), ~Creating(t)'
  PROVE  Ordinary(t)
<1>1. airline \in [Refs -> AirlineBookings \cup {None}]
  BY DEF IInv, TypeOK
<1>2. airline'[ref] = booking /\ \A other \in Refs \ {ref} : airline'[other] = airline[other]
  BY <1>1
<1>3. booking # None
  BY NoneAssumption DEF NoneAssumption
<1>4. Kept
  <2>1. \A other \in Refs : airline[other] # None
          => airline'[other] # None /\ airline'[other].key = airline[other].key
    BY <1>2, <1>3
  <2>2. \A other \in Refs : Dead(other) => Dead(other)'
    BY <1>2, <1>3 DEF Dead
  <2> QED BY <2>1, <2>2 DEF Kept
<1>5. \A other \in Refs : airline'[other] # None => airline[other] # None
  BY <1>2
<1>6. ASSUME NEW key \in ModifyKeys, seen'[key] # None
      PROVE  seen'[key] = seen[key] \/ airline'[seen'[key]] # None
  BY <1>2, <1>3
<1> QED BY <1>4, <1>5, <1>6 DEF Ordinary

-----------------------------------------------------------------------------
(* A request fails.                                                        *)

LEMMA FailType ==
  ASSUME TypeOK, NEW t \in Threads, Fail(t)
  PROVE  /\ request' \in [Threads -> AnyRequest]
         /\ request'[t] = Idle
         /\ \A u \in Threads \ {t} : request'[u] = request[u]
         /\ store' \in [CreateKeys \cup CancelKeys ->
              [state : {"absent", "in_progress", "completed"}, pnr : Pnrs \cup {None}]]
         /\ \A key \in CreateKeys \cup CancelKeys :
              store'[key] = IF key = request[t].key THEN Absent ELSE store[key]
<1>1. /\ request \in [Threads -> AnyRequest]
      /\ request' = [request EXCEPT ![t] = Idle]
  BY DEF TypeOK, AnyRequest, Fail
<1>2. Idle \in AnyRequest
  BY DEF AnyRequest
<1>3. /\ request' \in [Threads -> AnyRequest] /\ request'[t] = Idle
      /\ \A u \in Threads \ {t} : request'[u] = request[u]
  BY <1>1, <1>2
<1>4. store \in [CreateKeys \cup CancelKeys ->
        [state : {"absent", "in_progress", "completed"}, pnr : Pnrs \cup {None}]]
  BY DEF TypeOK
<1>5. Absent \in [state : {"absent", "in_progress", "completed"}, pnr : Pnrs \cup {None}]
  BY DEF Absent
<1>6. CASE request[t].key \in CreateKeys \cup CancelKeys
  <2>1. store' = [store EXCEPT ![request[t].key] = Absent]
    BY <1>4, <1>6 DEF Fail
  <2> QED BY <1>3, <1>4, <1>5, <1>6, <2>1
<1>7. CASE request[t].key \notin CreateKeys \cup CancelKeys
  <2>1. store' = store
    BY <1>4, <1>7 DEF Fail
  <2> QED BY <1>3, <1>4, <1>7, <2>1
<1> QED BY <1>6, <1>7

LEMMA FailStep ==
  ASSUME IInv, NEW t \in Threads, InFlight(t), Fail(t),
         UNCHANGED <<rows, airline, seen, overlapped, served>>,
         faults' \in 0..MaxFaults, faults' = 0 => faults = 0,
         request[t].key \notin CreateKeys
  PROVE  IInv'
<1>1. TypeOK
  BY DEF IInv
<1>2. TypeOK'
  BY <1>1, FailType DEF TypeOK, AnyRequest
<1>3. Threaded(t)' /\ ~Creating(t)'
  BY <1>1, FailType, IdleThread
<1>4. ~Creating(t)
  BY DEF IInv, Threaded, Staged, Creating, Making
<1>5. \A key \in CreateKeys : store'[key] = store[key]
  BY <1>1, FailType
<1>6. \A caller \in Callers, pnr \in Pnrs :
        store'[<<caller, pnr>>].state = "completed"
          => store[<<caller, pnr>>].state = "completed"
  <2> SUFFICES ASSUME NEW caller \in Callers, NEW pnr \in Pnrs
               PROVE  store'[<<caller, pnr>>].state = "completed"
                        => store[<<caller, pnr>>].state = "completed"
    OBVIOUS
  <2>1. <<caller, pnr>> \in CancelKeys
    BY DEF CancelKeys
  <2>2. store'[<<caller, pnr>>] \in {Absent, store[<<caller, pnr>>]}
    BY <1>1, <2>1, FailType
  <2> QED BY <2>2 DEF Absent
<1>7. Ordinary(t)
  BY <1>1, <1>3, <1>4, <1>5, <1>6, FailType, BooksStand
<1> QED BY <1>2, <1>3, <1>7, OrdinaryStep

(* A request that makes a booking fails: nobody has a row for its key, and *)
(* if the airline has the booking then a commit has failed.                *)
LEMMA FailMaking ==
  ASSUME IInv, NEW t \in Threads, Making(t), Fail(t),
         UNCHANGED <<rows, airline, seen, overlapped, served>>,
         faults' \in 0..MaxFaults, faults' = 0 => faults = 0,
         faults' = 0 => request[t].at = "create_call"
  PROVE  IInv'
<1> USE DEF IInv
<1> DEFINE key == request[t].key
<1>1. TypeOK' /\ Kept
  BY FailType DEF TypeOK, AnyRequest, Kept, Dead
<1>2. Threaded(t)' /\ ~Creating(t)'
  BY FailType, IdleThread
<1>3. ASSUME NEW u \in Threads
      PROVE  Threaded(u)'
  BY <1>1, <1>2, FailType, OthersStand
<1>4. key \in CreateKeys /\ Creating(t)
  BY DEF Threaded, Staged, Making, Creating
<1>5. RowsAreBooked' /\ SeenIsBooked' /\ OneRowEach'
  BY DEF RowsAreBooked, SeenIsBooked, OneRowEach, Dead
<1>6. CompletedIsDead'
  <2> SUFFICES ASSUME NEW caller \in Callers, NEW pnr \in Pnrs,
                      store'[<<caller, pnr>>].state = "completed"
               PROVE  rows[pnr] # None /\ Dead(rows[pnr].ref)
    BY DEF CompletedIsDead, Dead
  <2>1. <<caller, pnr>> \in CancelKeys
    BY DEF CancelKeys
  <2>2. store'[<<caller, pnr>>] \in {Absent, store[<<caller, pnr>>]}
    BY <2>1, FailType
  <2> QED BY <2>2 DEF Absent, CompletedIsDead
<1>7. ASSUME NEW u \in Threads, Creating(u)'
      PROVE  /\ request'[u] = request[u] /\ Creating(u) /\ u # t
             /\ request[u].key \in CreateKeys /\ request[u].key # key
             /\ Making(u)' => Making(u)
  <2>1. u # t
    BY <1>2, <1>7
  <2>2. request'[u] = request[u]
    BY <2>1, FailType
  <2>3. Creating(u) /\ (Making(u)' => Making(u))
    BY <1>7, <2>2 DEF Creating, Making
  <2>4. request[u].key \in CreateKeys
    BY <2>3 DEF Creating, Making, Threaded, Staged
  <2> QED BY <1>4, <2>1, <2>2, <2>3, <2>4 DEF KeysAreHeld
<1>8. KeysAreHeld'
  <2>1. ASSUME NEW u \in Threads, Creating(u)'
        PROVE  store'[request'[u].key].state # "absent"
    BY <1>7, <2>1, FailType DEF KeysAreHeld
  <2>2. ASSUME NEW u \in Threads, NEW v \in Threads, Creating(u)', Creating(v)',
               request'[u].key = request'[v].key
        PROVE  u = v
    BY <1>7, <2>2 DEF KeysAreHeld
  <2>3. ASSUME NEW pnr \in Pnrs, rows'[pnr] # None
        PROVE  store'[airline'[rows'[pnr].ref].key].state # "absent"
    <3>1. /\ airline[rows[pnr].ref].key \in CreateKeys
          /\ airline[rows[pnr].ref].key # key
      BY <2>3, Booked DEF KeysAreHeld, AirlineBookings
    <3> QED BY <2>3, <3>1, FailType DEF KeysAreHeld
  <2>4. ASSUME NEW u \in Threads, NEW pnr \in Pnrs, Making(u)', rows'[pnr] # None
        PROVE  airline'[rows'[pnr].ref].key # request'[u].key
    <3>1. Creating(u)'
      BY <2>4 DEF Creating
    <3> QED BY <1>7, <2>4, <3>1 DEF KeysAreHeld
  <2> QED BY <2>1, <2>2, <2>3, <2>4 DEF KeysAreHeld
<1>9. NoneIsLost'
  <2> SUFFICES ASSUME faults' = 0, NEW ref \in Refs, airline'[ref] # None
               PROVE  \/ \E pnr \in Pnrs : rows'[pnr] # None /\ rows'[pnr].ref = ref
                      \/ \E u \in Threads :
                           /\ request'[u].at = "commit" /\ request'[u].old = None
                           /\ request'[u].new.ref = ref
    BY DEF NoneIsLost
  <2>1. \A u \in Threads : request[u].at = "commit" => request'[u] = request[u]
    BY FailType
  <2> QED BY <2>1 DEF NoneIsLost
<1> QED BY <1>1, <1>3, <1>5, <1>6, <1>8, <1>9

-----------------------------------------------------------------------------
(* A request is received.                                                  *)

LEMMA LookUpStep ==
  ASSUME IInv, NEW t \in Threads, NEW pnr \in Pnrs, LookUp(t, pnr)
  PROVE  IInv'
<1>1. /\ ~InFlight(t) /\ rows[pnr] # None
      /\ request' = [request EXCEPT ![t] = Held(pnr, Loaded(t, pnr))]
      /\ UNCHANGED <<rows, airline, seen, store, faults>>
  BY DEF LookUp
<1>2. PICK row \in Rows :
        /\ row = Loaded(t, pnr)
        /\ rows[pnr].ref = row.ref /\ ~Creating(t)
        /\ row.status = "CANCELLED" => Dead(row.ref)
  BY <1>1, LoadedRow
<1>3. request \in [Threads -> AnyRequest] /\ Held(pnr, row) \in AnyRequest
  BY <1>2 DEF IInv, TypeOK, AnyRequest, Held
<1>4. /\ request' \in [Threads -> AnyRequest] /\ request'[t] = Held(pnr, row)
      /\ \A u \in Threads \ {t} : request'[u] = request[u]
  BY <1>1, <1>2, <1>3
<1>5. TypeOK'
  <2>1. served' \in 0..MaxRequests /\ overlapped' \subseteq Pnrs
    BY BookingsAssumption DEF LookUp, Serve, IInv, TypeOK, BookingsAssumption
  <2> QED BY <1>1, <1>4, <2>1 DEF IInv, TypeOK, AnyRequest
<1>6. Threaded(t)' /\ ~Creating(t)'
  <2>1. row.status = "CANCELLED" => Dead(row.ref)'
    BY <1>1, <1>2 DEF Dead
  <2>2. rows'[pnr] # None /\ rows'[pnr].ref = row.ref
    BY <1>1, <1>2
  <2> QED BY <1>2, <1>4, <2>1, <2>2, HeldThread
<1>7. Ordinary(t)
  BY <1>1, <1>2, <1>4, <1>6, BooksStand
<1> QED BY <1>5, <1>6, <1>7, OrdinaryStep

(* A request about a booking begins; the row that it is about is loaded.   *)
LEMMA BeginStep ==
  ASSUME IInv, NEW t \in Threads, NEW pnr \in Pnrs, Load(t, pnr),
         NEW stage \in Stages, NEW new \in Rows \cup {None},
         NEW key \in ModifyKeys \cup CancelKeys \cup {None},
         NEW arg \in Changes \cup People \cup {None},
         Goto(t, stage, pnr, new, key, arg),
         UNCHANGED <<rows, airline, seen, faults>>,
         \/ stage = "modify_call" /\ key \in ModifyKeys /\ arg \in Changes
         \/ stage = "cancel_call" /\ key \in CancelKeys /\ key[2] = pnr
         \/ stage \in {"add_call", "remove_call"} /\ key = None
         \/ /\ stage = "commit" /\ key = None /\ new \in Rows
            /\ new.ref = Loaded(t, pnr).ref /\ new.status = Loaded(t, pnr).status,
         store' \in [CreateKeys \cup CancelKeys ->
           [state : {"absent", "in_progress", "completed"}, pnr : Pnrs \cup {None}]],
         \A other \in CreateKeys : store'[other] = store[other],
         \A other \in CancelKeys :
           store'[other].state = "completed" => store[other].state = "completed"
  PROVE  IInv'
<1> DEFINE row == Loaded(t, pnr)
           r == [at |-> stage, pnr |-> pnr, old |-> row, new |-> new, key |-> key,
                 arg |-> arg]
<1>1. ~InFlight(t) /\ row # None /\ request' = [request EXCEPT ![t] = r]
  BY DEF Load, Goto
<1>2. /\ row \in Rows /\ rows[pnr] # None /\ rows[pnr].ref = row.ref
      /\ ~Creating(t)
      /\ row.status = "CANCELLED" => Dead(row.ref)
  BY <1>1, LoadedRow
<1>a. row.status # "CANCELLED"
  BY DEF Load
<1>b. (stage = "commit") => /\ key = None /\ new \in Rows /\ new.ref = row.ref
                           /\ new.status = row.status
  OBVIOUS
<1> HIDE DEF row
<1>c. /\ r.at = stage /\ r.pnr = pnr /\ r.old = row /\ r.new = new /\ r.key = key
      /\ r.arg = arg
  OBVIOUS
<1>3. r \in Requests
  BY <1>2 DEF Requests
<1>d. request \in [Threads -> AnyRequest]
  BY DEF IInv, TypeOK, AnyRequest
<1> HIDE DEF r
<1>4. /\ request' \in [Threads -> AnyRequest] /\ request'[t] = r
      /\ \A u \in Threads \ {t} : request'[u] = request[u]
  BY <1>1, <1>3, <1>d DEF AnyRequest
<1>5. TypeOK'
  <2>1. served' \in 0..MaxRequests /\ overlapped' \subseteq Pnrs
    BY BookingsAssumption DEF Load, Serve, IInv, TypeOK, BookingsAssumption
  <2> QED BY <1>4, <2>1 DEF IInv, TypeOK, AnyRequest
<1>6. /\ row # None /\ key \notin CreateKeys
      /\ CreateKeys \cap (ModifyKeys \cup CancelKeys) = {}
      /\ None \notin CreateKeys \cup ModifyKeys \cup CancelKeys
      /\ stage \notin {"idle", "held", "create_call", "finish"}
  BY <1>2, BookingsAssumption, NoneAssumption
  DEF BookingsAssumption, NoneAssumption, Stages
<1>7. Staged(t)'
  <2>1. /\ stage = "modify_call" => key \in ModifyKeys /\ arg \in Changes
        /\ stage = "cancel_call" => key \in CancelKeys
        /\ stage \in {"add_call", "remove_call"} => key = None
    OBVIOUS
  <2> QED BY <1>2, <1>4, <1>6, <1>b, <1>c, <2>1 DEF Staged
<1>8. HoldsOld(t)' /\ HoldsNew(t)' /\ ~Creating(t)'
  <2>1. HoldsOld(t)'
    BY <1>2, <1>4, <1>6, <1>a, <1>c DEF HoldsOld
  <2>2. HoldsNew(t)'
    BY <1>4, <1>6, <1>a, <1>b, <1>c DEF HoldsNew
  <2>3. ~Creating(t)'
    BY <1>4, <1>6, <1>c DEF Creating, Making
  <2> QED BY <2>1, <2>2, <2>3
<1>9. Cancelling(t)'
  <2>1. ModifyKeys \cap CancelKeys = {}
    BY BookingsAssumption DEF BookingsAssumption, ModifyKeys, CancelKeys
  <2>2. key \in CancelKeys => stage = "cancel_call" /\ key[2] = pnr
    BY <1>6, <2>1
  <2> QED BY <1>4, <1>c, <2>2 DEF Cancelling
<1>10. \A caller \in Callers, other \in Pnrs :
         store'[<<caller, other>>].state = "completed"
           => store[<<caller, other>>].state = "completed"
  BY DEF CancelKeys
<1>11. Ordinary(t)
  BY <1>2, <1>4, <1>8, <1>10, BooksStand
<1> QED BY <1>5, <1>7, <1>8, <1>9, <1>11, OrdinaryStep DEF Threaded

LEMMA StoreStays ==
  ASSUME IInv, UNCHANGED store
  PROVE  /\ store' \in [CreateKeys \cup CancelKeys ->
              [state : {"absent", "in_progress", "completed"}, pnr : Pnrs \cup {None}]]
         /\ \A other \in CreateKeys : store'[other] = store[other]
         /\ \A other \in CancelKeys :
              store'[other].state = "completed" => store[other].state = "completed"
BY DEF IInv, TypeOK

LEMMA ModifyStep ==
  ASSUME IInv, NEW t \in Threads, NEW pnr \in Pnrs, NEW caller \in Callers,
         NEW change \in Changes, Modify(t, pnr, caller, change)
  PROVE  IInv'
<1>1. /\ Load(t, pnr)
      /\ Goto(t, "modify_call", pnr, None, <<caller, pnr, change>>, change)
      /\ UNCHANGED <<rows, airline, seen, store, faults>>
  BY DEF Modify
<1>2. "modify_call" \in Stages /\ <<caller, pnr, change>> \in ModifyKeys
  BY DEF Stages, ModifyKeys
<1> QED BY <1>1, <1>2, StoreStays, BeginStep

LEMMA CancelStep ==
  ASSUME IInv, NEW t \in Threads, NEW pnr \in Pnrs, NEW caller \in Callers,
         Cancel(t, pnr, caller)
  PROVE  IInv'
<1> DEFINE key == <<caller, pnr>>
<1>1. /\ Load(t, pnr)
      /\ Goto(t, "cancel_call", pnr, None, key, None)
      /\ store' = [store EXCEPT ![key].state = "in_progress"]
      /\ UNCHANGED <<rows, airline, seen, faults>>
  BY DEF Cancel
<1>2. /\ "cancel_call" \in Stages /\ key \in CancelKeys /\ key[2] = pnr
      /\ key \notin CreateKeys
  BY BookingsAssumption DEF BookingsAssumption, Stages, CancelKeys
<1> HIDE DEF key
<1>3. store \in [CreateKeys \cup CancelKeys ->
        [state : {"absent", "in_progress", "completed"}, pnr : Pnrs \cup {None}]]
  BY DEF IInv, TypeOK
<1>4. /\ store' \in [CreateKeys \cup CancelKeys ->
           [state : {"absent", "in_progress", "completed"}, pnr : Pnrs \cup {None}]]
      /\ \A other \in CreateKeys : store'[other] = store[other]
      /\ \A other \in CancelKeys :
           store'[other].state = "completed" => store[other].state = "completed"
  BY <1>1, <1>2, <1>3
<1> QED BY <1>1, <1>2, <1>4, BeginStep

LEMMA PassengerStep ==
  ASSUME IInv, NEW t \in Threads, NEW pnr \in Pnrs, NEW passenger \in People,
         \/ AddPassenger(t, pnr)
         \/ RemovePassenger(t, pnr, passenger)
         \/ AddPassport(t, pnr, passenger)
  PROVE  IInv'
<1> DEFINE row == Loaded(t, pnr)
<1>1. /\ Load(t, pnr)
      /\ UNCHANGED <<rows, airline, seen, store, faults>>
  BY DEF AddPassenger, RemovePassenger, AddPassport
<1>2. row \in Rows
  BY <1>1, LoadedRow DEF Load
<1>3. {"add_call", "remove_call", "commit"} \subseteq Stages
  BY DEF Stages
<1>4. CASE AddPassenger(t, pnr)
  <2>1. Goto(t, "add_call", pnr, None, None, None)
    BY <1>4 DEF AddPassenger
  <2> QED BY <1>1, <1>3, <2>1, StoreStays, BeginStep
<1>5. ASSUME NEW new \in Rows, new.ref = row.ref, new.status = row.status,
             Goto(t, "commit", pnr, new, None, passenger)
      PROVE  IInv'
  BY <1>1, <1>3, <1>5, StoreStays, BeginStep
<1>6. CASE RemovePassenger(t, pnr, passenger)
  <2> DEFINE without == [row EXCEPT !.passengers = @ \ {passenger},
                                    !.passports = @ \ {passenger}]
  <2>1. /\ without \in Rows
        /\ without.ref = row.ref /\ without.status = row.status
    BY <1>2 DEF Rows
  <2>2. \/ Goto(t, "remove_call", pnr, None, None, passenger)
        \/ Goto(t, "commit", pnr, without, None, passenger)
    BY <1>6 DEF RemovePassenger
  <2>3. CASE Goto(t, "remove_call", pnr, None, None, passenger)
    BY <1>1, <1>3, <2>3, StoreStays, BeginStep
  <2>4. CASE Goto(t, "commit", pnr, without, None, passenger)
    <3> HIDE DEF without
    <3> QED BY <1>5, <2>1, <2>4
  <2> QED BY <2>2, <2>3, <2>4
<1>7. CASE AddPassport(t, pnr, passenger)
  <2> DEFINE with == [row EXCEPT !.passports = @ \cup {passenger}]
  <2>1. /\ with \in Rows
        /\ with.ref = row.ref /\ with.status = row.status
    BY <1>2 DEF Rows
  <2>2. Goto(t, "commit", pnr, with, None, passenger)
    BY <1>7 DEF AddPassport
  <2> HIDE DEF with
  <2> QED BY <1>5, <2>1, <2>2
<1> QED BY <1>4, <1>6, <1>7

(* A key of create_booking is taken: nobody held it.                       *)
LEMMA CreateBeginStep ==
  ASSUME IInv, NEW t \in Threads, NEW key \in CreateKeys, CreateBegin(t, key)
  PROVE  IInv'
<1> USE DEF IInv
<1> DEFINE r == [at |-> "create_call", pnr |-> None, old |-> None, new |-> None,
                 key |-> key, arg |-> None]
<1>1. /\ request[t] = Idle /\ store[key] = Absent
      /\ store' = [store EXCEPT ![key].state = "in_progress"]
      /\ request' = [request EXCEPT ![t] = r]
      /\ UNCHANGED <<rows, airline, seen, overlapped, faults>>
  BY DEF CreateBegin
<1>2. r \in Requests
  BY DEF Requests, Stages
<1>3. request \in [Threads -> AnyRequest]
  BY DEF TypeOK, AnyRequest
<1>c. /\ r.at = "create_call" /\ r.pnr = None /\ r.old = None /\ r.key = key
  OBVIOUS
<1> HIDE DEF r
<1>4. /\ request' \in [Threads -> AnyRequest] /\ request'[t] = r
      /\ \A u \in Threads \ {t} : request'[u] = request[u]
  BY <1>1, <1>2, <1>3 DEF AnyRequest
<1>5. store \in [CreateKeys \cup CancelKeys ->
        [state : {"absent", "in_progress", "completed"}, pnr : Pnrs \cup {None}]]
  BY DEF TypeOK
<1>6. /\ store' \in [CreateKeys \cup CancelKeys ->
           [state : {"absent", "in_progress", "completed"}, pnr : Pnrs \cup {None}]]
      /\ store'[key].state = "in_progress"
      /\ \A other \in (CreateKeys \cup CancelKeys) \ {key} : store'[other] = store[other]
  BY <1>1, <1>5
<1>7. TypeOK'
  <2>1. served' \in 0..MaxRequests
    BY BookingsAssumption DEF CreateBegin, Serve, TypeOK, BookingsAssumption
  <2> QED BY <1>1, <1>4, <1>6, <2>1 DEF TypeOK, AnyRequest
<1>8. Kept
  BY <1>1 DEF Kept, Dead
<1>9. Threaded(t)'
  <2>1. key \notin CancelKeys
    BY BookingsAssumption DEF BookingsAssumption
  <2> QED BY <1>4, <1>c, <2>1
      DEF Threaded, Staged, HoldsOld, HoldsNew, Cancelling, InFlight
<1>10. ASSUME NEW u \in Threads
       PROVE  Threaded(u)'
  BY <1>4, <1>8, <1>9, OthersStand
<1>11. RowsAreBooked' /\ SeenIsBooked' /\ OneRowEach'
  BY <1>1 DEF RowsAreBooked, SeenIsBooked, OneRowEach, Dead
<1>12. CompletedIsDead'
  <2> SUFFICES ASSUME NEW caller \in Callers, NEW pnr \in Pnrs,
                      store'[<<caller, pnr>>].state = "completed"
               PROVE  rows[pnr] # None /\ Dead(rows[pnr].ref)
    BY <1>1 DEF CompletedIsDead, Dead
  <2>1. <<caller, pnr>> \in CancelKeys /\ <<caller, pnr>> # key
    BY BookingsAssumption DEF BookingsAssumption, CancelKeys
  <2> QED BY <1>6, <2>1 DEF CompletedIsDead
<1>13. ASSUME NEW u \in Threads \ {t}
       PROVE  /\ request'[u] = request[u]
              /\ Creating(u)' => Creating(u) /\ request[u].key \in CreateKeys \ {key}
              /\ Making(u)' => Making(u) /\ Creating(u)'
  <2>1. request'[u] = request[u]
    BY <1>4
  <2>2. (Creating(u)' => Creating(u)) /\ (Making(u)' => Making(u) /\ Creating(u)')
    BY <2>1 DEF Creating, Making
  <2>3. Creating(u) => request[u].key \in CreateKeys
    BY DEF Creating, Making, Threaded, Staged
  <2>4. Creating(u) => request[u].key # key
    BY <1>1 DEF KeysAreHeld, Absent
  <2> QED BY <2>1, <2>2, <2>3, <2>4
<1>14. ASSUME NEW pnr \in Pnrs, rows[pnr] # None
       PROVE  airline[rows[pnr].ref].key \in CreateKeys \ {key}
  <2>1. airline[rows[pnr].ref].key \in CreateKeys
    BY <1>14, Booked DEF AirlineBookings
  <2>2. store[airline[rows[pnr].ref].key].state # "absent"
    BY <1>14 DEF KeysAreHeld
  <2> QED BY <1>1, <2>1, <2>2 DEF Absent
<1>15. KeysAreHeld'
  <2>1. ASSUME NEW u \in Threads, Creating(u)'
        PROVE  store'[request'[u].key].state # "absent"
    BY <1>4, <1>6, <1>13, <1>c, <2>1 DEF KeysAreHeld
  <2>2. ASSUME NEW u \in Threads, NEW v \in Threads, Creating(u)', Creating(v)',
               request'[u].key = request'[v].key
        PROVE  u = v
    BY <1>4, <1>13, <1>c, <2>2 DEF KeysAreHeld
  <2>3. ASSUME NEW pnr \in Pnrs, rows'[pnr] # None
        PROVE  store'[airline'[rows'[pnr].ref].key].state # "absent"
    BY <1>1, <1>6, <1>14, <2>3 DEF KeysAreHeld
  <2>4. ASSUME NEW u \in Threads, NEW pnr \in Pnrs, Making(u)', rows'[pnr] # None
        PROVE  airline'[rows'[pnr].ref].key # request'[u].key
    BY <1>1, <1>4, <1>13, <1>14, <1>c, <2>4 DEF KeysAreHeld
  <2> QED BY <2>1, <2>2, <2>3, <2>4 DEF KeysAreHeld
<1>16. NoneIsLost'
  <2> SUFFICES ASSUME faults' = 0, NEW ref \in Refs, airline'[ref] # None
               PROVE  \/ \E pnr \in Pnrs : rows'[pnr] # None /\ rows'[pnr].ref = ref
                      \/ \E u \in Threads :
                           /\ request'[u].at = "commit" /\ request'[u].old = None
                           /\ request'[u].new.ref = ref
    BY DEF NoneIsLost
  <2>1. \A u \in Threads : request[u].at = "commit" => request'[u] = request[u]
    BY <1>1, <1>4 DEF Idle
  <2> QED BY <1>1, <2>1 DEF NoneIsLost
<1> QED BY <1>7, <1>10, <1>11, <1>12, <1>15, <1>16

-----------------------------------------------------------------------------
(* The airline answers.                                                    *)

Calls == {"modify_call", "cancel_call", "add_call", "remove_call"}

LEMMA Asking ==
  ASSUME IInv, NEW t \in Threads, request[t].at \in Calls
  PROVE  /\ request[t] \in Requests /\ request[t] # Idle /\ InFlight(t)
         /\ request[t].pnr \in Pnrs /\ request[t].old \in Rows
         /\ request[t].old # None /\ request[t].old.ref \in Refs
         /\ airline[request[t].old.ref] # None
         /\ airline[request[t].old.ref] \in AirlineBookings
         /\ request[t].key \notin CreateKeys /\ ~Creating(t)
<1> DEFINE r == request[t]
<1>1. InFlight(t) /\ r \in Requests /\ r # Idle
  BY RequestKind DEF Calls, InFlight, IInv
<1>2. r.pnr \in Pnrs /\ r.old \in Rows
  BY DEF IInv, Threaded, Staged, Calls
<1>3. r.old # None /\ r.old.ref \in Refs
  BY <1>2, NoneAssumption DEF NoneAssumption, Rows
<1>4. rows[r.pnr] # None /\ rows[r.pnr].ref = r.old.ref
  BY <1>1, <1>3 DEF IInv, Threaded, HoldsOld
<1>5. /\ airline[r.old.ref] # None
      /\ airline[r.old.ref] \in AirlineBookings
  BY <1>2, <1>4, Booked
<1>6. ~Creating(t)
  BY DEF Creating, Making, Calls
<1>7. r.key \notin CreateKeys
  BY BookingsAssumption, NoneAssumption
  DEF BookingsAssumption, NoneAssumption, IInv, Threaded, Staged, Calls
<1> QED BY <1>1, <1>2, <1>3, <1>5, <1>6, <1>7

(* The request goes on to write a row that is cancelled only if it was, or *)
(* if the airline has cancelled it, as it has for a cancellation.          *)
Answered(t, old, new) ==
  /\ request[t].at \in Calls /\ old = request[t].old
  /\ new \in Rows /\ new.ref = old.ref
  /\ request' = [request EXCEPT ![t].at = "commit", ![t].new = new]
  /\ UNCHANGED rows /\ Kept
  /\ \/ /\ new.status = "CANCELLED" => old.status = "CANCELLED"
        /\ request[t].at # "cancel_call"
     \/ Dead(old.ref)'

LEMMA AnsweredThread ==
  ASSUME IInv, NEW t \in Threads, NEW old, NEW new, Answered(t, old, new)
  PROVE  /\ request' \in [Threads -> AnyRequest]
         /\ \A u \in Threads \ {t} : request'[u] = request[u]
         /\ Threaded(t)' /\ ~Creating(t)'
<1> USE DEF Answered
<1> DEFINE r == [request[t] EXCEPT !.at = "commit", !.new = new]
<1>1. /\ request[t] \in Requests /\ request[t] # Idle /\ InFlight(t)
      /\ request[t].pnr \in Pnrs /\ old \in Rows
      /\ old # None /\ old.ref \in Refs /\ request[t].key \notin CreateKeys
  BY Asking
<1>2. request \in [Threads -> AnyRequest]
  BY DEF IInv, TypeOK, AnyRequest
<1>3. /\ r \in Requests
      /\ r.at = "commit" /\ r.new = new /\ r.old = old
      /\ r.key = request[t].key /\ r.pnr = request[t].pnr
  BY <1>1 DEF Requests, Stages
<1>4. request' = [request EXCEPT ![t] = r]
  BY <1>2
<1> HIDE DEF r
<1>5. /\ request' \in [Threads -> AnyRequest] /\ request'[t] = r
      /\ \A u \in Threads \ {t} : request'[u] = request[u]
  <2>1. r \in AnyRequest
    BY <1>3 DEF AnyRequest
  <2> QED BY <1>2, <1>4, <2>1
<1>6. /\ rows[r.pnr] # None /\ rows[r.pnr].ref = old.ref
      /\ old.status = "CANCELLED" => Dead(old.ref)'
  BY <1>1, <1>3 DEF IInv, Threaded, HoldsOld, Kept
<1>7. Staged(t)'
  BY <1>1, <1>3, <1>5 DEF Staged
<1>8. HoldsOld(t)'
  BY <1>3, <1>5, <1>6 DEF HoldsOld, Dead
<1>9. HoldsNew(t)'
  BY <1>1, <1>3, <1>5, <1>6 DEF HoldsNew, Dead
<1>10. Cancelling(t)'
  <2>1. SUFFICES ASSUME r.key \in CancelKeys
                 PROVE  r.key[2] = r.pnr /\ Dead(old.ref)'
    BY <1>3, <1>5 DEF Cancelling, Dead
  <2>2. ModifyKeys \cap CancelKeys = {} /\ None \notin CancelKeys
    BY BookingsAssumption, NoneAssumption
    DEF BookingsAssumption, NoneAssumption, ModifyKeys, CancelKeys
  <2>3. request[t].at = "cancel_call"
    BY <1>3, <2>1, <2>2 DEF IInv, Threaded, Staged, Calls
  <2>4. r.key[2] = r.pnr
    BY <1>1, <1>3, <2>1 DEF IInv, Threaded, Cancelling
  <2> QED BY <2>3, <2>4
<1>11. ~Creating(t)'
  BY <1>1, <1>3, <1>5 DEF Creating, Making
<1> QED BY <1>5, <1>7, <1>8, <1>9, <1>10, <1>11 DEF Threaded

LEMMA ModifyCallStep ==
  ASSUME IInv, NEW t \in Threads, ModifyCall(t)
  PROVE  IInv'
<1> DEFINE r == request[t]
<1>1. /\ r.at = "modify_call" /\ r.at \in Calls
      /\ UNCHANGED <<rows, overlapped, served, faults>>
  BY DEF ModifyCall, Calls
<1>2. PICK old \in Rows, ref \in Refs :
        /\ old = r.old /\ ref = old.ref
  BY <1>1, Asking
<1>3. /\ airline[ref] # None
      /\ airline[ref] \in AirlineBookings /\ r.key \notin CreateKeys /\ ~Creating(t)
      /\ r.arg \in Changes /\ r.key \in ModifyKeys /\ InFlight(t)
  <2>1. r.arg \in Changes /\ r.key \in ModifyKeys
    BY <1>1 DEF IInv, Threaded, Staged
  <2> QED BY <1>1, <1>2, <2>1, Asking
<1>a. r.at # "cancel_call" /\ UNCHANGED rows
  BY <1>1
<1>4. CASE /\ Known(r.key) /\ UNCHANGED <<airline, seen, store>>
           /\ request' = [request EXCEPT ![t].at = "commit",
                ![t].new = Modified(r.old, r.arg, airline[seen[r.key]])]
  <2>1. airline[seen[r.key]] \in AirlineBookings
    <3>1. seen[r.key] \in Refs
      BY <1>3, <1>4 DEF Known, IInv, TypeOK
    <3>2. airline[seen[r.key]] # None
      BY <1>3, <1>4 DEF Known, IInv, SeenIsBooked
    <3> QED BY <3>1, <3>2 DEF IInv, TypeOK
  <2>2. PICK new \in Rows :
          /\ new = Modified(r.old, r.arg, airline[seen[r.key]])
          /\ new.ref = ref /\ new.status \in {r.old.status, "MODIFIED"}
    BY <1>2, <1>3, <2>1, ModifiedType
  <2>3. Kept
    BY <1>1, <1>4 DEF Kept, Dead
  <2>4. new.status = "CANCELLED" => old.status = "CANCELLED"
    BY <1>2, <2>2
  <2>5. /\ request' \in [Threads -> AnyRequest]
        /\ \A u \in Threads \ {t} : request'[u] = request[u]
        /\ Threaded(t)' /\ ~Creating(t)'
    <3>1. Answered(t, old, new)
      BY <1>1, <1>2, <1>4, <1>a, <2>2, <2>3, <2>4 DEF Answered
    <3> QED BY <3>1, AnsweredThread
  <2>6. TypeOK'
    BY <1>1, <1>4, <2>5 DEF IInv, TypeOK, AnyRequest
  <2>7. Ordinary(t)
    BY <1>1, <1>3, <1>4, <2>5, BooksStand
  <2> QED BY <2>5, <2>6, <2>7, OrdinaryStep
<1>5. CASE Fail(t) /\ UNCHANGED <<airline, seen>>
  <2>1. faults' \in 0..MaxFaults
    BY <1>1 DEF IInv, TypeOK
  <2> QED BY <1>1, <1>3, <1>5, <2>1, FailStep
<1>6. CASE /\ Modifiable(airline[ref])
           /\ airline' = [airline EXCEPT ![ref] = Updated(@, r.arg)]
           /\ seen' = [seen EXCEPT ![r.key] = ref]
           /\ request' = [request EXCEPT ![t].at = "commit",
                ![t].new = Modified(r.old, r.arg, Updated(airline[ref], r.arg))]
           /\ UNCHANGED store
  <2>1. PICK booking \in AirlineBookings :
          /\ booking = Updated(airline[ref], r.arg)
          /\ booking.key = airline[ref].key
          /\ booking.status # "CANCELLED"
    BY <1>3, <1>6, UpdatedType
  <2>2. PICK new \in Rows :
          /\ new = Modified(r.old, r.arg, booking)
          /\ new.ref = ref /\ new.status \in {r.old.status, "MODIFIED"}
    BY <1>2, <1>3, <2>1, ModifiedType
  <2>3. /\ airline' = [airline EXCEPT ![ref] = booking]
        /\ request' = [request EXCEPT ![t].at = "commit", ![t].new = new]
    BY <1>2, <1>6, <2>1, <2>2
  <2>4. airline[ref].status # "CANCELLED"
    BY <1>6 DEF Modifiable
  <2>5. /\ seen \in [CreateKeys \cup ModifyKeys -> Refs \cup {None}]
        /\ airline \in [Refs -> AirlineBookings \cup {None}]
    BY DEF IInv, TypeOK
  <2>6. /\ seen' \in [CreateKeys \cup ModifyKeys -> Refs \cup {None}]
        /\ \A key \in CreateKeys : seen'[key] = seen[key]
        /\ \A key \in ModifyKeys : seen'[key] = seen[key] \/ seen'[key] = ref
    BY <1>3, <1>6, <2>5
  <2>7. Kept
    <3>1. airline'[ref] = booking
          /\ \A other \in Refs \ {ref} : airline'[other] = airline[other]
      BY <1>3, <2>3, <2>5
    <3>2. booking # None
      BY NoneAssumption DEF NoneAssumption
    <3> QED BY <1>1, <2>1, <2>4, <3>1, <3>2 DEF Kept, Dead
  <2>8. new.status = "CANCELLED" => old.status = "CANCELLED"
    BY <1>2, <2>2
  <2>9. /\ request' \in [Threads -> AnyRequest]
        /\ \A u \in Threads \ {t} : request'[u] = request[u]
        /\ Threaded(t)' /\ ~Creating(t)'
    <3>1. Answered(t, old, new)
      BY <1>1, <1>2, <1>a, <2>2, <2>3, <2>7, <2>8 DEF Answered
    <3> QED BY <3>1, AnsweredThread
  <2>10. TypeOK'
    <3>1. airline' \in [Refs -> AirlineBookings \cup {None}]
      BY <1>3, <2>3, <2>5
    <3> QED BY <1>1, <1>6, <2>6, <2>9, <3>1 DEF IInv, TypeOK, AnyRequest
  <2>11. Ordinary(t)
    BY <1>1, <1>3, <1>6, <2>1, <2>3, <2>4, <2>6, <2>9, OneChanges
  <2> QED BY <2>9, <2>10, <2>11, OrdinaryStep
<1> QED BY <1>2, <1>4, <1>5, <1>6 DEF ModifyCall

(* The airline changes the booking, and the request goes on to write new.  *)
Reissued(t, ref, booking, new) ==
  /\ request[t].at \in Calls /\ ref = request[t].old.ref
  /\ booking \in AirlineBookings /\ booking.key = airline[ref].key
  /\ airline[ref].status = "CANCELLED" => booking.status = "CANCELLED"
  /\ airline' = [airline EXCEPT ![ref] = booking]
  /\ new \in Rows /\ new.ref = ref
  /\ request' = [request EXCEPT ![t].at = "commit", ![t].new = new]
  /\ \/ new.status = request[t].old.status /\ request[t].at # "cancel_call"
     \/ booking.status = "CANCELLED"
  /\ UNCHANGED <<rows, seen, store, overlapped, served, faults>>

LEMMA ReissuedStep ==
  ASSUME IInv, NEW t \in Threads, NEW ref, NEW booking, NEW new,
         Reissued(t, ref, booking, new)
  PROVE  IInv'
<1> USE DEF Reissued
<1>1. PICK old \in Rows : old = request[t].old
  BY Asking
<1>2. /\ ref \in Refs /\ airline[ref] # None /\ ref = old.ref
      /\ ~Creating(t)
  BY <1>1, Asking
<1>3. airline \in [Refs -> AirlineBookings \cup {None}]
  BY DEF IInv, TypeOK
<1>4. /\ airline' \in [Refs -> AirlineBookings \cup {None}]
      /\ airline'[ref] = booking
      /\ \A other \in Refs \ {ref} : airline'[other] = airline[other]
  BY <1>2, <1>3
<1>5. booking # None
  BY NoneAssumption DEF NoneAssumption
<1>6. Kept
  BY <1>4, <1>5 DEF Kept, Dead
<1>7. Answered(t, old, new)
  <2>1. booking.status = "CANCELLED" => Dead(old.ref)'
    BY <1>2, <1>4, <1>5 DEF Dead
  <2> QED BY <1>1, <1>2, <1>6, <2>1 DEF Answered
<1>8. /\ request' \in [Threads -> AnyRequest]
      /\ \A u \in Threads \ {t} : request'[u] = request[u]
      /\ Threaded(t)' /\ ~Creating(t)'
  BY <1>7, AnsweredThread
<1>9. TypeOK'
  BY <1>4, <1>8 DEF IInv, TypeOK, AnyRequest
<1>10. Ordinary(t)
  BY <1>2, <1>8, OneChanges
<1> QED BY <1>8, <1>9, <1>10, OrdinaryStep

LEMMA CancelCallStep ==
  ASSUME IInv, NEW t \in Threads, CancelCall(t)
  PROVE  IInv'
<1>1. request[t].at \in Calls
  BY DEF CancelCall, Calls
<1>2. PICK old \in Rows, ref \in Refs : old = request[t].old /\ ref = old.ref
  BY <1>1, Asking
<1>3. airline[ref] \in AirlineBookings
  BY <1>1, <1>2, Asking
<1>4. PICK booking \in AirlineBookings :
        booking = [airline[ref] EXCEPT !.status = "CANCELLED"]
  BY <1>3 DEF AirlineBookings, Statuses
<1>5. PICK new \in Rows : new = [old EXCEPT !.status = "CANCELLED"]
  BY DEF Rows, Statuses
<1>6. booking.status = "CANCELLED" /\ booking.key = airline[ref].key /\ new.ref = ref
  BY <1>2, <1>3, <1>4, <1>5 DEF AirlineBookings, Rows
<1>7. airline' = [airline EXCEPT ![ref] = booking]
  BY <1>2, <1>4 DEF CancelCall
<1>8. request' = [request EXCEPT ![t].at = "commit", ![t].new = new]
  BY <1>2, <1>5 DEF CancelCall
<1>9. Reissued(t, ref, booking, new)
  BY <1>1, <1>2, <1>6, <1>7, <1>8 DEF Reissued, CancelCall
<1> QED BY <1>9, ReissuedStep

LEMMA AddCallStep ==
  ASSUME IInv, NEW t \in Threads, AddCall(t)
  PROVE  IInv'
<1>1. request[t].at \in Calls /\ request[t].at = "add_call"
  BY DEF AddCall, Calls
<1>2. PICK old \in Rows, ref \in Refs : old = request[t].old /\ ref = old.ref
  BY <1>1, Asking
<1>3. airline[ref] \in AirlineBookings
  BY <1>1, <1>2, Asking
<1>4. PICK x \in Added : x = CHOOSE y \in Added : ~InUse(y)
  BY DEF AddCall
<1>5. airline[ref].manifest \cup {x} \in SUBSET People
  BY <1>3 DEF AirlineBookings, People
<1>6. PICK booking \in AirlineBookings :
        /\ booking = WithManifest(airline[ref], airline[ref].manifest \cup {x})
        /\ booking.key = airline[ref].key /\ booking.status = airline[ref].status
  BY <1>3, <1>5, WithManifestType
<1>7. PICK new \in Rows :
        new = [old EXCEPT !.passengers = @ \cup {x}, !.price = booking.price]
  BY DEF Rows, AirlineBookings, People
<1>8. new.ref = ref /\ new.status = old.status
  BY <1>2, <1>7 DEF Rows
<1>9. airline' = [airline EXCEPT ![ref] = booking]
  BY <1>2, <1>4, <1>6 DEF AddCall
<1>10. request' = [request EXCEPT ![t].at = "commit", ![t].new = new]
  BY <1>2, <1>4, <1>6, <1>7 DEF AddCall
<1>11. Reissued(t, ref, booking, new)
  BY <1>1, <1>2, <1>6, <1>8, <1>9, <1>10 DEF Reissued, AddCall
<1> QED BY <1>11, ReissuedStep

(* The airline refuses, and nothing is rolled back.                        *)
LEMMA RefusedStep ==
  ASSUME IInv, NEW t \in Threads, request[t].at \in Calls,
         request' = [request EXCEPT ![t] = Held(request[t].pnr, request[t].old)],
         UNCHANGED <<rows, airline, seen, store, overlapped, served, faults>>
  PROVE  IInv'
<1>1. PICK pnr \in Pnrs, row \in Rows :
        /\ pnr = request[t].pnr /\ row = request[t].old
        /\ request[t] # Idle /\ row # None /\ ~Creating(t)
  BY Asking
<1>2. /\ rows[pnr] # None /\ rows[pnr].ref = row.ref
      /\ row.status = "CANCELLED" => Dead(row.ref)
  BY <1>1 DEF IInv, Threaded, HoldsOld
<1>3. request \in [Threads -> AnyRequest] /\ Held(pnr, row) \in AnyRequest
  BY <1>1 DEF IInv, TypeOK, AnyRequest, Held
<1>4. /\ request' \in [Threads -> AnyRequest] /\ request'[t] = Held(pnr, row)
      /\ \A u \in Threads \ {t} : request'[u] = request[u]
  BY <1>1, <1>3
<1>5. TypeOK'
  BY <1>4 DEF IInv, TypeOK, AnyRequest
<1>6. Threaded(t)' /\ ~Creating(t)'
  BY <1>1, <1>2, <1>4, HeldThread DEF Dead
<1>7. Ordinary(t)
  BY <1>1, <1>4, <1>6, BooksStand
<1> QED BY <1>5, <1>6, <1>7, OrdinaryStep

LEMMA RemoveCallStep ==
  ASSUME IInv, NEW t \in Threads, RemoveCall(t)
  PROVE  IInv'
<1> DEFINE r == request[t]
<1>1. r.at \in Calls /\ r.at = "remove_call"
  BY DEF RemoveCall, Calls
<1>2. PICK old \in Rows, ref \in Refs : old = r.old /\ ref = old.ref
  BY <1>1, Asking
<1>3. airline[ref] \in AirlineBookings /\ InFlight(t) /\ r.key \notin CreateKeys
  BY <1>1, <1>2, Asking
<1> DEFINE refused == UNCHANGED airline /\ request' = [request EXCEPT ![t] = Held(r.pnr, old)]
<1>4. CASE refused
  BY <1>1, <1>2, <1>4, RefusedStep DEF RemoveCall
<1>5. CASE ~refused
  <2>1. airline[ref].manifest \ {r.arg} \in SUBSET People
    BY <1>3 DEF AirlineBookings
  <2>2. PICK booking \in AirlineBookings :
          /\ booking = WithManifest(airline[ref], airline[ref].manifest \ {r.arg})
          /\ booking.key = airline[ref].key /\ booking.status = airline[ref].status
    BY <1>3, <2>1, WithManifestType
  <2>3. PICK new \in Rows :
          new = [old EXCEPT !.passengers = @ \ {r.arg}, !.passports = @ \ {r.arg},
                            !.price = booking.price]
    BY DEF Rows, AirlineBookings
  <2>4. new.ref = ref /\ new.status = old.status
    BY <1>2, <2>3 DEF Rows
  <2>5. airline' = [airline EXCEPT ![ref] = booking] /\ UNCHANGED store
    BY <1>2, <1>5, <2>2 DEF RemoveCall
  <2>6. request' = [request EXCEPT ![t].at = "commit", ![t].new = new]
    BY <1>2, <1>5, <2>2, <2>3 DEF RemoveCall
  <2>7. Reissued(t, ref, booking, new)
    BY <1>1, <1>2, <2>2, <2>4, <2>5, <2>6 DEF Reissued, RemoveCall
  <2> QED BY <2>7, ReissuedStep
<1> QED BY <1>4, <1>5

-----------------------------------------------------------------------------
(* The commit, and what follows.                                           *)

LEMMA CloseStep ==
  ASSUME IInv, NEW t \in Threads, Close(t)
  PROVE  IInv'
<1>1. /\ request[t].at = "held" /\ request' = [request EXCEPT ![t] = Idle]
      /\ UNCHANGED <<rows, airline, seen, store, overlapped, served, faults>>
  BY DEF Close
<1>2. request \in [Threads -> AnyRequest] /\ Idle \in AnyRequest
  BY DEF IInv, TypeOK, AnyRequest
<1>3. /\ request' \in [Threads -> AnyRequest] /\ request'[t] = Idle
      /\ \A u \in Threads \ {t} : request'[u] = request[u]
  BY <1>1, <1>2
<1>4. TypeOK'
  BY <1>1, <1>3 DEF IInv, TypeOK, AnyRequest
<1>5. Threaded(t)' /\ ~Creating(t)'
  BY <1>3, IdleThread
<1>6. ~Creating(t)
  BY <1>1 DEF Creating, Making
<1>7. Ordinary(t)
  BY <1>1, <1>3, <1>5, <1>6, BooksStand
<1> QED BY <1>4, <1>5, <1>7, OrdinaryStep

LEMMA CommitFailsStep ==
  ASSUME IInv, NEW t \in Threads, CommitFails(t)
  PROVE  IInv'
<1>1. /\ request[t].at = "commit" /\ Fail(t) /\ faults' = faults + 1
      /\ faults < MaxFaults /\ UNCHANGED <<rows, airline, seen, overlapped, served>>
  BY DEF CommitFails
<1>2. faults' \in 0..MaxFaults /\ faults' # 0
  BY <1>1, BookingsAssumption DEF IInv, TypeOK, BookingsAssumption
<1>3. InFlight(t)
  BY <1>1 DEF InFlight
<1>4. CASE request[t].old = None
  BY <1>1, <1>2, <1>4, FailMaking DEF Making
<1>5. CASE request[t].old # None
  <2>1. request[t].key \notin CreateKeys
    BY <1>1, <1>5 DEF IInv, Threaded, Staged
  <2> QED BY <1>1, <1>2, <1>3, <2>1, FailStep
<1> QED BY <1>4, <1>5

LEMMA UpdateStep ==
  ASSUME IInv, NEW t \in Threads, Update(t)
  PROVE  IInv'
<1> DEFINE r == request[t]
<1>1. /\ r.at = "commit" /\ r.old # None /\ InFlight(t)
      /\ UNCHANGED <<airline, seen, overlapped, served, faults>>
  BY DEF Update, InFlight
<1>2. PICK old \in Rows, new \in Rows, pnr \in Pnrs :
        /\ old = r.old /\ new = r.new /\ pnr = r.pnr
        /\ r.key \notin CreateKeys
  BY <1>1 DEF IInv, Threaded, Staged
<1>3. /\ r \in Requests /\ r # Idle /\ ~Creating(t)
  <2>1. r \in Requests /\ r # Idle
    BY <1>1, RequestKind DEF IInv
  <2> QED BY <1>1, <1>2, <2>1 DEF Creating, Making
<1>4. /\ rows[pnr] # None /\ rows[pnr].ref = old.ref /\ new.ref = old.ref
      /\ new.status = "CANCELLED" => Dead(new.ref)
  <2>1. HoldsOld(t) /\ HoldsNew(t)
    BY DEF IInv, Threaded
  <2> QED BY <1>1, <1>2, <1>3, <2>1 DEF HoldsOld, HoldsNew
<1>5. CASE Fail(t) /\ UNCHANGED rows
  <2>1. faults' \in 0..MaxFaults
    BY <1>1 DEF IInv, TypeOK
  <2> QED BY <1>1, <1>2, <1>5, <2>1, FailStep
<1>6. CASE ~(Fail(t) /\ UNCHANGED rows)
  <2>1. rows[pnr] \in Rows
    BY <1>4, Booked
  <2>2. PICK row \in Rows :
          /\ row = Written(rows[pnr], old, new)
          /\ row.ref = rows[pnr].ref /\ row.status \in {rows[pnr].status, new.status}
    BY <2>1, WrittenType
  <2>3. rows' = [rows EXCEPT ![pnr] = row] /\ UNCHANGED store
    BY <1>2, <1>6, <2>2 DEF Update
  <2>4. rows \in [Pnrs -> Rows \cup {None}]
    BY DEF IInv, TypeOK
  <2>5. /\ rows' \in [Pnrs -> Rows \cup {None}] /\ rows'[pnr] = row
        /\ \A other \in Pnrs \ {pnr} : rows'[other] = rows[other]
    BY <2>3, <2>4
  <2>6. row # None
    BY NoneAssumption DEF NoneAssumption
  <2>7. Kept
    BY <1>1, <1>4, <2>2, <2>5, <2>6 DEF Kept, Dead
  <2>8. \A other \in Pnrs : rows'[other] # None
          => /\ rows[other] # None
             /\ rows'[other].status = "CANCELLED"
                  => rows[other].status = "CANCELLED" \/ Dead(rows[other].ref)'
    BY <1>1, <1>4, <2>2, <2>5 DEF Dead
  <2>9. new.status = "CANCELLED" => Dead(new.ref)'
    BY <1>1, <1>4 DEF Dead
  <2>10. rows'[pnr] # None /\ rows'[pnr].ref = new.ref
    BY <1>4, <2>2, <2>5, <2>6
  <2>11. request \in [Threads -> AnyRequest]
    BY DEF IInv, TypeOK, AnyRequest
  <2>12. /\ request' \in [Threads -> AnyRequest]
         /\ \A u \in Threads \ {t} : request'[u] = request[u]
         /\ Threaded(t)' /\ ~Creating(t)'
    <3>1. CASE r.key \in CancelKeys
      <4> DEFINE f == [r EXCEPT !.at = "finish", !.old = r.new]
      <4>1. request' = [request EXCEPT ![t] = f]
        BY <1>6, <3>1 DEF Update
      <4>2. /\ f \in Requests /\ f.at = "finish" /\ f.old = new /\ f.pnr = pnr
            /\ f.key = r.key
        BY <1>2, <1>3 DEF Requests, Stages
      <4>3. f \in AnyRequest
        BY <4>2 DEF AnyRequest
      <4> HIDE DEF f
      <4>4. /\ request' \in [Threads -> AnyRequest] /\ request'[t] = f
            /\ \A u \in Threads \ {t} : request'[u] = request[u]
        BY <2>11, <4>1, <4>3
      <4>5. r.key[2] = pnr /\ Dead(old.ref)
        <5>1. Cancelling(t)
          BY DEF IInv, Threaded
        <5> QED BY <1>1, <1>2, <3>1, <5>1 DEF Cancelling
      <4>6. Dead(new.ref)'
        BY <1>1, <1>4, <4>5 DEF Dead
      <4>7. Staged(t)' /\ HoldsNew(t)' /\ ~Creating(t)'
        BY <1>2, <3>1, <4>2, <4>4 DEF Staged, HoldsNew, Creating, Making
      <4>8. HoldsOld(t)' /\ Cancelling(t)'
        BY <2>9, <2>10, <4>2, <4>4, <4>5, <4>6 DEF HoldsOld, Cancelling, Dead
      <4> QED BY <4>4, <4>7, <4>8 DEF Threaded
    <3>2. CASE r.key \notin CancelKeys
      <4>1. request' = [request EXCEPT ![t] = Held(pnr, new)]
        BY <1>2, <1>6, <3>2 DEF Update
      <4>2. Held(pnr, new) \in AnyRequest
        BY DEF AnyRequest, Held
      <4>3. /\ request' \in [Threads -> AnyRequest] /\ request'[t] = Held(pnr, new)
            /\ \A u \in Threads \ {t} : request'[u] = request[u]
        BY <2>11, <4>1, <4>2
      <4> QED BY <2>9, <2>10, <4>3, HeldThread
    <3> QED BY <3>1, <3>2
  <2>13. TypeOK'
    BY <1>1, <2>3, <2>5, <2>12 DEF IInv, TypeOK, AnyRequest
  <2>14. Ordinary(t)
    <3>1. \A key \in CreateKeys : seen'[key] = seen[key] /\ store'[key] = store[key]
      BY <1>1, <2>3
    <3>2. \A key \in ModifyKeys : seen'[key] = seen[key]
      BY <1>1
    <3>3. /\ \A ref \in Refs : airline'[ref] # None => airline[ref] # None
          /\ faults' = 0 => faults = 0
      BY <1>1
    <3> QED BY <1>3, <2>3, <2>7, <2>8, <2>12, <3>1, <3>2, <3>3 DEF Ordinary
  <2> QED BY <2>12, <2>13, <2>14, OrdinaryStep
<1> QED BY <1>5, <1>6

LEMMA FinishStep ==
  ASSUME IInv, NEW t \in Threads, Finish(t)
  PROVE  IInv'
<1> DEFINE r == request[t]
<1>1. /\ r.at = "finish" /\ InFlight(t)
      /\ UNCHANGED <<rows, airline, seen, overlapped, served, faults>>
  BY DEF Finish, InFlight
<1>2. PICK old \in Rows, pnr \in Pnrs, key \in CreateKeys \cup CancelKeys :
        old = r.old /\ pnr = r.pnr /\ key = r.key
  BY <1>1 DEF IInv, Threaded, Staged
<1>3. /\ r # Idle /\ old # None
  BY <1>1, RequestKind, NoneAssumption DEF NoneAssumption, IInv
<1>4. /\ rows[pnr] # None /\ rows[pnr].ref = old.ref
      /\ old.status = "CANCELLED" => Dead(old.ref)
  BY <1>2, <1>3 DEF IInv, Threaded, HoldsOld
<1>5. /\ store' = [store EXCEPT ![key] = [state |-> "completed", pnr |-> pnr]]
      /\ request' = [request EXCEPT ![t] = Held(pnr, old)]
  BY <1>2 DEF Finish
<1>6. /\ request \in [Threads -> AnyRequest] /\ Held(pnr, old) \in AnyRequest
      /\ store \in [CreateKeys \cup CancelKeys ->
           [state : {"absent", "in_progress", "completed"}, pnr : Pnrs \cup {None}]]
  BY DEF IInv, TypeOK, AnyRequest, Held
<1>7. /\ request' \in [Threads -> AnyRequest] /\ request'[t] = Held(pnr, old)
      /\ \A u \in Threads \ {t} : request'[u] = request[u]
  BY <1>5, <1>6
<1>8. /\ store' \in [CreateKeys \cup CancelKeys ->
           [state : {"absent", "in_progress", "completed"}, pnr : Pnrs \cup {None}]]
      /\ store'[key].state = "completed"
      /\ \A other \in (CreateKeys \cup CancelKeys) \ {key} : store'[other] = store[other]
  BY <1>5, <1>6
<1>9. TypeOK'
  BY <1>1, <1>7, <1>8 DEF IInv, TypeOK, AnyRequest
<1>10. Threaded(t)' /\ ~Creating(t)'
  <2>1. old.status = "CANCELLED" => Dead(old.ref)'
    BY <1>1, <1>4 DEF Dead
  <2>2. rows'[pnr] # None /\ rows'[pnr].ref = old.ref
    BY <1>1, <1>4
  <2> QED BY <1>7, <2>1, <2>2, HeldThread
<1>11. Kept
  BY <1>1 DEF Kept, Dead
<1>12. ASSUME NEW u \in Threads
       PROVE  Threaded(u)'
  BY <1>7, <1>10, <1>11, OthersStand DEF IInv
<1>13. RowsAreBooked' /\ SeenIsBooked' /\ OneRowEach'
  BY <1>1 DEF IInv, RowsAreBooked, SeenIsBooked, OneRowEach, Dead
<1>14. CompletedIsDead'
  <2> SUFFICES ASSUME NEW caller \in Callers, NEW other \in Pnrs,
                      store'[<<caller, other>>].state = "completed"
               PROVE  rows[other] # None /\ Dead(rows[other].ref)
    BY <1>1 DEF CompletedIsDead, Dead
  <2>1. <<caller, other>> \in CancelKeys
    BY DEF CancelKeys
  <2>2. CASE <<caller, other>> # key
    BY <1>8, <2>1, <2>2 DEF IInv, CompletedIsDead
  <2>3. CASE <<caller, other>> = key
    <3>1. r.key[2] = pnr /\ Dead(old.ref)
      BY <1>1, <1>2, <2>1, <2>3 DEF IInv, Threaded, Cancelling
    <3>2. other = pnr
      BY <1>2, <2>3, <3>1
    <3> QED BY <1>4, <3>1, <3>2
  <2> QED BY <2>2, <2>3
<1>15. ASSUME NEW u \in Threads, Creating(u)'
       PROVE  /\ u # t /\ request'[u] = request[u] /\ Creating(u)
              /\ request[u].key \in CreateKeys /\ (Making(u)' => Making(u))
  <2>1. u # t /\ request'[u] = request[u]
    BY <1>7, <1>10, <1>15
  <2>2. Creating(u) /\ (Making(u)' => Making(u))
    BY <1>15, <2>1 DEF Creating, Making
  <2>3. request[u].key \in CreateKeys
    BY <2>2 DEF IInv, Creating, Making, Threaded, Staged
  <2> QED BY <2>1, <2>2, <2>3
<1>16. KeysAreHeld'
  <2> USE DEF IInv
  <2>1. ASSUME NEW u \in Threads, Creating(u)'
        PROVE  store'[request'[u].key].state # "absent"
    BY <1>8, <1>15, <2>1 DEF KeysAreHeld
  <2>2. ASSUME NEW u \in Threads, NEW v \in Threads, Creating(u)', Creating(v)',
               request'[u].key = request'[v].key
        PROVE  u = v
    BY <1>15, <2>2 DEF KeysAreHeld
  <2>3. ASSUME NEW other \in Pnrs, rows'[other] # None
        PROVE  store'[airline'[rows'[other].ref].key].state # "absent"
    <3>1. airline[rows[other].ref].key \in CreateKeys
      BY <1>1, <2>3, Booked DEF AirlineBookings
    <3> QED BY <1>1, <1>8, <2>3, <3>1 DEF KeysAreHeld
  <2>4. ASSUME NEW u \in Threads, NEW other \in Pnrs, Making(u)', rows'[other] # None
        PROVE  airline'[rows'[other].ref].key # request'[u].key
    <3>1. Creating(u)'
      BY <2>4 DEF Creating
    <3> QED BY <1>1, <1>15, <2>4, <3>1 DEF KeysAreHeld
  <2> QED BY <2>1, <2>2, <2>3, <2>4 DEF KeysAreHeld
<1>17. NoneIsLost'
  <2> SUFFICES ASSUME faults' = 0, NEW ref \in Refs, airline'[ref] # None
               PROVE  \/ \E other \in Pnrs : rows'[other] # None /\ rows'[other].ref = ref
                      \/ \E u \in Threads :
                           /\ request'[u].at = "commit" /\ request'[u].old = None
                           /\ request'[u].new.ref = ref
    BY DEF NoneIsLost
  <2>1. \A u \in Threads : request[u].at = "commit" => request'[u] = request[u]
    BY <1>1, <1>7
  <2> QED BY <1>1, <2>1 DEF IInv, NoneIsLost
<1> QED BY <1>9, <1>12, <1>13, <1>14, <1>16, <1>17 DEF IInv

-----------------------------------------------------------------------------
(* create_booking: the airline answers with a booking, and its row is      *)
(* inserted.                                                               *)

Made(t, ref, answer) ==
  /\ request[t].at = "create_call"
  /\ ref \in Refs /\ answer \in AirlineBookings /\ answer.key = request[t].key
  /\ airline[ref] = None \/ airline[ref] = answer
  /\ seen[request[t].key] = None \/ seen[request[t].key] = ref
  /\ airline' = [airline EXCEPT ![ref] = answer]
  /\ seen' = [seen EXCEPT ![request[t].key] = ref]
  /\ request' = [request EXCEPT ![t].at = "commit", ![t].new = RowOf(ref, answer)]
  /\ UNCHANGED <<rows, store, overlapped, served, faults>>

LEMMA MadeStep ==
  ASSUME IInv, NEW t \in Threads, NEW ref, NEW answer, Made(t, ref, answer)
  PROVE  IInv'
<1> USE DEF IInv
<1>1. /\ request[t].at = "create_call"
      /\ ref \in Refs /\ answer \in AirlineBookings /\ answer.key = request[t].key
      /\ airline[ref] = None \/ airline[ref] = answer
      /\ UNCHANGED <<rows, store, overlapped, served, faults>>
  BY DEF Made
<1>2. PICK key \in CreateKeys, new \in Rows :
        /\ key = request[t].key /\ request[t].old = None
        /\ new = RowOf(ref, answer) /\ new.ref = ref /\ new.status = "CONFIRMED"
  <2>1. request[t].key \in CreateKeys /\ request[t].old = None
    BY <1>1 DEF Threaded, Staged
  <2>2. RowOf(ref, answer) \in Rows
    BY <1>1 DEF RowOf, Rows, AirlineBookings, Statuses
  <2>3. RowOf(ref, answer).ref = ref /\ RowOf(ref, answer).status = "CONFIRMED"
    BY DEF RowOf
  <2> QED BY <2>1, <2>2, <2>3
<1>3. /\ airline \in [Refs -> AirlineBookings \cup {None}]
      /\ seen \in [CreateKeys \cup ModifyKeys -> Refs \cup {None}]
      /\ request \in [Threads -> AnyRequest]
  BY DEF TypeOK, AnyRequest
<1>4. /\ airline' \in [Refs -> AirlineBookings \cup {None}]
      /\ airline'[ref] = answer
      /\ \A other \in Refs \ {ref} : airline'[other] = airline[other]
  BY <1>1, <1>3 DEF Made
<1>5. /\ seen' \in [CreateKeys \cup ModifyKeys -> Refs \cup {None}]
      /\ seen'[key] = ref
      /\ \A other \in (CreateKeys \cup ModifyKeys) \ {key} : seen'[other] = seen[other]
  BY <1>1, <1>2, <1>3 DEF Made
<1>6. answer # None
  BY <1>1, NoneAssumption DEF NoneAssumption
<1> DEFINE r == [request[t] EXCEPT !.at = "commit", !.new = new]
<1>7. /\ r \in Requests /\ r.at = "commit" /\ r.new = new /\ r.old = None
      /\ r.key = key
  <2>1. request[t] \in Requests
    BY <1>1, RequestKind DEF InFlight
  <2> QED BY <1>2, <2>1 DEF Requests, Stages
<1>8. request' = [request EXCEPT ![t] = r]
  BY <1>2, <1>3 DEF Made
<1> HIDE DEF r
<1>9. /\ request' \in [Threads -> AnyRequest] /\ request'[t] = r
      /\ \A u \in Threads \ {t} : request'[u] = request[u]
  <2>1. r \in AnyRequest
    BY <1>7 DEF AnyRequest
  <2> QED BY <1>3, <1>8, <2>1
<1>10. TypeOK'
  BY <1>1, <1>4, <1>5, <1>9 DEF TypeOK, AnyRequest
<1>11. Kept
  BY <1>1, <1>4, <1>6 DEF Kept, Dead
<1>12. Threaded(t)'
  <2>1. key \notin CancelKeys
    BY BookingsAssumption DEF BookingsAssumption
  <2> QED BY <1>1, <1>2, <1>4, <1>6, <1>7, <1>9, <2>1
      DEF Threaded, Staged, HoldsOld, HoldsNew, Cancelling
<1>13. ASSUME NEW u \in Threads
       PROVE  Threaded(u)'
  BY <1>9, <1>11, <1>12, OthersStand
<1>14. ASSUME NEW pnr \in Pnrs, rows[pnr] # None
       PROVE  /\ rows[pnr].ref \in Refs /\ airline'[rows[pnr].ref] # None
              /\ airline'[rows[pnr].ref].key = airline[rows[pnr].ref].key
              /\ Dead(rows[pnr].ref) => Dead(rows[pnr].ref)'
  <2>1. rows[pnr].ref \in Refs /\ airline[rows[pnr].ref] # None
    BY <1>14, Booked
  <2> QED BY <1>1, <1>11, <2>1 DEF Kept
<1>15. RowsAreBooked' /\ OneRowEach' /\ CompletedIsDead'
  <2>1. RowsAreBooked'
    BY <1>1, <1>14 DEF RowsAreBooked
  <2>2. OneRowEach'
    BY <1>1 DEF OneRowEach
  <2>3. CompletedIsDead'
    BY <1>1, <1>14 DEF CompletedIsDead
  <2> QED BY <2>1, <2>2, <2>3
<1>16. SeenIsBooked'
  <2>1. ASSUME NEW other \in Refs, airline'[other] # None
        PROVE  seen'[airline'[other].key] = other
    <3>1. CASE other = ref
      BY <1>1, <1>2, <1>4, <1>5, <3>1
    <3>2. CASE other # ref
      <4>1. airline'[other] = airline[other] /\ airline[other].key \in CreateKeys
        BY <1>4, <2>1, <3>2 DEF AirlineBookings
      <4>2. seen[airline[other].key] = other
        BY <2>1, <4>1 DEF SeenIsBooked
      <4>3. other # None
        BY NoneAssumption DEF NoneAssumption
      <4>4. airline[other].key # key
        BY <1>2, <3>2, <4>2, <4>3 DEF Made
      <4> QED BY <1>5, <4>1, <4>2, <4>4
    <3> QED BY <3>1, <3>2
  <2>2. ASSUME NEW other \in CreateKeys \cup ModifyKeys, seen'[other] # None
        PROVE  /\ airline'[seen'[other]] # None
               /\ other \in CreateKeys => airline'[seen'[other]].key = other
    <3>1. CASE other = key
      BY <1>1, <1>2, <1>4, <1>5, <1>6, <3>1
    <3>2. CASE other # key
      <4>1. seen'[other] = seen[other] /\ seen[other] \in Refs
        BY <1>3, <1>5, <2>2, <3>2
      <4>2. /\ airline[seen[other]] # None
            /\ other \in CreateKeys => airline[seen[other]].key = other
        BY <2>2, <4>1 DEF SeenIsBooked
      <4> QED BY <1>11, <4>1, <4>2 DEF Kept
    <3> QED BY <3>1, <3>2
  <2> QED BY <2>1, <2>2 DEF SeenIsBooked
<1>17. ASSUME NEW u \in Threads
       PROVE  /\ request'[u].key = request[u].key
              /\ Creating(u)' => Creating(u) /\ request[u].key \in CreateKeys
              /\ Making(u)' => Making(u)
  <2>1. CASE u = t
    BY <1>1, <1>2, <1>7, <1>9, <2>1 DEF Creating, Making
  <2>2. CASE u # t
    <3>1. request'[u] = request[u]
      BY <1>9, <2>2
    <3>2. Creating(u) => request[u].key \in CreateKeys
      BY DEF Creating, Making, Threaded, Staged
    <3> QED BY <3>1, <3>2 DEF Creating, Making
  <2> QED BY <2>1, <2>2
<1>18. KeysAreHeld'
  <2>1. ASSUME NEW u \in Threads, Creating(u)'
        PROVE  store'[request'[u].key].state # "absent"
    BY <1>1, <1>17, <2>1 DEF KeysAreHeld
  <2>2. ASSUME NEW u \in Threads, NEW v \in Threads, Creating(u)', Creating(v)',
               request'[u].key = request'[v].key
        PROVE  u = v
    BY <1>17, <2>2 DEF KeysAreHeld
  <2>3. ASSUME NEW pnr \in Pnrs, rows'[pnr] # None
        PROVE  store'[airline'[rows'[pnr].ref].key].state # "absent"
    BY <1>1, <1>14, <2>3 DEF KeysAreHeld
  <2>4. ASSUME NEW u \in Threads, NEW pnr \in Pnrs, Making(u)', rows'[pnr] # None
        PROVE  airline'[rows'[pnr].ref].key # request'[u].key
    BY <1>1, <1>14, <1>17, <2>4 DEF KeysAreHeld
  <2> QED BY <2>1, <2>2, <2>3, <2>4 DEF KeysAreHeld
<1>19. NoneIsLost'
  <2> SUFFICES ASSUME faults' = 0, NEW other \in Refs, airline'[other] # None
               PROVE  \/ \E pnr \in Pnrs : rows'[pnr] # None /\ rows'[pnr].ref = other
                      \/ \E u \in Threads :
                           /\ request'[u].at = "commit" /\ request'[u].old = None
                           /\ request'[u].new.ref = other
    BY DEF NoneIsLost
  <2>1. CASE other = ref
    BY <1>2, <1>7, <1>9, <2>1
  <2>2. CASE other # ref
    <3>1. airline[other] # None
      BY <1>4, <2>2
    <3>2. \A u \in Threads : request[u].at = "commit" => request'[u] = request[u]
      BY <1>1, <1>9
    <3> QED BY <1>1, <3>1, <3>2 DEF NoneIsLost
  <2> QED BY <2>1, <2>2
<1> QED BY <1>10, <1>13, <1>15, <1>16, <1>18, <1>19

LEMMA CreateCallStep ==
  ASSUME IInv, NEW t \in Threads, CreateCall(t)
  PROVE  IInv'
<1> USE DEF IInv
<1> DEFINE r == request[t]
           booking == [key |-> r.key, status |-> "CONFIRMED", flight |-> Quote.flight,
                       price |-> QuoteTotal(FlightPrice[Quote.flight], Quote.adults,
                                            Quote.children, 0),
                       contact |-> "given", manifest |-> Party]
           fresh == CHOOSE ref \in Refs : airline[ref] = None
<1>1. /\ r.at = "create_call" /\ r.key \in CreateKeys
      /\ UNCHANGED <<rows, overlapped, served, faults>>
  BY DEF CreateCall, Threaded, Staged
<1>2. /\ airline \in [Refs -> AirlineBookings \cup {None}]
      /\ seen \in [CreateKeys \cup ModifyKeys -> Refs \cup {None}]
  BY DEF TypeOK
<1>3. CASE /\ Known(r.key) /\ UNCHANGED <<airline, seen, store>>
           /\ request' = [request EXCEPT ![t].at = "commit",
                ![t].new = RowOf(seen[r.key], airline[seen[r.key]])]
  <2>1. PICK ref \in Refs : ref = seen[r.key]
    BY <1>1, <1>2, <1>3 DEF Known
  <2>2. airline[ref] # None /\ airline[ref].key = r.key
    BY <1>1, <1>3, <2>1 DEF Known, SeenIsBooked
  <2>3. PICK answer \in AirlineBookings : answer = airline[ref]
    BY <1>2, <2>2
  <2>4. /\ airline' = [airline EXCEPT ![ref] = answer]
        /\ seen' = [seen EXCEPT ![r.key] = ref]
    BY <1>1, <1>2, <1>3, <2>1, <2>3
  <2>5. Made(t, ref, answer)
    BY <1>1, <1>3, <2>1, <2>2, <2>3, <2>4 DEF Made
  <2> QED BY <2>5, MadeStep
<1>4. CASE /\ ~Known(r.key) /\ UNCHANGED store
           /\ \E ref \in Refs : airline[ref] = None
           /\ airline' = [airline EXCEPT ![fresh] = booking]
           /\ seen' = [seen EXCEPT ![r.key] = fresh]
           /\ request' = [request EXCEPT ![t].at = "commit",
                ![t].new = RowOf(fresh, booking)]
  <2>1. PICK ref \in Refs : ref = fresh /\ airline[ref] = None
    BY <1>4
  <2> HIDE DEF fresh
  <2>2. PICK answer \in AirlineBookings : answer = booking
    <3>1. /\ Quote.flight \in Flights /\ Quote.adults \in Nat /\ Quote.children \in Nat
          /\ FlightPrice[Quote.flight] \in Nat
      BY BookingsAssumption DEF BookingsAssumption
    <3>2. QuoteTotal(FlightPrice[Quote.flight], Quote.adults, Quote.children, 0) \in Nat
      BY <3>1, QuoteType
    <3> QED BY <1>1, <3>1, <3>2 DEF AirlineBookings, Statuses, Contacts, People
  <2>3. answer.key = r.key
    BY <2>2
  <2> HIDE DEF booking
  <2>4. Made(t, ref, answer)
    BY <1>1, <1>4, <2>1, <2>2, <2>3 DEF Made, Known
  <2> QED BY <2>4, MadeStep
<1>5. CASE Fail(t) /\ UNCHANGED <<airline, seen>>
  <2>1. faults' \in 0..MaxFaults /\ Making(t)
    BY <1>1 DEF TypeOK, Making
  <2> QED BY <1>1, <1>5, <2>1, FailMaking
<1> QED BY <1>3, <1>4, <1>5 DEF CreateCall

LEMMA InsertStep ==
  ASSUME IInv, NEW t \in Threads, Insert(t)
  PROVE  IInv'
<1> USE DEF IInv
<1>1. /\ request[t].at = "commit" /\ request[t].old = None
      /\ Making(t) /\ Creating(t) /\ InFlight(t)
      /\ UNCHANGED <<airline, seen, store, overlapped, served, faults>>
  BY DEF Insert, Making, Creating, InFlight
<1>2. PICK new \in Rows, key \in CreateKeys : new = request[t].new /\ key = request[t].key
  BY <1>1 DEF Threaded, Staged
<1>3. PICK fresh \in Pnrs :
        /\ rows[fresh] = None
        /\ rows' = [rows EXCEPT ![fresh] = new]
        /\ request' = [request EXCEPT ![t].at = "finish", ![t].pnr = fresh, ![t].old = new]
  BY <1>2 DEF Insert
<1>4. /\ new.ref \in Refs /\ airline[new.ref] # None /\ airline[new.ref].key = key
      /\ new.status = "CANCELLED" => Dead(new.ref)
      /\ new # None
  BY <1>1, <1>2, NoneAssumption DEF NoneAssumption, Threaded, HoldsNew, Rows
<1>5. /\ rows \in [Pnrs -> Rows \cup {None}] /\ request \in [Threads -> AnyRequest]
  BY DEF TypeOK, AnyRequest
<1>6. /\ rows' \in [Pnrs -> Rows \cup {None}] /\ rows'[fresh] = new
      /\ \A other \in Pnrs \ {fresh} : rows'[other] = rows[other]
  BY <1>3, <1>5
<1> DEFINE r == [request[t] EXCEPT !.at = "finish", !.pnr = fresh, !.old = new]
<1>7. /\ r \in Requests /\ r.at = "finish" /\ r.pnr = fresh /\ r.old = new
      /\ r.key = key
  <2>1. request[t] \in Requests
    BY <1>1, RequestKind
  <2> QED BY <1>2, <2>1 DEF Requests, Stages
<1>8. request' = [request EXCEPT ![t] = r]
  BY <1>3, <1>5
<1> HIDE DEF r
<1>9. /\ request' \in [Threads -> AnyRequest] /\ request'[t] = r
      /\ \A u \in Threads \ {t} : request'[u] = request[u]
  <2>1. r \in AnyRequest
    BY <1>7 DEF AnyRequest
  <2> QED BY <1>5, <1>8, <2>1
<1>10. TypeOK'
  BY <1>1, <1>6, <1>9 DEF TypeOK, AnyRequest
<1>11. Kept
  BY <1>1, <1>3, <1>6 DEF Kept, Dead
<1>12. Threaded(t)'
  <2>1. key \notin CancelKeys
    BY BookingsAssumption DEF BookingsAssumption
  <2>2. Staged(t)' /\ HoldsNew(t)' /\ Cancelling(t)'
    BY <1>4, <1>7, <1>9, <2>1 DEF Staged, HoldsNew, Cancelling
  <2>3. HoldsOld(t)'
    BY <1>1, <1>4, <1>6, <1>7, <1>9 DEF HoldsOld, Dead
  <2> QED BY <2>2, <2>3 DEF Threaded
<1>13. ASSUME NEW u \in Threads
       PROVE  Threaded(u)'
  BY <1>9, <1>11, <1>12, OthersStand
<1>14. RowsAreBooked'
  BY <1>1, <1>4, <1>6 DEF RowsAreBooked, Dead
<1>15. CompletedIsDead'
  BY <1>1, <1>3, <1>6 DEF CompletedIsDead, Dead
<1>16. SeenIsBooked'
  BY <1>1 DEF SeenIsBooked
<1>17. ASSUME NEW u \in Threads
       PROVE  /\ request'[u].key = request[u].key
              /\ Creating(u)' => Creating(u)
              /\ Making(u)' => Making(u) /\ u # t
  <2>1. CASE u = t
    BY <1>1, <1>2, <1>7, <1>9, <2>1 DEF Making
  <2>2. CASE u # t
    BY <1>9, <2>2 DEF Creating, Making
  <2> QED BY <2>1, <2>2
<1>18. KeysAreHeld'
  <2>1. ASSUME NEW u \in Threads, Creating(u)'
        PROVE  store'[request'[u].key].state # "absent"
    BY <1>1, <1>17, <2>1 DEF KeysAreHeld
  <2>2. ASSUME NEW u \in Threads, NEW v \in Threads, Creating(u)', Creating(v)',
               request'[u].key = request'[v].key
        PROVE  u = v
    BY <1>17, <2>2 DEF KeysAreHeld
  <2>3. ASSUME NEW pnr \in Pnrs, rows'[pnr] # None
        PROVE  store'[airline'[rows'[pnr].ref].key].state # "absent"
    BY <1>1, <1>2, <1>4, <1>6, <2>3 DEF KeysAreHeld
  <2>4. ASSUME NEW u \in Threads, NEW pnr \in Pnrs, Making(u)', rows'[pnr] # None
        PROVE  airline'[rows'[pnr].ref].key # request'[u].key
    <3>1. Making(u) /\ Creating(u) /\ u # t /\ request'[u].key = request[u].key
      BY <1>17, <2>4 DEF Creating
    <3>2. CASE pnr = fresh
      BY <1>1, <1>2, <1>4, <1>6, <3>1, <3>2 DEF KeysAreHeld
    <3>3. CASE pnr # fresh
      BY <1>1, <1>6, <2>4, <3>1, <3>3 DEF KeysAreHeld
    <3> QED BY <3>2, <3>3
  <2> QED BY <2>1, <2>2, <2>3, <2>4 DEF KeysAreHeld
<1>19. OneRowEach'
  <2>1. \A pnr \in Pnrs : rows[pnr] # None => rows[pnr].ref # new.ref
    BY <1>1, <1>2, <1>4 DEF KeysAreHeld
  <2> QED BY <1>3, <1>6, <2>1 DEF OneRowEach
<1>20. NoneIsLost'
  <2> SUFFICES ASSUME faults' = 0, NEW ref \in Refs, airline'[ref] # None
               PROVE  \/ \E pnr \in Pnrs : rows'[pnr] # None /\ rows'[pnr].ref = ref
                      \/ \E u \in Threads :
                           /\ request'[u].at = "commit" /\ request'[u].old = None
                           /\ request'[u].new.ref = ref
    BY DEF NoneIsLost
  <2>1. CASE \E pnr \in Pnrs : rows[pnr] # None /\ rows[pnr].ref = ref
    BY <1>11, <2>1 DEF Kept
  <2>2. CASE new.ref = ref
    BY <1>4, <1>6, <2>2
  <2>3. CASE \E u \in Threads \ {t} : /\ request[u].at = "commit"
                                      /\ request[u].old = None
                                      /\ request[u].new.ref = ref
    BY <1>9, <2>3
  <2> QED BY <1>1, <1>2, <2>1, <2>2, <2>3 DEF NoneIsLost
<1> QED BY <1>10, <1>13, <1>14, <1>15, <1>16, <1>18, <1>19, <1>20

-----------------------------------------------------------------------------
(* The specification.                                                      *)

LEMMA InitInvariant == Init => IInv
<1> SUFFICES ASSUME Init PROVE IInv
  OBVIOUS
<1> USE DEF Init
<1>1. Absent \in [state : {"absent", "in_progress", "completed"}, pnr : Pnrs \cup {None}]
  BY DEF Absent
<1>2. TypeOK
  BY <1>1, BookingsAssumption DEF TypeOK, BookingsAssumption
<1>3. \A t \in Threads : Threaded(t) /\ ~Creating(t)
  BY DEF Threaded, Staged, HoldsOld, HoldsNew, Cancelling, InFlight, Creating, Making, Idle
<1>4. RowsAreBooked /\ OneRowEach /\ NoneIsLost
  BY DEF RowsAreBooked, OneRowEach, NoneIsLost
<1>5. CompletedIsDead
  BY DEF CompletedIsDead, Absent, CancelKeys
<1>6. SeenIsBooked
  BY DEF SeenIsBooked
<1>7. KeysAreHeld
  BY <1>3 DEF KeysAreHeld, Creating
<1> QED BY <1>2, <1>3, <1>4, <1>5, <1>6, <1>7 DEF IInv

LEMMA NextInvariant ==
  ASSUME IInv, [Next]_vars
  PROVE  IInv'
<1>1. CASE UNCHANGED vars
  <2> USE <1>1 DEF vars
  <2>1. TypeOK' /\ Kept
    BY DEF IInv, TypeOK, Kept, Dead
  <2>2. ASSUME NEW u \in Threads
        PROVE  Threaded(u)'
    BY <2>1, OthersStand DEF IInv
  <2>3. RowsAreBooked' /\ CompletedIsDead' /\ SeenIsBooked' /\ OneRowEach'
    BY DEF IInv, RowsAreBooked, CompletedIsDead, SeenIsBooked, OneRowEach, Dead
  <2>4. KeysAreHeld'
    BY DEF IInv, KeysAreHeld, Creating, Making
  <2>5. NoneIsLost'
    BY DEF IInv, NoneIsLost
  <2> QED BY <2>1, <2>2, <2>3, <2>4, <2>5 DEF IInv
<1>2. ASSUME NEW t \in Threads, Receive(t)
      PROVE  IInv'
  <2>1. ASSUME NEW key \in CreateKeys, CreateBegin(t, key) PROVE IInv'
    BY <2>1, CreateBeginStep
  <2>2. ASSUME NEW pnr \in Pnrs, LookUp(t, pnr) PROVE IInv'
    BY <2>2, LookUpStep
  <2>3. ASSUME NEW pnr \in Pnrs, NEW caller \in Callers, NEW change \in Changes,
               Modify(t, pnr, caller, change)
        PROVE  IInv'
    BY <2>3, ModifyStep
  <2>4. ASSUME NEW pnr \in Pnrs, NEW caller \in Callers, Cancel(t, pnr, caller)
        PROVE  IInv'
    BY <2>4, CancelStep
  <2>5. ASSUME NEW pnr \in Pnrs, AddPassenger(t, pnr) PROVE IInv'
    <3>1. PICK passenger \in People : TRUE
      BY BookingsAssumption DEF BookingsAssumption, People
    <3> QED BY <2>5, PassengerStep
  <2>6. ASSUME NEW pnr \in Pnrs, NEW passenger \in People,
               RemovePassenger(t, pnr, passenger) \/ AddPassport(t, pnr, passenger)
        PROVE  IInv'
    BY <2>6, PassengerStep
  <2> QED BY <1>2, <2>1, <2>2, <2>3, <2>4, <2>5, <2>6 DEF Receive
<1>3. ASSUME NEW t \in Threads, Proceed(t)
      PROVE  IInv'
  BY <1>3, CreateCallStep, ModifyCallStep, CancelCallStep, AddCallStep, RemoveCallStep,
     InsertStep, UpdateStep, FinishStep, CloseStep DEF Proceed
<1>4. ASSUME NEW t \in Threads, CommitFails(t)
      PROVE  IInv'
  BY <1>4, CommitFailsStep
<1> QED BY <1>1, <1>2, <1>3, <1>4 DEF Next

(* The inductive invariant holds in every state.                           *)
THEOREM Invariance == Spec => []IInv
<1>1. IInv /\ [Next]_vars => IInv'
  BY NextInvariant
<1> QED BY InitInvariant, <1>1, PTL DEF Spec

(* booking_service.py, passenger_service.py, cancellation_service.py: the  *)
(* variables keep their types.                                             *)
THEOREM TypeCorrect == Spec => []TypeOK
<1>1. IInv => TypeOK
  BY DEF IInv
<1> QED BY Invariance, <1>1, PTL

(* booking_service.py create_booking over the airline's and the process's  *)
(* idempotency: however the retries of however many clients interleave, a  *)
(* key makes at most one booking at the airline and one row; and without a *)
(* failing commit no booking stays without its row.                        *)
THEOREM CreatedOnce == Spec => []BookedOnce
<1>1. IInv => BookedOnce
  <2> SUFFICES ASSUME IInv PROVE BookedOnce
    OBVIOUS
  <2>1. \A r, s \in Refs : airline[r] # None /\ airline[s] # None
                            /\ airline[r].key = airline[s].key => r = s
    BY DEF IInv, SeenIsBooked
  <2>2. \A p, q \in Pnrs : rows[p] # None /\ rows[q] # None
                            /\ rows[p].ref = rows[q].ref => p = q
    BY DEF IInv, OneRowEach
  <2>3. faults = 0 /\ (\A t \in Threads : ~InFlight(t))
          => \A ref \in Refs : airline[ref] # None
               => \E pnr \in Pnrs : rows[pnr] # None /\ rows[pnr].ref = ref
    BY DEF IInv, NoneIsLost, InFlight
  <2> QED BY <2>1, <2>2, <2>3 DEF BookedOnce
<1> QED BY Invariance, <1>1, PTL

(* cancellation_service.py cancel: whatever request overlaps it, whatever  *)
(* stale row it writes and whichever commit fails, a booking shown as      *)
(* cancelled, or whose cancellation was completed, is cancelled at the     *)
(* airline.                                                                *)
THEOREM CancelledForGood == Spec => []CancelledAtAirline
<1>1. IInv => CancelledAtAirline
  BY DEF IInv, CancelledAtAirline, BookingOf, RowsAreBooked, CompletedIsDead, Dead
<1> QED BY Invariance, <1>1, PTL
-----------------------------------------------------------------------------
(* Passengers: a second invariant, on top of the first.                    *)

(* What a request is about to write of a passenger, and whom it has read.  *)
Writing(t, pnr) ==
  request[t].at = "commit" /\ request[t].old # None /\ request[t].pnr = pnr
Adding(t, pnr, x) ==
  /\ Writing(t, pnr)
  /\ x \in request[t].new.passengers /\ x \notin request[t].old.passengers
Removing(t, pnr, x) ==
  /\ Writing(t, pnr)
  /\ x \in request[t].old.passengers /\ x \notin request[t].new.passengers
Sees(t, pnr, x) ==
  On(t, pnr) /\ request[t].old # None /\ x \in request[t].old.passengers

(* The airline is never told that one of the party is removed.             *)
PartyFlies ==
  \A ref \in Refs : airline[ref] # None => Party \subseteq airline[ref].manifest

(* A request removes somebody it has read; one that adds a passport writes *)
(* nothing else.                                                           *)
WritesFit(t) ==
  LET r == request[t]
  IN  /\ r.at = "remove_call" => r.arg \in Added /\ r.arg \in r.old.passengers
      /\ r.at = "commit" /\ r.old # None
           => \/ r.new.passengers = r.old.passengers
              \/ r.new.passports \subseteq r.old.passports
      /\ r.at = "commit" /\ r.old = None
           => airline[r.new.ref].manifest = r.new.passengers

(* The manifest is ahead of the row by what requests are about to write.   *)
ManifestIsAhead ==
  \A pnr \in Pnrs : rows[pnr] # None => \A x \in Added :
    x \in BookingOf(pnr).manifest
      <=> \/ \E t \in Threads : Adding(t, pnr, x)
          \/ /\ x \in rows[pnr].passengers
             /\ \A t \in Threads : ~Removing(t, pnr, x)

(* Whom a request is about to add nobody else has seen, and no two         *)
(* requests are about to remove the same passenger.                        *)
AddedUnseen ==
  \A t \in Threads, pnr \in Pnrs, x \in Added : Adding(t, pnr, x)
    => /\ \A u \in Threads : ~Sees(u, pnr, x)
       /\ rows[pnr] # None => x \notin rows[pnr].passengers

OneWriter ==
  \A t, u \in Threads, pnr \in Pnrs, x \in Added :
    /\ Adding(t, pnr, x) \/ Removing(t, pnr, x)
    /\ Adding(u, pnr, x) \/ Removing(u, pnr, x)
    => t = u

ManifestFits ==
  /\ PartyFlies
  /\ \A t \in Threads : WritesFit(t)
  /\ ManifestIsAhead
  /\ AddedUnseen
  /\ OneWriter

PInv == IInv /\ (faults = 0 => ManifestFits)

(* A thread whose request does not change.                                 *)
LEMMA OthersWrite ==
  ASSUME NEW u \in Threads, request'[u] = request[u]
  PROVE  \A pnr \in Pnrs, x \in Added :
           /\ Adding(u, pnr, x)' <=> Adding(u, pnr, x)
           /\ Removing(u, pnr, x)' <=> Removing(u, pnr, x)
           /\ Sees(u, pnr, x)' <=> Sees(u, pnr, x)
BY DEF Adding, Removing, Writing, Sees, On

(* What it is about to write stays fit, unless its new booking changes.    *)
LEMMA OthersFit ==
  ASSUME IInv, NEW u \in Threads, WritesFit(u), request'[u] = request[u],
         Making(u) /\ request[u].at = "commit" =>
           airline'[request[u].new.ref].manifest = airline[request[u].new.ref].manifest
  PROVE  WritesFit(u)'
BY DEF WritesFit, Making

(* A step that changes no manifest and no row, of a thread that writes     *)
(* nobody before or after and sees nobody new.                             *)
NothingWritten(t) ==
  \A pnr \in Pnrs, x \in Added : ~Adding(t, pnr, x) /\ ~Removing(t, pnr, x)

SeesNobodyNew(t) ==
  \A pnr \in Pnrs, x \in Added : Sees(t, pnr, x)' =>
    Sees(t, pnr, x) \/ (rows[pnr] # None /\ x \in rows[pnr].passengers)

ManifestsStand ==
  \A ref \in Refs :
    /\ airline[ref] # None =>
         airline'[ref] # None /\ airline'[ref].manifest = airline[ref].manifest
    /\ airline[ref] = None /\ airline'[ref] # None => airline'[ref].manifest = Party

LEMMA PassengersStand ==
  ASSUME IInv, ManifestFits, NEW t \in Threads, UNCHANGED rows, ManifestsStand,
         \A u \in Threads \ {t} : request'[u] = request[u],
         WritesFit(t)', NothingWritten(t), NothingWritten(t)', SeesNobodyNew(t)
  PROVE  ManifestFits'
<1>1. \A u \in Threads, pnr \in Pnrs, x \in Added :
        /\ Adding(u, pnr, x)' <=> Adding(u, pnr, x)
        /\ Removing(u, pnr, x)' <=> Removing(u, pnr, x)
        /\ Sees(u, pnr, x)' =>
             Sees(u, pnr, x) \/ (rows[pnr] # None /\ x \in rows[pnr].passengers)
  <2> SUFFICES ASSUME NEW u \in Threads, NEW pnr \in Pnrs, NEW x \in Added
               PROVE  /\ Adding(u, pnr, x)' <=> Adding(u, pnr, x)
                      /\ Removing(u, pnr, x)' <=> Removing(u, pnr, x)
                      /\ Sees(u, pnr, x)' =>
                           \/ Sees(u, pnr, x)
                           \/ rows[pnr] # None /\ x \in rows[pnr].passengers
    OBVIOUS
  <2>1. CASE u = t
    BY <2>1 DEF NothingWritten, SeesNobodyNew
  <2>2. CASE u # t
    BY <2>2, OthersWrite
  <2> QED BY <2>1, <2>2
<1>2. PartyFlies'
  BY DEF ManifestFits, PartyFlies, ManifestsStand
<1>3. ASSUME NEW u \in Threads
      PROVE  WritesFit(u)'
  <2>1. CASE u = t
    BY <2>1
  <2>2. CASE u # t
    <3>1. ASSUME Making(u), request[u].at = "commit"
          PROVE  airline'[request[u].new.ref].manifest = airline[request[u].new.ref].manifest
      <4>1. request[u].new \in Rows /\ request[u].old = None
        BY <3>1 DEF IInv, Threaded, Staged, Making
      <4>2. request[u].new.ref \in Refs /\ airline[request[u].new.ref] # None
        BY <3>1, <4>1 DEF IInv, Threaded, HoldsNew, Rows
      <4> QED BY <4>2 DEF ManifestsStand
    <3> QED BY <2>2, <3>1, OthersFit DEF ManifestFits
  <2> QED BY <2>1, <2>2
<1>4. ManifestIsAhead'
  <2> SUFFICES ASSUME NEW pnr \in Pnrs, rows[pnr] # None, NEW x \in Added
               PROVE  x \in airline'[rows[pnr].ref].manifest
                        <=> \/ \E u \in Threads : Adding(u, pnr, x)'
                            \/ /\ x \in rows[pnr].passengers
                               /\ \A u \in Threads : ~Removing(u, pnr, x)'
    BY DEF ManifestIsAhead, BookingOf
  <2>1. airline'[rows[pnr].ref].manifest = BookingOf(pnr).manifest
    BY Booked DEF ManifestsStand, BookingOf
  <2> QED BY <1>1, <2>1 DEF ManifestFits, ManifestIsAhead
<1>5. AddedUnseen'
  <2> SUFFICES ASSUME NEW u \in Threads, NEW pnr \in Pnrs, NEW x \in Added,
                      Adding(u, pnr, x)'
               PROVE  /\ \A v \in Threads : ~Sees(v, pnr, x)'
                      /\ rows'[pnr] # None => x \notin rows'[pnr].passengers
    BY DEF AddedUnseen
  <2>1. Adding(u, pnr, x)
    BY <1>1
  <2> QED BY <1>1, <2>1 DEF ManifestFits, AddedUnseen
<1>6. OneWriter'
  <2> SUFFICES ASSUME NEW u \in Threads, NEW v \in Threads, NEW pnr \in Pnrs, NEW x \in Added,
                      Adding(u, pnr, x)' \/ Removing(u, pnr, x)',
                      Adding(v, pnr, x)' \/ Removing(v, pnr, x)'
               PROVE  u = v
    BY DEF OneWriter
  <2> QED BY <1>1 DEF ManifestFits, OneWriter
<1> QED BY <1>2, <1>3, <1>4, <1>5, <1>6 DEF ManifestFits

(* A thread at another stage than the commit writes nobody.                *)
LEMMA NotAtCommit ==
  ASSUME NEW t \in Threads, request[t].at # "commit"
  PROVE  NothingWritten(t)
BY DEF NothingWritten, Adding, Removing, Writing

LEMMA GoneQuiet ==
  ASSUME NEW t \in Threads, request'[t] = Idle
  PROVE  WritesFit(t)' /\ NothingWritten(t)' /\ SeesNobodyNew(t)
BY DEF WritesFit, NothingWritten, Adding, Removing, Writing, SeesNobodyNew, Sees, On, Idle

(* A thread that keeps a booking it had, or has just read it.              *)
LEMMA HeldQuiet ==
  ASSUME NEW t \in Threads, NEW pnr \in Pnrs, NEW row,
         request'[t] = Held(pnr, row),
         \A x \in Added : x \in row.passengers =>
           Sees(t, pnr, x) \/ (rows[pnr] # None /\ x \in rows[pnr].passengers)
  PROVE  WritesFit(t)' /\ NothingWritten(t)' /\ SeesNobodyNew(t)
<1>1. /\ request'[t].at = "held" /\ request'[t].pnr = pnr /\ request'[t].old = row
  BY DEF Held
<1>2. WritesFit(t)' /\ NothingWritten(t)'
  BY <1>1 DEF WritesFit, NothingWritten, Adding, Removing, Writing
<1>3. SeesNobodyNew(t)
  BY <1>1 DEF SeesNobodyNew, Sees, On
<1> QED BY <1>2, <1>3

(* Whoever is in the row a request begins with was seen, or is in the row. *)
LEMMA LoadedSeen ==
  ASSUME NEW t \in Threads, NEW pnr \in Pnrs, Loaded(t, pnr) # None
  PROVE  \A x \in Added : x \in Loaded(t, pnr).passengers =>
           Sees(t, pnr, x) \/ (rows[pnr] # None /\ x \in rows[pnr].passengers)
BY DEF Loaded, Sees

(* A request begins.                                                       *)
LEMMA GotoQuiet ==
  ASSUME IInv, ManifestFits, NEW t \in Threads, NEW pnr \in Pnrs, Load(t, pnr),
         NEW stage, NEW new, NEW key, NEW arg, Goto(t, stage, pnr, new, key, arg),
         UNCHANGED <<rows, airline>>,
         stage = "remove_call" => arg \in Added /\ arg \in Loaded(t, pnr).passengers,
         stage = "commit" =>
           /\ \A x \in Added : x \in new.passengers <=> x \in Loaded(t, pnr).passengers
           /\ \/ new.passengers = Loaded(t, pnr).passengers
              \/ new.passports \subseteq Loaded(t, pnr).passports
  PROVE  ManifestFits'
<1>1. ~InFlight(t) /\ Loaded(t, pnr) # None
  BY DEF Load
<1>2. PICK row \in Rows : row = Loaded(t, pnr) /\ row # None
  BY <1>1, LoadedRow
<1> DEFINE r == [at |-> stage, pnr |-> pnr, old |-> row, new |-> new, key |-> key, arg |-> arg]
<1>3. request' = [request EXCEPT ![t] = r]
  BY <1>2 DEF Goto
<1>4. /\ r.at = stage /\ r.pnr = pnr /\ r.old = row /\ r.new = new /\ r.arg = arg
  OBVIOUS
<1> HIDE DEF r
<1>5. request'[t] = r /\ \A u \in Threads \ {t} : request'[u] = request[u]
  BY <1>3 DEF IInv, TypeOK
<1>6. NothingWritten(t)
  BY <1>1, NotAtCommit DEF InFlight
<1>7. WritesFit(t)'
  BY <1>2, <1>4, <1>5 DEF WritesFit
<1>8. NothingWritten(t)'
  BY <1>2, <1>4, <1>5 DEF NothingWritten, Adding, Removing, Writing
<1>9. SeesNobodyNew(t)
  <2>1. \A x \in Added : x \in row.passengers =>
          Sees(t, pnr, x) \/ (rows[pnr] # None /\ x \in rows[pnr].passengers)
    BY <1>1, <1>2, LoadedSeen
  <2> QED BY <1>4, <1>5, <2>1 DEF SeesNobodyNew, Sees, On
<1>10. ManifestsStand
  BY DEF ManifestsStand
<1> QED BY <1>5, <1>6, <1>7, <1>8, <1>9, <1>10, PassengersStand

LEMMA ReadsFit ==
  ASSUME IInv, ManifestFits, NEW t \in Threads, Receive(t)
  PROVE  ManifestFits'
<1>1. ASSUME NEW key \in CreateKeys, CreateBegin(t, key)
      PROVE  ManifestFits'
  <2> DEFINE r == [at |-> "create_call", pnr |-> None, old |-> None, new |-> None,
                   key |-> key, arg |-> None]
  <2>1. request' = [request EXCEPT ![t] = r] /\ request[t] = Idle
        /\ UNCHANGED <<rows, airline>>
    BY <1>1 DEF CreateBegin
  <2>2. r.at = "create_call" /\ r.old = None
    OBVIOUS
  <2> HIDE DEF r
  <2>3. request'[t] = r /\ \A u \in Threads \ {t} : request'[u] = request[u]
    BY <2>1 DEF IInv, TypeOK
  <2>4. NothingWritten(t)
    BY <2>1, NotAtCommit DEF Idle
  <2>5. WritesFit(t)' /\ NothingWritten(t)' /\ SeesNobodyNew(t)
    BY <2>2, <2>3 DEF WritesFit, NothingWritten, Adding, Removing, Writing,
                      SeesNobodyNew, Sees
  <2>6. ManifestsStand
    BY <2>1 DEF ManifestsStand
  <2> QED BY <2>1, <2>3, <2>4, <2>5, <2>6, PassengersStand
<1>2. ASSUME NEW pnr \in Pnrs, LookUp(t, pnr)
      PROVE  ManifestFits'
  <2>1. /\ ~InFlight(t) /\ rows[pnr] # None
        /\ request' = [request EXCEPT ![t] = Held(pnr, Loaded(t, pnr))]
        /\ UNCHANGED <<rows, airline>>
    BY <1>2 DEF LookUp
  <2>2. PICK row \in Rows : row = Loaded(t, pnr) /\ row # None
    BY <2>1, LoadedRow, NoneAssumption DEF NoneAssumption
  <2>3. request'[t] = Held(pnr, row) /\ \A u \in Threads \ {t} : request'[u] = request[u]
    BY <2>1, <2>2 DEF IInv, TypeOK
  <2>4. \A x \in Added : x \in row.passengers =>
          Sees(t, pnr, x) \/ (rows[pnr] # None /\ x \in rows[pnr].passengers)
    BY <2>2, LoadedSeen
  <2>5. WritesFit(t)' /\ NothingWritten(t)' /\ SeesNobodyNew(t)
    BY <2>3, <2>4, HeldQuiet
  <2>6. NothingWritten(t)
    BY <2>1, NotAtCommit DEF InFlight
  <2>7. ManifestsStand
    BY <2>1 DEF ManifestsStand
  <2> QED BY <2>1, <2>3, <2>5, <2>6, <2>7, PassengersStand
<1>3. ASSUME NEW pnr \in Pnrs, NEW caller \in Callers, NEW change \in Changes,
             Modify(t, pnr, caller, change)
      PROVE  ManifestFits'
  <2>1. /\ Load(t, pnr) /\ UNCHANGED <<rows, airline>>
        /\ Goto(t, "modify_call", pnr, None, <<caller, pnr, change>>, change)
    BY <1>3 DEF Modify
  <2> QED BY <2>1, GotoQuiet
<1>4. ASSUME NEW pnr \in Pnrs, NEW caller \in Callers, Cancel(t, pnr, caller)
      PROVE  ManifestFits'
  <2>1. /\ Load(t, pnr) /\ UNCHANGED <<rows, airline>>
        /\ Goto(t, "cancel_call", pnr, None, <<caller, pnr>>, None)
    BY <1>4 DEF Cancel
  <2> QED BY <2>1, GotoQuiet
<1>5. ASSUME NEW pnr \in Pnrs, AddPassenger(t, pnr)
      PROVE  ManifestFits'
  <2>1. /\ Load(t, pnr) /\ UNCHANGED <<rows, airline>>
        /\ Goto(t, "add_call", pnr, None, None, None)
    BY <1>5 DEF AddPassenger
  <2> QED BY <2>1, GotoQuiet
<1>6. ASSUME NEW pnr \in Pnrs, NEW passenger \in People, RemovePassenger(t, pnr, passenger)
      PROVE  ManifestFits'
  <2> DEFINE row == Loaded(t, pnr)
             without == [row EXCEPT !.passengers = @ \ {passenger},
                                    !.passports = @ \ {passenger}]
  <2>1. Load(t, pnr) /\ UNCHANGED <<rows, airline>> /\ passenger \in row.passengers
    BY <1>6 DEF RemovePassenger
  <2>2. row \in Rows
    BY <2>1, LoadedRow DEF Load
  <2>3. CASE passenger \in Added
    <3>1. Goto(t, "remove_call", pnr, None, None, passenger)
      BY <1>6, <2>3 DEF RemovePassenger
    <3> QED BY <2>1, <2>3, <3>1, GotoQuiet
  <2>4. CASE passenger \notin Added
    <3>1. Goto(t, "commit", pnr, without, None, passenger)
      BY <1>6, <2>4 DEF RemovePassenger
    <3>2. /\ without.passengers = row.passengers \ {passenger}
          /\ without.passports = row.passports \ {passenger}
      BY <2>2 DEF Rows
    <3>3. /\ \A x \in Added : x \in without.passengers <=> x \in row.passengers
          /\ without.passports \subseteq row.passports
      BY <2>4, <3>2
    <3> HIDE DEF without
    <3> QED BY <2>1, <3>1, <3>3, GotoQuiet
  <2> QED BY <2>3, <2>4
<1>7. ASSUME NEW pnr \in Pnrs, NEW passenger \in People, AddPassport(t, pnr, passenger)
      PROVE  ManifestFits'
  <2> DEFINE row == Loaded(t, pnr)
             with == [row EXCEPT !.passports = @ \cup {passenger}]
  <2>1. Load(t, pnr) /\ UNCHANGED <<rows, airline>>
        /\ Goto(t, "commit", pnr, with, None, passenger)
    BY <1>7 DEF AddPassport
  <2>2. row \in Rows
    BY <2>1, LoadedRow DEF Load
  <2>3. with.passengers = row.passengers
    BY <2>2 DEF Rows
  <2> HIDE DEF with
  <2> QED BY <2>1, <2>3, GotoQuiet
<1> QED BY <1>1, <1>2, <1>3, <1>4, <1>5, <1>6, <1>7 DEF Receive

-----------------------------------------------------------------------------
(* The airline's answers that change no manifest.                          *)

(* A request that fails before it is to write somebody.                    *)
LEMMA FailQuiet ==
  ASSUME IInv, ManifestFits, NEW t \in Threads, Fail(t), NothingWritten(t),
         UNCHANGED <<rows, airline>>
  PROVE  ManifestFits'
<1>1. request'[t] = Idle /\ \A u \in Threads \ {t} : request'[u] = request[u]
  BY DEF Fail, IInv, TypeOK
<1>2. WritesFit(t)' /\ NothingWritten(t)' /\ SeesNobodyNew(t)
  BY <1>1, GoneQuiet
<1>3. ManifestsStand
  BY DEF ManifestsStand
<1> QED BY <1>1, <1>2, <1>3, PassengersStand

LEMMA Answering ==
  ASSUME IInv, NEW t \in Threads, InFlight(t), NEW new,
         request' = [request EXCEPT ![t].at = "commit", ![t].new = new]
  PROVE  /\ request'[t].at = "commit" /\ request'[t].new = new
         /\ request'[t].old = request[t].old /\ request'[t].pnr = request[t].pnr
         /\ request'[t].arg = request[t].arg
         /\ request[t] # Idle
         /\ \A u \in Threads \ {t} : request'[u] = request[u]
<1>1. request[t] \in Requests /\ request[t] # Idle
  BY RequestKind DEF IInv
<1> DEFINE r == [request[t] EXCEPT !.at = "commit", !.new = new]
<1>2. /\ r.at = "commit" /\ r.new = new /\ r.old = request[t].old
      /\ r.pnr = request[t].pnr /\ r.arg = request[t].arg
  BY <1>1 DEF Requests
<1>3. request' = [request EXCEPT ![t] = r]
  BY <1>1 DEF IInv, TypeOK, Requests
<1> HIDE DEF r
<1>4. request'[t] = r /\ \A u \in Threads \ {t} : request'[u] = request[u]
  BY <1>3 DEF IInv, TypeOK
<1> QED BY <1>1, <1>2, <1>4

(* A row whose passengers the airline's answer leaves as they were.        *)
LEMMA AnswerQuiet ==
  ASSUME IInv, ManifestFits, NEW t \in Threads, request[t].at \in Calls, NEW new,
         request' = [request EXCEPT ![t].at = "commit", ![t].new = new],
         new.passengers = request[t].old.passengers,
         UNCHANGED rows, ManifestsStand
  PROVE  ManifestFits'
<1>1. InFlight(t) /\ request[t].old # None /\ request[t] # Idle
  BY Asking
<1>2. /\ request'[t].at = "commit" /\ request'[t].new = new
      /\ request'[t].old = request[t].old /\ request'[t].pnr = request[t].pnr
      /\ \A u \in Threads \ {t} : request'[u] = request[u]
  BY <1>1, Answering
<1>3. NothingWritten(t)
  BY NotAtCommit DEF Calls
<1>4. WritesFit(t)' /\ NothingWritten(t)'
  BY <1>1, <1>2 DEF WritesFit, NothingWritten, Adding, Removing, Writing
<1>5. SeesNobodyNew(t)
  BY <1>1, <1>2 DEF SeesNobodyNew, Sees, On
<1> QED BY <1>2, <1>3, <1>4, <1>5, PassengersStand

LEMMA UpdatedManifest ==
  ASSUME NEW booking \in AirlineBookings, NEW change
  PROVE  Updated(booking, change).manifest = booking.manifest
<1>1. CASE change = "contact"
  BY <1>1 DEF Updated, AirlineBookings
<1>2. CASE change # "contact"
  BY <1>2 DEF Updated, AirlineBookings
<1> QED BY <1>1, <1>2

LEMMA ModifyCallFits ==
  ASSUME IInv, ManifestFits, NEW t \in Threads, ModifyCall(t)
  PROVE  ManifestFits'
<1> DEFINE r == request[t]
<1>1. r.at \in Calls /\ r.at = "modify_call" /\ UNCHANGED rows
  BY DEF ModifyCall, Calls
<1>2. /\ r.old \in Rows /\ r.old.ref \in Refs /\ airline[r.old.ref] # None
      /\ airline[r.old.ref] \in AirlineBookings
      /\ r.arg \in Changes
  BY <1>1, Asking DEF IInv, Threaded, Staged
<1>3. \A answer : Modified(r.old, r.arg, answer).passengers = r.old.passengers
  BY <1>2 DEF Modified, Rows
<1>4. CASE UNCHANGED airline /\ \E answer :
             request' = [request EXCEPT ![t].at = "commit",
                                        ![t].new = Modified(r.old, r.arg, answer)]
  <2>1. ManifestsStand
    BY <1>4 DEF ManifestsStand
  <2> QED BY <1>1, <1>3, <1>4, <2>1, AnswerQuiet
<1>5. CASE Fail(t) /\ UNCHANGED airline
  <2>1. NothingWritten(t)
    BY <1>1, NotAtCommit
  <2> QED BY <1>1, <1>5, <2>1, FailQuiet
<1>6. CASE /\ airline' = [airline EXCEPT ![r.old.ref] = Updated(airline[r.old.ref], r.arg)]
           /\ request' = [request EXCEPT ![t].at = "commit",
                ![t].new = Modified(r.old, r.arg, Updated(airline[r.old.ref], r.arg))]
  <2>1. /\ Updated(airline[r.old.ref], r.arg) \in AirlineBookings
        /\ Updated(airline[r.old.ref], r.arg).manifest = airline[r.old.ref].manifest
    BY <1>2, UpdatedType, UpdatedManifest
  <2>2. Updated(airline[r.old.ref], r.arg) # None
    BY <2>1, NoneAssumption DEF NoneAssumption
  <2>3. ManifestsStand
    BY <1>2, <1>6, <2>1, <2>2 DEF ManifestsStand, IInv, TypeOK
  <2> QED BY <1>1, <1>3, <1>6, <2>3, AnswerQuiet
<1> QED BY <1>4, <1>5, <1>6 DEF ModifyCall

LEMMA CancelCallFits ==
  ASSUME IInv, ManifestFits, NEW t \in Threads, CancelCall(t)
  PROVE  ManifestFits'
<1> DEFINE r == request[t]
           new == [r.old EXCEPT !.status = "CANCELLED"]
           booking == [airline[r.old.ref] EXCEPT !.status = "CANCELLED"]
<1>1. r.at \in Calls /\ UNCHANGED rows
  BY DEF CancelCall, Calls
<1>2. /\ r.old \in Rows /\ r.old.ref \in Refs /\ airline[r.old.ref] # None
      /\ airline[r.old.ref] \in AirlineBookings
  BY <1>1, Asking
<1>3. /\ airline' = [airline EXCEPT ![r.old.ref] = booking]
      /\ request' = [request EXCEPT ![t].at = "commit", ![t].new = new]
  BY DEF CancelCall
<1>4. new.passengers = r.old.passengers
  BY <1>2 DEF Rows
<1>5. booking \in AirlineBookings /\ booking.manifest = airline[r.old.ref].manifest
  BY <1>2 DEF AirlineBookings, Statuses
<1> HIDE DEF booking, new
<1>6. booking # None
  BY <1>5, NoneAssumption DEF NoneAssumption
<1>7. ManifestsStand
  BY <1>2, <1>3, <1>5, <1>6 DEF ManifestsStand, IInv, TypeOK
<1> QED BY <1>1, <1>3, <1>4, <1>7, AnswerQuiet

LEMMA CreateCallFits ==
  ASSUME IInv, ManifestFits, NEW t \in Threads, CreateCall(t)
  PROVE  ManifestFits'
<1> DEFINE r == request[t]
           booking == [key |-> r.key, status |-> "CONFIRMED", flight |-> Quote.flight,
                       price |-> QuoteTotal(FlightPrice[Quote.flight], Quote.adults,
                                            Quote.children, 0),
                       contact |-> "given", manifest |-> Party]
           fresh == CHOOSE ref \in Refs : airline[ref] = None
<1>1. /\ r.at = "create_call" /\ InFlight(t) /\ UNCHANGED rows
      /\ r.old = None
  BY DEF CreateCall, InFlight, IInv, Threaded, Staged
<1>2. NothingWritten(t)
  BY <1>1, NotAtCommit
<1>3. ASSUME NEW ref, NEW answer,
             request' = [request EXCEPT ![t].at = "commit", ![t].new = RowOf(ref, answer)],
             airline'[ref].manifest = answer.manifest, ManifestsStand
      PROVE  ManifestFits'
  <2>0. PICK new : new = RowOf(ref, answer)
    OBVIOUS
  <2>1. /\ request'[t].at = "commit" /\ request'[t].new = new
        /\ request'[t].old = request[t].old
        /\ \A u \in Threads \ {t} : request'[u] = request[u]
    <3>1. request' = [request EXCEPT ![t].at = "commit", ![t].new = new]
      BY <1>3, <2>0
    <3>2. InFlight(t)
      BY <1>1
    <3>3. /\ request'[t].at = "commit" /\ request'[t].new = new
          /\ request'[t].old = request[t].old /\ request'[t].pnr = request[t].pnr
          /\ request'[t].arg = request[t].arg
          /\ request[t] # Idle
          /\ \A u \in Threads \ {t} : request'[u] = request[u]
      BY <3>1, <3>2, Answering
    <3> QED BY <3>3
  <2>2. new.ref = ref /\ new.passengers = answer.manifest
    BY <2>0 DEF RowOf
  <2>3. WritesFit(t)'
    BY <1>1, <1>3, <2>1, <2>2 DEF WritesFit
  <2>4. NothingWritten(t)' /\ SeesNobodyNew(t)
    BY <1>1, <2>1 DEF NothingWritten, Adding, Removing, Writing, SeesNobodyNew, Sees
  <2> QED BY <1>1, <1>2, <1>3, <2>1, <2>3, <2>4, PassengersStand
<1>4. CASE /\ UNCHANGED airline
           /\ request' = [request EXCEPT ![t].at = "commit",
                ![t].new = RowOf(seen[r.key], airline[seen[r.key]])]
  <2>1. ManifestsStand
    BY <1>4 DEF ManifestsStand
  <2> QED BY <1>3, <1>4, <2>1
<1>5. CASE /\ \E ref \in Refs : airline[ref] = None
           /\ airline' = [airline EXCEPT ![fresh] = booking]
           /\ request' = [request EXCEPT ![t].at = "commit",
                ![t].new = RowOf(fresh, booking)]
  <2>1. fresh \in Refs /\ airline[fresh] = None
    BY <1>5
  <2>2. booking.manifest = Party
    OBVIOUS
  <2> HIDE DEF fresh, booking
  <2>3. airline'[fresh] = booking /\ \A ref \in Refs \ {fresh} : airline'[ref] = airline[ref]
    BY <1>5, <2>1 DEF IInv, TypeOK
  <2>4. ManifestsStand
    BY <2>1, <2>2, <2>3 DEF ManifestsStand
  <2> QED BY <1>3, <1>5, <2>3, <2>4
<1>6. CASE Fail(t) /\ UNCHANGED airline
  BY <1>1, <1>2, <1>6, FailQuiet
<1> QED BY <1>4, <1>5, <1>6 DEF CreateCall

-----------------------------------------------------------------------------
(* The airline's answers that change a manifest.                           *)

(* The one row that is for the booking of a request, and who else is not.  *)
LEMMA TheBooking ==
  ASSUME IInv, NEW t \in Threads, request[t].at \in Calls
  PROVE  /\ request[t].pnr \in Pnrs /\ rows[request[t].pnr] # None
         /\ rows[request[t].pnr].ref = request[t].old.ref
         /\ \A pnr \in Pnrs : rows[pnr] # None /\ pnr # request[t].pnr
              => rows[pnr].ref \in Refs /\ rows[pnr].ref # request[t].old.ref
         /\ \A u \in Threads : Making(u) /\ request[u].at = "commit"
              => request[u].new.ref \in Refs /\ request[u].new.ref # request[t].old.ref
<1>1. /\ request[t].pnr \in Pnrs /\ request[t].old # None /\ request[t] # Idle
  BY Asking
<1>2. rows[request[t].pnr] # None /\ rows[request[t].pnr].ref = request[t].old.ref
  BY <1>1 DEF IInv, Threaded, HoldsOld
<1>3. \A pnr \in Pnrs : rows[pnr] # None /\ pnr # request[t].pnr
        => rows[pnr].ref \in Refs /\ rows[pnr].ref # request[t].old.ref
  BY <1>1, <1>2, Booked DEF IInv, OneRowEach
<1>4. ASSUME NEW u \in Threads, Making(u), request[u].at = "commit"
      PROVE  request[u].new.ref \in Refs /\ request[u].new.ref # request[t].old.ref
  <2>1. request[u].old = None /\ request[u].new \in Rows
    BY <1>4 DEF Making, IInv, Threaded, Staged
  <2>2. request[u].new.ref \in Refs /\ airline[request[u].new.ref].key = request[u].key
    BY <1>4, <2>1 DEF IInv, Threaded, HoldsNew, Rows
  <2>3. airline[request[t].old.ref].key # request[u].key
    BY <1>1, <1>2, <1>4 DEF IInv, KeysAreHeld
  <2> QED BY <2>2, <2>3
<1> QED BY <1>1, <1>2, <1>3, <1>4

(* The airline adds x to a manifest, or removes it, and the request goes   *)
(* on to write the same.                                                   *)
Recorded(t, x, booking, new) ==
  LET r == request[t]
  IN  /\ r.at \in Calls /\ x \in Added
      /\ airline' = [airline EXCEPT ![r.old.ref] = booking] /\ booking # None
      /\ request' = [request EXCEPT ![t].at = "commit", ![t].new = new]
      /\ new.passports \subseteq r.old.passports
      /\ UNCHANGED rows
      /\ \A y \in People \ {x} :
           /\ y \in booking.manifest <=> y \in airline[r.old.ref].manifest
           /\ y \in new.passengers <=> y \in r.old.passengers
      /\ \A u \in Threads : ~Adding(u, r.pnr, x) /\ ~Removing(u, r.pnr, x)
      /\ \/ /\ x \in booking.manifest /\ x \in new.passengers
            /\ x \notin rows[r.pnr].passengers
            /\ \A u \in Threads : ~Sees(u, r.pnr, x)
         \/ /\ x \notin booking.manifest /\ x \notin new.passengers
            /\ x \in r.old.passengers

LEMMA RecordedFits ==
  ASSUME IInv, ManifestFits, NEW t \in Threads, NEW x, NEW booking, NEW new,
         Recorded(t, x, booking, new)
  PROVE  ManifestFits'
<1>0. PICK pnr \in Pnrs, old \in Rows, ref \in Refs :
        pnr = request[t].pnr /\ old = request[t].old /\ ref = old.ref
  BY Asking DEF Recorded
<1>1. /\ request[t].at \in Calls /\ x \in Added /\ x \notin Party
      /\ airline' = [airline EXCEPT ![ref] = booking] /\ booking # None
      /\ request' = [request EXCEPT ![t].at = "commit", ![t].new = new]
      /\ new.passports \subseteq old.passports
      /\ UNCHANGED rows
  BY <1>0, BookingsAssumption DEF Recorded, BookingsAssumption
<1>2. \A y \in People \ {x} :
        /\ y \in booking.manifest <=> y \in airline[ref].manifest
        /\ y \in new.passengers <=> y \in old.passengers
  BY <1>0 DEF Recorded
<1>3. \A u \in Threads : ~Adding(u, pnr, x) /\ ~Removing(u, pnr, x)
  BY <1>0 DEF Recorded
<1>4. \/ /\ x \in booking.manifest /\ x \in new.passengers
         /\ x \notin rows[pnr].passengers
         /\ \A u \in Threads : ~Sees(u, pnr, x)
      \/ /\ x \notin booking.manifest /\ x \notin new.passengers
         /\ x \in old.passengers
  BY <1>0 DEF Recorded
<1>5. /\ InFlight(t) /\ request[t] # Idle /\ old # None /\ ref \in Refs
      /\ airline[ref] # None /\ request[t].at # "commit"
  BY <1>0, <1>1, Asking DEF Calls
<1>6. /\ request'[t].at = "commit" /\ request'[t].new = new
      /\ request'[t].old = old /\ request'[t].pnr = pnr
      /\ \A u \in Threads \ {t} : request'[u] = request[u]
  BY <1>0, <1>1, <1>5, Answering
<1>7. /\ airline'[ref] = booking
      /\ \A other \in Refs \ {ref} : airline'[other] = airline[other]
  BY <1>1, <1>5 DEF IInv, TypeOK
<1>8. /\ pnr \in Pnrs /\ rows[pnr] # None /\ rows[pnr].ref = ref
      /\ \A p \in Pnrs : rows[p] # None /\ p # pnr => rows[p].ref \in Refs /\ rows[p].ref # ref
      /\ \A u \in Threads : Making(u) /\ request[u].at = "commit"
           => request[u].new.ref \in Refs /\ request[u].new.ref # ref
  BY <1>0, <1>1, TheBooking
<1>9. x \in People /\ Party \subseteq People /\ Added \subseteq People
  BY <1>1 DEF People
<1>10. Sees(t, pnr, x) <=> x \in old.passengers
  BY <1>0, <1>5 DEF Sees, On
<1>11. \A u \in Threads, p \in Pnrs, y \in Added :
         /\ Sees(u, p, y)' <=> Sees(u, p, y)
         /\ p # pnr \/ y # x => /\ Adding(u, p, y)' <=> Adding(u, p, y)
                                /\ Removing(u, p, y)' <=> Removing(u, p, y)
  <2> SUFFICES ASSUME NEW u \in Threads, NEW p \in Pnrs, NEW y \in Added
               PROVE  /\ Sees(u, p, y)' <=> Sees(u, p, y)
                      /\ p # pnr \/ y # x => /\ Adding(u, p, y)' <=> Adding(u, p, y)
                                             /\ Removing(u, p, y)' <=> Removing(u, p, y)
    OBVIOUS
  <2>1. CASE u # t
    BY <1>6, <2>1, OthersWrite
  <2>2. CASE u = t
    <3>1. Sees(t, p, y)' <=> Sees(t, p, y)
      BY <1>0, <1>5, <1>6 DEF Sees, On, Idle
    <3>2. ~Adding(t, p, y) /\ ~Removing(t, p, y)
      BY <1>5 DEF Adding, Removing, Writing
    <3>3. p # pnr \/ y # x => ~Adding(t, p, y)' /\ ~Removing(t, p, y)'
      BY <1>2, <1>6, <1>9 DEF Adding, Removing, Writing
    <3> QED BY <2>2, <3>1, <3>2, <3>3
  <2> QED BY <2>1, <2>2
<1>12. \A u \in Threads \ {t} : ~Adding(u, pnr, x)' /\ ~Removing(u, pnr, x)'
  BY <1>1, <1>3, <1>6, <1>8, OthersWrite
<1>13. /\ Adding(t, pnr, x)' <=> x \in new.passengers /\ x \notin old.passengers
       /\ Removing(t, pnr, x)' <=> x \notin new.passengers /\ x \in old.passengers
  BY <1>5, <1>6 DEF Adding, Removing, Writing
<1>14. PartyFlies'
  <2> SUFFICES ASSUME NEW other \in Refs, airline'[other] # None
               PROVE  Party \subseteq airline'[other].manifest
    BY DEF PartyFlies
  <2>1. CASE other = ref
    BY <1>1, <1>2, <1>5, <1>7, <1>9, <2>1 DEF ManifestFits, PartyFlies
  <2>2. CASE other # ref
    BY <1>7, <2>2 DEF ManifestFits, PartyFlies
  <2> QED BY <2>1, <2>2
<1>15. ASSUME NEW u \in Threads
       PROVE  WritesFit(u)'
  <2>1. CASE u = t
    BY <1>1, <1>5, <1>6, <2>1 DEF WritesFit
  <2>2. CASE u # t
    <3>1. Making(u) /\ request[u].at = "commit" =>
            airline'[request[u].new.ref].manifest = airline[request[u].new.ref].manifest
      BY <1>7, <1>8
    <3> QED BY <1>6, <2>2, <3>1, OthersFit DEF ManifestFits
  <2> QED BY <2>1, <2>2
<1>16. ManifestIsAhead'
  <2> SUFFICES ASSUME NEW p \in Pnrs, rows[p] # None, NEW y \in Added
               PROVE  y \in airline'[rows[p].ref].manifest
                        <=> \/ \E u \in Threads : Adding(u, p, y)'
                            \/ /\ y \in rows[p].passengers
                               /\ \A u \in Threads : ~Removing(u, p, y)'
    BY <1>1 DEF ManifestIsAhead, BookingOf
  <2>1. CASE p = pnr /\ y = x
    <3>1. airline'[rows[p].ref] = booking
      BY <1>7, <1>8, <2>1
    <3>2. CASE /\ x \in booking.manifest /\ x \in new.passengers
               /\ \A u \in Threads : ~Sees(u, pnr, x)
      <4>1. Adding(t, pnr, x)'
        BY <1>10, <1>13, <3>2
      <4> QED BY <2>1, <3>1, <3>2, <4>1
    <3>3. CASE x \notin booking.manifest /\ x \notin new.passengers /\ x \in old.passengers
      <4>1. Removing(t, pnr, x)' /\ ~Adding(t, pnr, x)'
        BY <1>13, <3>3
      <4> QED BY <1>12, <2>1, <3>1, <3>3, <4>1
    <3> QED BY <1>4, <3>2, <3>3
  <2>2. CASE p # pnr \/ y # x
    <3>1. y \in airline'[rows[p].ref].manifest <=> y \in BookingOf(p).manifest
      BY <1>2, <1>7, <1>8, <1>9, <2>2 DEF BookingOf
    <3>2. \A u \in Threads : /\ Adding(u, p, y)' <=> Adding(u, p, y)
                             /\ Removing(u, p, y)' <=> Removing(u, p, y)
      BY <1>11, <2>2
    <3> QED BY <3>1, <3>2 DEF ManifestFits, ManifestIsAhead
  <2> QED BY <2>1, <2>2
<1>17. AddedUnseen'
  <2> SUFFICES ASSUME NEW u \in Threads, NEW p \in Pnrs, NEW y \in Added,
                      Adding(u, p, y)'
               PROVE  /\ \A v \in Threads : ~Sees(v, p, y)
                      /\ rows[p] # None => y \notin rows[p].passengers
    BY <1>1, <1>11 DEF AddedUnseen
  <2>1. CASE p = pnr /\ y = x
    <3>1. u = t
      BY <1>12, <2>1
    <3>2. x \in new.passengers
      BY <1>13, <2>1, <3>1
    <3> QED BY <1>4, <2>1, <3>2
  <2>2. CASE p # pnr \/ y # x
    <3>1. Adding(u, p, y)
      BY <1>11, <2>2
    <3> QED BY <3>1 DEF ManifestFits, AddedUnseen
  <2> QED BY <2>1, <2>2
<1>18. OneWriter'
  <2> SUFFICES ASSUME NEW u \in Threads, NEW v \in Threads, NEW p \in Pnrs, NEW y \in Added,
                      Adding(u, p, y)' \/ Removing(u, p, y)',
                      Adding(v, p, y)' \/ Removing(v, p, y)'
               PROVE  u = v
    BY DEF OneWriter
  <2>1. CASE p = pnr /\ y = x
    BY <1>12, <2>1
  <2>2. CASE p # pnr \/ y # x
    BY <1>11, <2>2 DEF ManifestFits, OneWriter
  <2> QED BY <2>1, <2>2
<1> QED BY <1>14, <1>15, <1>16, <1>17, <1>18 DEF ManifestFits

LEMMA AddCallFits ==
  ASSUME IInv, ManifestFits, NEW t \in Threads, AddCall(t)
  PROVE  ManifestFits'
<1>1. request[t].at \in Calls /\ request[t].at = "add_call" /\ UNCHANGED rows
  BY DEF AddCall, Calls
<1>2. PICK old \in Rows, ref \in Refs, pnr \in Pnrs :
        old = request[t].old /\ ref = old.ref /\ pnr = request[t].pnr
  BY <1>1, Asking
<1>3. airline[ref] \in AirlineBookings /\ airline[ref] # None /\ rows[pnr] # None
      /\ rows[pnr].ref = ref
  BY <1>1, <1>2, Asking, TheBooking
<1>4. PICK x \in Added : x = (CHOOSE y \in Added : ~InUse(y)) /\ ~InUse(x)
  <2>1. \E y \in Added : ~InUse(y)
    BY DEF AddCall
  <2> QED BY <2>1
<1>5. airline[ref].manifest \cup {x} \in SUBSET People
  BY <1>3 DEF AirlineBookings, People
<1>6. PICK booking \in AirlineBookings :
        booking = WithManifest(airline[ref], airline[ref].manifest \cup {x})
  BY <1>3, <1>5, WithManifestType
<1>7. booking.manifest = airline[ref].manifest \cup {x} /\ booking # None
  BY <1>3, <1>6, NoneAssumption DEF NoneAssumption, WithManifest, AirlineBookings
<1>8. PICK new \in Rows :
        new = [old EXCEPT !.passengers = @ \cup {x}, !.price = booking.price]
  BY DEF Rows, AirlineBookings, People
<1>9. new.passengers = old.passengers \cup {x} /\ new.passports = old.passports
  BY <1>8 DEF Rows
<1>10. airline' = [airline EXCEPT ![ref] = booking]
  BY <1>2, <1>4, <1>6 DEF AddCall
<1>11. request' = [request EXCEPT ![t].at = "commit", ![t].new = new]
  BY <1>2, <1>4, <1>6, <1>8 DEF AddCall
<1>12. /\ x \notin airline[ref].manifest /\ x \notin rows[pnr].passengers
       /\ \A u \in Threads : ~Sees(u, pnr, x)
  BY <1>3, <1>4 DEF InUse, Sees, On
<1>13. \A u \in Threads : ~Adding(u, pnr, x) /\ ~Removing(u, pnr, x)
  <2> SUFFICES ASSUME NEW u \in Threads
               PROVE  ~Adding(u, pnr, x) /\ ~Removing(u, pnr, x)
    OBVIOUS
  <2>1. ~Adding(u, pnr, x)
    BY <1>3, <1>12 DEF ManifestFits, ManifestIsAhead, BookingOf
  <2>2. ~Removing(u, pnr, x)
    BY <1>12 DEF Removing, Writing, Sees, On, Idle
  <2> QED BY <2>1, <2>2
<1>14. \A y \in People \ {x} :
         /\ y \in booking.manifest <=> y \in airline[ref].manifest
         /\ y \in new.passengers <=> y \in old.passengers
  BY <1>7, <1>9
<1>15. x \in booking.manifest /\ x \in new.passengers /\ new.passports \subseteq old.passports
  BY <1>7, <1>9
<1>16. Recorded(t, x, booking, new)
  BY <1>1, <1>2, <1>7, <1>10, <1>11, <1>12, <1>13, <1>14, <1>15 DEF Recorded
<1> QED BY <1>16, RecordedFits

LEMMA RemoveCallFits ==
  ASSUME IInv, ManifestFits, NEW t \in Threads, RemoveCall(t)
  PROVE  ManifestFits'
<1>1. request[t].at \in Calls /\ request[t].at = "remove_call" /\ UNCHANGED rows
  BY DEF RemoveCall, Calls
<1>2. PICK old \in Rows, ref \in Refs, pnr \in Pnrs :
        /\ old = request[t].old /\ ref = old.ref /\ pnr = request[t].pnr
        /\ old # None /\ request[t] # Idle
  BY <1>1, Asking
<1>3. airline[ref] \in AirlineBookings /\ airline[ref] # None /\ rows[pnr] # None
      /\ rows[pnr].ref = ref
  BY <1>1, <1>2, Asking, TheBooking
<1>4. PICK x \in Added : x = request[t].arg /\ x \in old.passengers
  BY <1>1, <1>2 DEF ManifestFits, WritesFit
<1>5. Sees(t, pnr, x)
  BY <1>2, <1>4 DEF Sees, On
<1> DEFINE removable == /\ x \in airline[ref].manifest
                        /\ WithManifest(airline[ref], airline[ref].manifest \ {x}).manifest # {}
<1>6. CASE ~removable
  <2>1. request' = [request EXCEPT ![t] = Held(pnr, old)] /\ UNCHANGED airline
    BY <1>2, <1>4, <1>6 DEF RemoveCall
  <2>2. request'[t] = Held(pnr, old) /\ \A u \in Threads \ {t} : request'[u] = request[u]
    BY <2>1 DEF IInv, TypeOK
  <2>3. NothingWritten(t)
    BY <1>1, NotAtCommit
  <2>4. \A y \in Added : y \in old.passengers => Sees(t, pnr, y)
    BY <1>2 DEF Sees, On
  <2>5. WritesFit(t)' /\ NothingWritten(t)' /\ SeesNobodyNew(t)
    BY <2>2, <2>4, HeldQuiet
  <2>6. ManifestsStand
    BY <2>1 DEF ManifestsStand
  <2> QED BY <1>1, <2>2, <2>3, <2>5, <2>6, PassengersStand
<1>7. CASE removable
  <2>1. airline[ref].manifest \ {x} \in SUBSET People
    BY <1>3 DEF AirlineBookings
  <2>2. PICK booking \in AirlineBookings :
          booking = WithManifest(airline[ref], airline[ref].manifest \ {x})
    BY <1>3, <2>1, WithManifestType
  <2>3. booking.manifest = airline[ref].manifest \ {x} /\ booking # None
    BY <1>3, <2>2, NoneAssumption DEF NoneAssumption, WithManifest, AirlineBookings
  <2>4. PICK new \in Rows :
          new = [old EXCEPT !.passengers = @ \ {x}, !.passports = @ \ {x},
                            !.price = booking.price]
    BY DEF Rows, AirlineBookings
  <2>5. new.passengers = old.passengers \ {x} /\ new.passports = old.passports \ {x}
    BY <2>4 DEF Rows
  <2>6. airline' = [airline EXCEPT ![ref] = booking]
    BY <1>2, <1>4, <1>7, <2>2 DEF RemoveCall
  <2>7. request' = [request EXCEPT ![t].at = "commit", ![t].new = new]
    BY <1>2, <1>4, <1>7, <2>2, <2>4 DEF RemoveCall
  <2>8. ASSUME NEW u \in Threads
        PROVE  ~Adding(u, pnr, x) /\ ~Removing(u, pnr, x)
    <3>1. ~Adding(u, pnr, x)
      BY <1>5 DEF ManifestFits, AddedUnseen
    <3>2. \A v \in Threads : ~Adding(v, pnr, x)
      BY <1>5 DEF ManifestFits, AddedUnseen
    <3>3. x \in BookingOf(pnr).manifest
      BY <1>3, <1>7 DEF BookingOf
    <3>4. ~Removing(u, pnr, x)
      BY <1>3, <3>2, <3>3 DEF ManifestFits, ManifestIsAhead
    <3> QED BY <3>1, <3>4
  <2>9. \A y \in People \ {x} :
          /\ y \in booking.manifest <=> y \in airline[ref].manifest
          /\ y \in new.passengers <=> y \in old.passengers
    BY <2>3, <2>5
  <2>10. /\ x \notin booking.manifest /\ x \notin new.passengers
         /\ new.passports \subseteq old.passports
    BY <2>3, <2>5
  <2>11. Recorded(t, x, booking, new)
    BY <1>1, <1>2, <1>4, <2>3, <2>6, <2>7, <2>8, <2>9, <2>10 DEF Recorded
  <2> QED BY <2>11, RecordedFits
<1> QED BY <1>6, <1>7

-----------------------------------------------------------------------------
(* The commit, and what follows.                                           *)

LEMMA CloseFits ==
  ASSUME IInv, ManifestFits, NEW t \in Threads, Close(t)
  PROVE  ManifestFits'
<1>1. /\ request[t].at = "held" /\ request' = [request EXCEPT ![t] = Idle]
      /\ UNCHANGED <<rows, airline>>
  BY DEF Close
<1>2. request'[t] = Idle /\ \A u \in Threads \ {t} : request'[u] = request[u]
  BY <1>1 DEF IInv, TypeOK
<1>3. NothingWritten(t)
  BY <1>1, NotAtCommit
<1>4. WritesFit(t)' /\ NothingWritten(t)' /\ SeesNobodyNew(t)
  BY <1>2, GoneQuiet
<1>5. ManifestsStand
  BY <1>1 DEF ManifestsStand
<1> QED BY <1>1, <1>2, <1>3, <1>4, <1>5, PassengersStand

LEMMA FinishFits ==
  ASSUME IInv, ManifestFits, NEW t \in Threads, Finish(t)
  PROVE  ManifestFits'
<1>1. /\ request[t].at = "finish" /\ UNCHANGED <<rows, airline>>
      /\ request' = [request EXCEPT ![t] = Held(request[t].pnr, request[t].old)]
  BY DEF Finish
<1>2. PICK pnr \in Pnrs, old \in Rows : pnr = request[t].pnr /\ old = request[t].old
  BY <1>1 DEF IInv, Threaded, Staged
<1>3. request'[t] = Held(pnr, old) /\ \A u \in Threads \ {t} : request'[u] = request[u]
  BY <1>1, <1>2 DEF IInv, TypeOK
<1>4. NothingWritten(t)
  BY <1>1, NotAtCommit
<1>5. old # None /\ request[t] # Idle
  BY <1>1, <1>2, NoneAssumption DEF NoneAssumption, Idle
<1>6. \A y \in Added : y \in old.passengers => Sees(t, pnr, y)
  BY <1>2, <1>5 DEF Sees, On
<1>7. WritesFit(t)' /\ NothingWritten(t)' /\ SeesNobodyNew(t)
  BY <1>3, <1>6, HeldQuiet
<1>8. ManifestsStand
  BY <1>1 DEF ManifestsStand
<1> QED BY <1>1, <1>3, <1>4, <1>7, <1>8, PassengersStand

(* A new row has the passengers of the manifest, and nobody works on it.   *)
LEMMA InsertFits ==
  ASSUME IInv, ManifestFits, NEW t \in Threads, Insert(t)
  PROVE  ManifestFits'
<1>1. /\ request[t].at = "commit" /\ request[t].old = None /\ InFlight(t)
      /\ UNCHANGED airline
  BY DEF Insert, InFlight
<1>2. PICK new \in Rows : new = request[t].new
  BY <1>1 DEF IInv, Threaded, Staged
<1>3. PICK fresh \in Pnrs :
        /\ rows[fresh] = None
        /\ rows' = [rows EXCEPT ![fresh] = new]
        /\ request' = [request EXCEPT ![t].at = "finish", ![t].pnr = fresh, ![t].old = new]
  BY <1>2 DEF Insert
<1>4. airline[new.ref].manifest = new.passengers
  BY <1>1, <1>2 DEF ManifestFits, WritesFit
<1>5. rows'[fresh] = new /\ \A p \in Pnrs \ {fresh} : rows'[p] = rows[p]
  BY <1>3 DEF IInv, TypeOK
<1> DEFINE r == [request[t] EXCEPT !.at = "finish", !.pnr = fresh, !.old = new]
<1>6. r.at = "finish" /\ r.pnr = fresh /\ r.old = new
  <2>1. request[t] \in Requests
    BY <1>1, RequestKind DEF IInv
  <2> QED BY <2>1 DEF Requests
<1>7. request' = [request EXCEPT ![t] = r]
  BY <1>3 DEF IInv, TypeOK
<1> HIDE DEF r
<1>8. request'[t] = r /\ \A u \in Threads \ {t} : request'[u] = request[u]
  BY <1>7 DEF IInv, TypeOK
<1>9. /\ NothingWritten(t)
      /\ \A p \in Pnrs, y \in Added : ~Adding(t, p, y)' /\ ~Removing(t, p, y)'
      /\ \A p \in Pnrs, y \in Added : Sees(t, p, y)' => p = fresh
      /\ WritesFit(t)'
  BY <1>1, <1>6, <1>8 DEF NothingWritten, Adding, Removing, Writing, Sees, On, WritesFit
<1>10. \A u \in Threads, p \in Pnrs, y \in Added :
         /\ Adding(u, p, y)' <=> Adding(u, p, y)
         /\ Removing(u, p, y)' <=> Removing(u, p, y)
         /\ p # fresh /\ Sees(u, p, y)' => Sees(u, p, y)
  <2> SUFFICES ASSUME NEW u \in Threads, NEW p \in Pnrs, NEW y \in Added
               PROVE  /\ Adding(u, p, y)' <=> Adding(u, p, y)
                      /\ Removing(u, p, y)' <=> Removing(u, p, y)
                      /\ p # fresh /\ Sees(u, p, y)' => Sees(u, p, y)
    OBVIOUS
  <2>1. CASE u = t
    BY <1>9, <2>1 DEF NothingWritten
  <2>2. CASE u # t
    BY <1>8, <2>2, OthersWrite
  <2> QED BY <2>1, <2>2
<1>11. \A u \in Threads, y \in Added : ~Adding(u, fresh, y) /\ ~Removing(u, fresh, y)
  <2> SUFFICES ASSUME NEW u \in Threads, Writing(u, fresh)
               PROVE  FALSE
    BY DEF Adding, Removing
  <2>1. request[u] # Idle
    BY DEF Writing, Idle
  <2>2. rows[fresh] # None
    BY <2>1 DEF Writing, IInv, Threaded, HoldsOld
  <2> QED BY <1>3, <2>2
<1>12. PartyFlies'
  BY <1>1 DEF ManifestFits, PartyFlies
<1>13. ASSUME NEW u \in Threads
       PROVE  WritesFit(u)'
  <2>1. CASE u = t
    BY <1>9, <2>1
  <2>2. CASE u # t
    <3>1. request'[u] = request[u] /\ WritesFit(u)
      BY <1>8, <2>2 DEF ManifestFits
    <3> QED BY <1>1, <3>1, OthersFit
  <2> QED BY <2>1, <2>2
<1>14. ManifestIsAhead'
  <2> SUFFICES ASSUME NEW p \in Pnrs, rows'[p] # None, NEW y \in Added
               PROVE  y \in airline[rows'[p].ref].manifest
                        <=> \/ \E u \in Threads : Adding(u, p, y)
                            \/ /\ y \in rows'[p].passengers
                               /\ \A u \in Threads : ~Removing(u, p, y)
    BY <1>1, <1>10 DEF ManifestIsAhead, BookingOf
  <2>1. CASE p = fresh
    BY <1>4, <1>5, <1>11, <2>1
  <2>2. CASE p # fresh
    BY <1>5, <2>2 DEF ManifestFits, ManifestIsAhead, BookingOf
  <2> QED BY <2>1, <2>2
<1>15. AddedUnseen'
  <2> SUFFICES ASSUME NEW u \in Threads, NEW p \in Pnrs, NEW y \in Added,
                      Adding(u, p, y)
               PROVE  /\ \A v \in Threads : ~Sees(v, p, y)'
                      /\ rows'[p] # None => y \notin rows'[p].passengers
    BY <1>10 DEF AddedUnseen
  <2>1. p # fresh
    BY <1>11
  <2> QED BY <1>5, <1>10, <2>1 DEF ManifestFits, AddedUnseen
<1>16. OneWriter'
  <2> SUFFICES ASSUME NEW u \in Threads, NEW v \in Threads, NEW p \in Pnrs, NEW y \in Added,
                      Adding(u, p, y)' \/ Removing(u, p, y)',
                      Adding(v, p, y)' \/ Removing(v, p, y)'
               PROVE  u = v
    BY DEF OneWriter
  <2> QED BY <1>10 DEF ManifestFits, OneWriter
<1> QED BY <1>12, <1>13, <1>14, <1>15, <1>16 DEF ManifestFits

(* A commit brings the row up to the manifest, for the passenger its       *)
(* request dealt with, and leaves the others to their own requests.        *)
LEMMA WrittenFits ==
  ASSUME IInv, ManifestFits, NEW t \in Threads,
         NEW pnr \in Pnrs, NEW old \in Rows, NEW new \in Rows,
         request[t].at = "commit", old = request[t].old, new = request[t].new,
         pnr = request[t].pnr, rows[pnr] # None, UNCHANGED airline,
         rows' = [rows EXCEPT ![pnr] = Written(rows[pnr], old, new)],
         \A u \in Threads \ {t} : request'[u] = request[u],
         request'[t].at # "commit", request'[t].at # "remove_call",
         request'[t].pnr = pnr, request'[t].old = new
  PROVE  ManifestFits'
<1>1. rows[pnr] \in Rows /\ old # None
  BY Booked, NoneAssumption DEF NoneAssumption
<1> DEFINE row == Written(rows[pnr], old, new)
<1>2. row.passengers = Members(rows[pnr].passengers, old.passengers, new.passengers)
      /\ row.ref = rows[pnr].ref
  BY <1>1 DEF Written, Rows
<1>3. rows'[pnr] = row /\ \A p \in Pnrs \ {pnr} : rows'[p] = rows[p]
  BY DEF IInv, TypeOK
<1> HIDE DEF row
<1>4. request[t] # Idle
  BY DEF Idle
<1>5. \A y \in Added : /\ Adding(t, pnr, y) <=> y \in new.passengers /\ y \notin old.passengers
                       /\ Removing(t, pnr, y) <=> y \in old.passengers /\ y \notin new.passengers
                       /\ Sees(t, pnr, y) <=> y \in old.passengers
  BY <1>1, <1>4 DEF Adding, Removing, Writing, Sees, On
<1>6. \A y \in Added : y \in row.passengers
        <=> (y \in rows[pnr].passengers \/ Adding(t, pnr, y)) /\ ~Removing(t, pnr, y)
  BY <1>2, <1>5 DEF Members
<1>7. \A p \in Pnrs, y \in Added :
        /\ ~Adding(t, p, y)' /\ ~Removing(t, p, y)'
        /\ Sees(t, p, y)' => p = pnr /\ y \in new.passengers
        /\ p # pnr => ~Adding(t, p, y) /\ ~Removing(t, p, y)
  BY DEF Adding, Removing, Writing, Sees, On
<1>8. WritesFit(t)'
  BY DEF WritesFit
<1>9. \A u \in Threads \ {t}, p \in Pnrs, y \in Added :
        /\ Adding(u, p, y)' <=> Adding(u, p, y)
        /\ Removing(u, p, y)' <=> Removing(u, p, y)
        /\ Sees(u, p, y)' <=> Sees(u, p, y)
  BY OthersWrite
<1>10. PartyFlies'
  BY DEF ManifestFits, PartyFlies
<1>11. ASSUME NEW u \in Threads
       PROVE  WritesFit(u)'
  <2>1. CASE u = t
    BY <1>8, <2>1
  <2>2. CASE u # t
    <3>1. request'[u] = request[u] /\ WritesFit(u)
      BY <2>2 DEF ManifestFits
    <3> QED BY <3>1, OthersFit
  <2> QED BY <2>1, <2>2
<1>12. ManifestIsAhead'
  <2> SUFFICES ASSUME NEW p \in Pnrs, rows'[p] # None, NEW y \in Added
               PROVE  y \in airline[rows'[p].ref].manifest
                        <=> \/ \E u \in Threads : Adding(u, p, y)'
                            \/ /\ y \in rows'[p].passengers
                               /\ \A u \in Threads : ~Removing(u, p, y)'
    BY DEF ManifestIsAhead, BookingOf
  <2>1. rows[p] # None /\ rows'[p].ref = rows[p].ref
    BY <1>2, <1>3
  <2>2. y \in airline[rows[p].ref].manifest
          <=> \/ \E u \in Threads : Adding(u, p, y)
              \/ /\ y \in rows[p].passengers
                 /\ \A u \in Threads : ~Removing(u, p, y)
    BY <2>1 DEF ManifestFits, ManifestIsAhead, BookingOf
  <2>3. CASE p # pnr \/ (~Adding(t, pnr, y) /\ ~Removing(t, pnr, y))
    <3>1. \A u \in Threads : /\ Adding(u, p, y)' <=> Adding(u, p, y)
                             /\ Removing(u, p, y)' <=> Removing(u, p, y)
      BY <1>7, <1>9, <2>3
    <3>2. y \in rows'[p].passengers <=> y \in rows[p].passengers
      BY <1>3, <1>6, <2>3
    <3> QED BY <2>1, <2>2, <3>1, <3>2
  <2>4. CASE p = pnr /\ (Adding(t, pnr, y) \/ Removing(t, pnr, y))
    <3>1. \A u \in Threads \ {t} : ~Adding(u, pnr, y) /\ ~Removing(u, pnr, y)
      BY <2>4 DEF ManifestFits, OneWriter
    <3>2. \A u \in Threads : ~Adding(u, pnr, y)' /\ ~Removing(u, pnr, y)'
      BY <1>7, <1>9, <3>1
    <3>3. Adding(t, pnr, y) <=> ~Removing(t, pnr, y)
      BY <1>5, <2>4
    <3>4. y \in rows'[pnr].passengers <=> Adding(t, pnr, y)
      BY <1>3, <1>6, <2>4, <3>3
    <3> QED BY <2>1, <2>2, <2>4, <3>1, <3>2, <3>3, <3>4
  <2> QED BY <2>3, <2>4
<1>13. AddedUnseen'
  <2> SUFFICES ASSUME NEW u \in Threads, NEW p \in Pnrs, NEW y \in Added,
                      Adding(u, p, y)'
               PROVE  /\ \A v \in Threads : ~Sees(v, p, y)'
                      /\ rows'[p] # None => y \notin rows'[p].passengers
    BY DEF AddedUnseen
  <2>1. u # t /\ Adding(u, p, y)
    BY <1>7, <1>9
  <2>2. /\ \A v \in Threads : ~Sees(v, p, y)
        /\ rows[p] # None => y \notin rows[p].passengers
    BY <2>1 DEF ManifestFits, AddedUnseen
  <2>3. p = pnr => ~Adding(t, pnr, y)
    BY <2>1 DEF ManifestFits, OneWriter
  <2>4. ~Sees(t, p, y)'
    BY <1>5, <1>7, <2>2, <2>3
  <2>5. \A v \in Threads : ~Sees(v, p, y)'
    BY <1>9, <2>2, <2>4
  <2>6. rows'[p] # None => y \notin rows'[p].passengers
    BY <1>3, <1>6, <2>2, <2>3
  <2> QED BY <2>5, <2>6
<1>14. OneWriter'
  <2> SUFFICES ASSUME NEW u \in Threads, NEW v \in Threads, NEW p \in Pnrs, NEW y \in Added,
                      Adding(u, p, y)' \/ Removing(u, p, y)',
                      Adding(v, p, y)' \/ Removing(v, p, y)'
               PROVE  u = v
    BY DEF OneWriter
  <2>1. u # t /\ v # t
    BY <1>7
  <2> QED BY <1>9, <2>1 DEF ManifestFits, OneWriter
<1> QED BY <1>10, <1>11, <1>12, <1>13, <1>14 DEF ManifestFits

LEMMA UpdateFits ==
  ASSUME IInv, ManifestFits, NEW t \in Threads, Update(t)
  PROVE  ManifestFits'
<1> DEFINE r == request[t]
<1>1. /\ r.at = "commit" /\ r.old # None /\ r # Idle /\ InFlight(t)
      /\ UNCHANGED airline
  BY DEF Update, InFlight, Idle
<1>2. PICK pnr \in Pnrs, old \in Rows, new \in Rows :
        pnr = r.pnr /\ old = r.old /\ new = r.new
  BY <1>1 DEF IInv, Threaded, Staged
<1>3. rows[pnr] # None
  BY <1>1, <1>2 DEF IInv, Threaded, HoldsOld
<1>4. CASE Stale(r)
  <2>1. Fail(t) /\ UNCHANGED rows
    BY <1>4 DEF Update
  <2>2. new.passengers = old.passengers
    BY <1>1, <1>2, <1>4 DEF Stale, ManifestFits, WritesFit
  <2>3. NothingWritten(t)
    BY <1>2, <2>2 DEF NothingWritten, Adding, Removing
  <2> QED BY <1>1, <2>1, <2>3, FailQuiet
<1>5. CASE ~Stale(r)
  <2>1. rows' = [rows EXCEPT ![pnr] = Written(rows[pnr], old, new)]
    BY <1>2, <1>5 DEF Update
  <2>2. PICK after :
          /\ request' = [request EXCEPT ![t] = after]
          /\ after.at \in {"finish", "held"} /\ after.pnr = pnr /\ after.old = new
    <3>1. CASE r.key \in CancelKeys
      <4>1. r \in Requests
        BY <1>1, RequestKind DEF IInv
      <4> DEFINE after == [r EXCEPT !.at = "finish", !.old = r.new]
      <4>2. after.at = "finish" /\ after.pnr = pnr /\ after.old = new
        BY <1>2, <4>1 DEF Requests
      <4>3. request' = [request EXCEPT ![t] = after]
        BY <1>5, <3>1 DEF Update
      <4> QED BY <4>2, <4>3
    <3>2. CASE r.key \notin CancelKeys
      <4>1. request' = [request EXCEPT ![t] = Held(pnr, new)]
        BY <1>2, <1>5, <3>2 DEF Update
      <4>2. Held(pnr, new).at = "held" /\ Held(pnr, new).pnr = pnr /\ Held(pnr, new).old = new
        BY DEF Held
      <4> QED BY <4>1, <4>2
    <3> QED BY <3>1, <3>2
  <2>3. request'[t] = after /\ \A u \in Threads \ {t} : request'[u] = request[u]
    BY <2>2 DEF IInv, TypeOK
  <2>4. /\ request'[t].at # "commit" /\ request'[t].at # "remove_call"
        /\ request'[t].pnr = pnr /\ request'[t].old = new
    BY <2>2, <2>3
  <2> QED BY <1>1, <1>2, <1>3, <2>1, <2>3, <2>4, WrittenFits
<1> QED BY <1>4, <1>5

-----------------------------------------------------------------------------

(* No commit has failed, nor does one.                                     *)
LEMMA FaultsStay ==
  ASSUME faults \in Nat, [Next]_vars, faults' = 0
  PROVE  faults = 0 /\ \A t \in Threads : ~CommitFails(t)
<1>1. ASSUME NEW t \in Threads, Receive(t) PROVE faults' = faults
  <2>1. (\E key \in CreateKeys : CreateBegin(t, key)) => faults' = faults
    BY DEF CreateBegin
  <2>2. \A pnr \in Pnrs : LookUp(t, pnr) \/ AddPassenger(t, pnr) => faults' = faults
    BY DEF LookUp, AddPassenger
  <2>3. \A pnr \in Pnrs, caller \in Callers, change \in Changes :
          Modify(t, pnr, caller, change) => faults' = faults
    BY DEF Modify
  <2>4. \A pnr \in Pnrs, caller \in Callers : Cancel(t, pnr, caller) => faults' = faults
    BY DEF Cancel
  <2>5. \A pnr \in Pnrs, x \in People :
          RemovePassenger(t, pnr, x) \/ AddPassport(t, pnr, x) => faults' = faults
    BY DEF RemovePassenger, AddPassport
  <2> QED BY <1>1, <2>1, <2>2, <2>3, <2>4, <2>5 DEF Receive
<1>2. ASSUME NEW t \in Threads, Proceed(t) PROVE faults' = faults
  <2>1. CreateCall(t) \/ ModifyCall(t) \/ CancelCall(t) => faults' = faults
    BY DEF CreateCall, ModifyCall, CancelCall
  <2>2. AddCall(t) \/ RemoveCall(t) => faults' = faults
    BY DEF AddCall, RemoveCall
  <2>3. Insert(t) \/ Update(t) \/ Finish(t) \/ Close(t) => faults' = faults
    BY DEF Insert, Update, Finish, Close
  <2> QED BY <1>2, <2>1, <2>2, <2>3 DEF Proceed
<1>3. ASSUME NEW t \in Threads, CommitFails(t) PROVE FALSE
  BY <1>3 DEF CommitFails
<1>4. UNCHANGED vars => faults' = faults
  BY DEF vars
<1> QED BY <1>1, <1>2, <1>3, <1>4 DEF Next

LEMMA PassengersAtFirst == Init => ManifestFits
<1> SUFFICES ASSUME Init PROVE ManifestFits
  OBVIOUS
<1>1. \A t \in Threads : request[t].at = "idle"
  BY DEF Init, Idle
<1>2. \A t \in Threads : WritesFit(t)
  BY <1>1 DEF WritesFit
<1>3. \A t \in Threads, pnr \in Pnrs, x \in Added : ~Adding(t, pnr, x) /\ ~Removing(t, pnr, x)
  BY <1>1 DEF Adding, Removing, Writing
<1>4. PartyFlies /\ ManifestIsAhead
  BY DEF Init, PartyFlies, ManifestIsAhead
<1>5. AddedUnseen /\ OneWriter
  BY <1>3 DEF AddedUnseen, OneWriter
<1> QED BY <1>2, <1>4, <1>5 DEF ManifestFits

LEMMA PassengersStep ==
  ASSUME IInv, ManifestFits, [Next]_vars, faults' = 0
  PROVE  ManifestFits'
<1>1. ASSUME NEW t \in Threads, Proceed(t)
      PROVE  ManifestFits'
  BY <1>1, CreateCallFits, ModifyCallFits, CancelCallFits, AddCallFits, RemoveCallFits,
     InsertFits, UpdateFits, FinishFits, CloseFits DEF Proceed
<1>2. ASSUME NEW t \in Threads, CommitFails(t)
      PROVE  FALSE
  BY <1>2 DEF CommitFails, IInv, TypeOK
<1>3. CASE UNCHANGED vars
  <2> USE <1>3 DEF vars
  <2>1. \A t \in Threads, pnr \in Pnrs, x \in Added :
          /\ Adding(t, pnr, x)' <=> Adding(t, pnr, x)
          /\ Removing(t, pnr, x)' <=> Removing(t, pnr, x)
          /\ Sees(t, pnr, x)' <=> Sees(t, pnr, x)
    BY OthersWrite
  <2>2. \A t \in Threads : WritesFit(t)'
    BY DEF ManifestFits, WritesFit
  <2>3. PartyFlies' /\ ManifestIsAhead'
    BY <2>1 DEF ManifestFits, PartyFlies, ManifestIsAhead, BookingOf
  <2>4. AddedUnseen' /\ OneWriter'
    BY <2>1 DEF ManifestFits, AddedUnseen, OneWriter
  <2> QED BY <2>2, <2>3, <2>4 DEF ManifestFits
<1> QED BY <1>1, <1>2, <1>3, ReadsFit DEF Next

(* While no commit has failed, the airline's manifests are ahead of the    *)
(* rows by exactly what requests are about to write, and no two requests   *)
(* are about to write the same passenger.                                  *)
THEOREM PassengerInvariance == Spec => []PInv
<1>1. Init => PInv
  BY InitInvariant, PassengersAtFirst DEF PInv
<1>2. PInv /\ [Next]_vars => PInv'
  <2> SUFFICES ASSUME PInv, [Next]_vars PROVE PInv'
    OBVIOUS
  <2>1. IInv'
    BY NextInvariant DEF PInv
  <2>2. faults' = 0 => faults = 0
    BY FaultsStay DEF PInv, IInv, TypeOK
  <2>3. faults' = 0 => ManifestFits'
    BY <2>2, PassengersStep DEF PInv
  <2> QED BY <2>1, <2>3 DEF PInv
<1> QED BY <1>1, <1>2, PTL DEF Spec

(* passenger_service.py: however the requests of however many clients      *)
(* overlap, once they have ended the passengers of a row that have an      *)
(* airline id are those on the airline's manifest, and all are on it.      *)
THEOREM ManifestStaysKnown == Spec => []ManifestIsKnown
<1>1. PInv => ManifestIsKnown
  <2> SUFFICES ASSUME PInv, NEW pnr \in Pnrs, rows[pnr] # None, faults = 0,
                      \A t \in Threads : ~InFlight(t)
               PROVE  /\ rows[pnr].passengers \cap Added = BookingOf(pnr).manifest \cap Added
                      /\ rows[pnr].passengers \subseteq BookingOf(pnr).manifest
    BY DEF ManifestIsKnown
  <2>1. IInv /\ ManifestFits
    BY DEF PInv
  <2>2. \A t \in Threads, x \in Added : ~Adding(t, pnr, x) /\ ~Removing(t, pnr, x)
    BY DEF Adding, Removing, Writing, InFlight
  <2>3. \A x \in Added : x \in BookingOf(pnr).manifest <=> x \in rows[pnr].passengers
    BY <2>1, <2>2 DEF ManifestFits, ManifestIsAhead
  <2>4. Party \subseteq BookingOf(pnr).manifest
    BY <2>1, Booked DEF ManifestFits, PartyFlies, BookingOf
  <2>5. rows[pnr].passengers \subseteq Party \cup Added
    BY <2>1, Booked DEF Rows, People
  <2> QED BY <2>3, <2>4, <2>5
<1> QED BY PassengerInvariance, <1>1, PTL
-----------------------------------------------------------------------------
(* Rows: a third invariant, for bookings whose requests never overlapped.  *)

(* A row that says what the airline's booking says, but for who is on it.  *)
Agrees(row, booking) ==
  /\ row.flight = booking.flight
  /\ row.price = booking.price
  /\ row.contact = booking.contact
  /\ (row.status = "CANCELLED") = (booking.status = "CANCELLED")
  /\ row.passengers # {}

Same(row, other) ==
  /\ row.flight = other.flight
  /\ row.price = other.price
  /\ row.contact = other.contact
  /\ row.status = other.status
  /\ row.passengers = other.passengers

Works(t, pnr) == On(t, pnr) /\ request[t].old # None

(* What a request checked before its call, and that one which adds a       *)
(* passport writes nothing else.                                           *)
ChecksFit(t) ==
  LET r == request[t]
  IN  /\ r.at = "modify_call" => r.key[2] = r.pnr /\ r.old.status # "CANCELLED"
      /\ r.at = "remove_call" => r.old.passengers \ {r.arg} # {}
      /\ r.at = "commit" /\ r.old # None
           => r.new.passports \subseteq r.old.passports \/ Same(r.new, r.old)

(* A key of modify_booking is that of the booking it names.                *)
ChangesAreSeen ==
  \A key \in ModifyKeys : seen[key] # None
    => rows[key[2]] # None /\ rows[key[2]].ref = seen[key]

(* A booking on its way to its row.                                        *)
NewRowsAgree ==
  \A t \in Threads : request[t].at = "commit" /\ request[t].old = None
    => Agrees(request[t].new, airline[request[t].new.ref])

(* One request works on the booking; what it read is still in the row, and *)
(* the row follows the airline unless the request is about to write what   *)
(* does.                                                                   *)
WorkedAlone ==
  \A pnr \in Pnrs \ overlapped, t, u \in Threads :
    Works(t, pnr) /\ Works(u, pnr) => t = u

ReadsHold ==
  \A pnr \in Pnrs \ overlapped, t \in Threads :
    rows[pnr] # None /\ Works(t, pnr) => Same(request[t].old, rows[pnr])

WritesAgree ==
  \A pnr \in Pnrs \ overlapped, t \in Threads :
    rows[pnr] # None /\ Writing(t, pnr) => Agrees(request[t].new, BookingOf(pnr))

RowsAgree ==
  \A pnr \in Pnrs \ overlapped :
    rows[pnr] # None /\ (\A t \in Threads : ~Writing(t, pnr))
      => Agrees(rows[pnr], BookingOf(pnr))

RowsFollow ==
  /\ \A t \in Threads : ChecksFit(t)
  /\ ChangesAreSeen
  /\ NewRowsAgree
  /\ WorkedAlone
  /\ ReadsHold
  /\ WritesAgree
  /\ RowsAgree

FInv == IInv /\ (faults = 0 => RowsFollow)

LEMMA OthersWork ==
  ASSUME NEW u \in Threads, request'[u] = request[u]
  PROVE  \A pnr \in Pnrs : /\ Writing(u, pnr)' <=> Writing(u, pnr)
                           /\ Works(u, pnr)' <=> Works(u, pnr)
BY DEF Writing, Works, On

LEMMA WritersWork ==
  ASSUME NEW u \in Threads, NEW pnr \in Pnrs, Writing(u, pnr)
  PROVE  Works(u, pnr)
BY DEF Writing, Works, On, Idle

(* What of a booking a row follows.                                        *)
Stands(ref) ==
  /\ airline'[ref].flight = airline[ref].flight
  /\ airline'[ref].price = airline[ref].price
  /\ airline'[ref].contact = airline[ref].contact
  /\ airline'[ref].status = airline[ref].status

(* The airline changes no booking but the one a request is about to write. *)
AirlineStands(t) ==
  \A ref \in Refs : airline[ref] # None =>
    \/ Stands(ref)
    \/ \E pnr \in Pnrs : rows[pnr] # None /\ rows[pnr].ref = ref /\ Writing(t, pnr)'

(* A request keeps the row it has read, or it is alone to read the booking.*)
ReadsOne(t) ==
  \A pnr \in Pnrs \ overlapped' : Works(t, pnr)' =>
    \/ Works(t, pnr) /\ request'[t].old = request[t].old
    \/ /\ \A u \in Threads \ {t} : ~Works(u, pnr)
       /\ Same(request'[t].old, rows[pnr])

(* A step that writes no row, of a request that was about to write nothing *)
(* a row follows the airline in.                                           *)
RowsKept(t) ==
  /\ UNCHANGED rows
  /\ overlapped \subseteq overlapped'
  /\ \A u \in Threads \ {t} : request'[u] = request[u]
  /\ ChecksFit(t)'
  /\ ChangesAreSeen'
  /\ \A pnr \in Pnrs : Writing(t, pnr) => Same(request[t].new, request[t].old)
  /\ ReadsOne(t)
  /\ AirlineStands(t)
  /\ \A pnr \in Pnrs \ overlapped' :
       Writing(t, pnr)' => Agrees(request'[t].new, airline'[rows[pnr].ref])
  /\ request'[t].at = "commit" /\ request'[t].old = None
       => Agrees(request'[t].new, airline'[request'[t].new.ref])

LEMMA RowsStand ==
  ASSUME IInv, RowsFollow, NEW t \in Threads, RowsKept(t)
  PROVE  RowsFollow'
<1>1. /\ UNCHANGED rows /\ overlapped \subseteq overlapped'
      /\ \A u \in Threads \ {t} : request'[u] = request[u]
      /\ ReadsOne(t) /\ AirlineStands(t) /\ ChangesAreSeen'
  BY DEF RowsKept
<1>2. \A u \in Threads \ {t}, pnr \in Pnrs : /\ Writing(u, pnr)' <=> Writing(u, pnr)
                                             /\ Works(u, pnr)' <=> Works(u, pnr)
  BY <1>1, OthersWork
<1>3. \A u \in Threads : ChecksFit(u)'
  BY <1>1 DEF RowsKept, RowsFollow, ChecksFit, Same
<1>4. WorkedAlone'
  <2> SUFFICES ASSUME NEW pnr \in Pnrs \ overlapped', NEW u \in Threads \ {t},
                      Works(t, pnr)', Works(u, pnr)'
               PROVE  FALSE
    BY <1>1, <1>2 DEF RowsFollow, WorkedAlone
  <2>1. Works(u, pnr) /\ pnr \notin overlapped
    BY <1>1, <1>2
  <2> QED BY <1>1, <2>1 DEF ReadsOne, RowsFollow, WorkedAlone
<1>5. ReadsHold'
  <2> SUFFICES ASSUME NEW pnr \in Pnrs \ overlapped', NEW u \in Threads,
                      rows[pnr] # None, Works(u, pnr)'
               PROVE  Same(request'[u].old, rows[pnr])
    BY <1>1 DEF ReadsHold, Same
  <2>1. pnr \notin overlapped
    BY <1>1
  <2>2. CASE u = t
    BY <1>1, <2>1, <2>2 DEF ReadsOne, RowsFollow, ReadsHold
  <2>3. CASE u # t
    BY <1>1, <1>2, <2>1, <2>3 DEF RowsFollow, ReadsHold
  <2> QED BY <2>2, <2>3
<1>6. ASSUME NEW pnr \in Pnrs, rows[pnr] # None, ~Writing(t, pnr)'
      PROVE  Stands(rows[pnr].ref)
  <2>1. rows[pnr].ref \in Refs /\ airline[rows[pnr].ref] # None
    BY <1>6, Booked
  <2>2. \A other \in Pnrs : rows[other] # None /\ rows[other].ref = rows[pnr].ref
          => other = pnr
    BY <1>6 DEF IInv, OneRowEach
  <2> QED BY <1>1, <1>6, <2>1, <2>2 DEF AirlineStands
<1>7. WritesAgree'
  <2> SUFFICES ASSUME NEW pnr \in Pnrs \ overlapped', NEW u \in Threads,
                      rows[pnr] # None, Writing(u, pnr)'
               PROVE  Agrees(request'[u].new, airline'[rows[pnr].ref])
    BY <1>1 DEF WritesAgree, BookingOf, Agrees
  <2>1. CASE u = t
    BY <2>1 DEF RowsKept
  <2>2. CASE u # t
    <3>1. Writing(u, pnr) /\ Works(u, pnr) /\ pnr \notin overlapped
      BY <1>1, <1>2, <2>2, WritersWork
    <3>2. ~Writing(t, pnr)'
      <4>1. Works(u, pnr)'
        BY <1>2, <2>2, <3>1
      <4>2. Writing(t, pnr)' => Works(t, pnr)'
        BY DEF Writing, Works, On, Idle
      <4> QED BY <1>4, <2>2, <4>1, <4>2 DEF WorkedAlone
    <3>3. Agrees(request[u].new, airline[rows[pnr].ref])
      BY <3>1 DEF RowsFollow, WritesAgree, BookingOf
    <3> QED BY <1>1, <1>6, <2>2, <3>2, <3>3 DEF Agrees, Stands
  <2> QED BY <2>1, <2>2
<1>8. RowsAgree'
  <2> SUFFICES ASSUME NEW pnr \in Pnrs \ overlapped', rows[pnr] # None,
                      \A u \in Threads : ~Writing(u, pnr)'
               PROVE  Agrees(rows[pnr], airline'[rows[pnr].ref])
    BY <1>1 DEF RowsAgree, BookingOf, Agrees
  <2>1. pnr \notin overlapped /\ \A u \in Threads \ {t} : ~Writing(u, pnr)
    BY <1>1, <1>2
  <2>2. Agrees(rows[pnr], airline[rows[pnr].ref])
    <3>1. CASE Writing(t, pnr)
      <4>1. Agrees(request[t].new, airline[rows[pnr].ref])
        BY <2>1, <3>1 DEF RowsFollow, WritesAgree, BookingOf
      <4>2. Same(request[t].new, request[t].old)
        BY <3>1 DEF RowsKept
      <4>3. Same(request[t].old, rows[pnr])
        BY <2>1, <3>1, WritersWork DEF RowsFollow, ReadsHold
      <4> QED BY <4>1, <4>2, <4>3 DEF Agrees, Same
    <3>2. CASE ~Writing(t, pnr)
      BY <2>1, <3>2 DEF RowsFollow, RowsAgree, BookingOf
    <3> QED BY <3>1, <3>2
  <2> QED BY <1>6, <2>2 DEF Agrees, Stands
<1>9. NewRowsAgree'
  <2> SUFFICES ASSUME NEW u \in Threads, request'[u].at = "commit", request'[u].old = None
               PROVE  Agrees(request'[u].new, airline'[request'[u].new.ref])
    BY DEF NewRowsAgree, Agrees
  <2>1. CASE u = t
    BY <2>1 DEF RowsKept
  <2>2. CASE u # t
    <3>1. request'[u] = request[u] /\ Making(u)
      BY <1>1, <2>2 DEF Making
    <3>2. /\ request[u].new.ref \in Refs /\ airline[request[u].new.ref] # None
          /\ airline[request[u].new.ref].key = request[u].key
      BY <3>1 DEF IInv, Threaded, Staged, HoldsNew, Rows
    <3>3. \A pnr \in Pnrs : rows[pnr] # None => rows[pnr].ref # request[u].new.ref
      BY <3>1, <3>2 DEF IInv, KeysAreHeld
    <3>4. Stands(request[u].new.ref)
      BY <1>1, <3>2, <3>3 DEF AirlineStands
    <3>5. Agrees(request[u].new, airline[request[u].new.ref])
      BY <3>1 DEF RowsFollow, NewRowsAgree
    <3> QED BY <3>1, <3>4, <3>5 DEF Agrees, Stands
  <2> QED BY <2>1, <2>2
<1> QED BY <1>1, <1>3, <1>4, <1>5, <1>7, <1>8, <1>9 DEF RowsFollow

-----------------------------------------------------------------------------
(* The steps that read, and those that end.                                *)

(* A step after which the request neither waits for the airline to change  *)
(* its booking nor is about to write.                                      *)
LEMMA QuietFollows ==
  ASSUME IInv, RowsFollow, NEW t \in Threads, UNCHANGED <<rows, airline, seen>>,
         overlapped \subseteq overlapped',
         \A u \in Threads \ {t} : request'[u] = request[u],
         request'[t].at \notin {"modify_call", "remove_call", "commit"},
         \A pnr \in Pnrs : Writing(t, pnr) => Same(request[t].new, request[t].old),
         ReadsOne(t)
  PROVE  RowsFollow'
<1>1. ChecksFit(t)'
  BY DEF ChecksFit
<1>2. ChangesAreSeen'
  BY DEF RowsFollow, ChangesAreSeen
<1>3. AirlineStands(t)
  BY DEF AirlineStands, Stands
<1>4. \A pnr \in Pnrs : ~Writing(t, pnr)'
  BY DEF Writing
<1>5. RowsKept(t)
  BY <1>1, <1>2, <1>3, <1>4 DEF RowsKept
<1> QED BY <1>5, RowsStand

LEMMA NobodyWrites ==
  ASSUME NEW t \in Threads, request[t].at # "commit"
  PROVE  \A pnr \in Pnrs : ~Writing(t, pnr)
BY DEF Writing

LEMMA FailFollows ==
  ASSUME IInv, RowsFollow, NEW t \in Threads, Fail(t),
         UNCHANGED <<rows, airline, seen, overlapped>>,
         \A pnr \in Pnrs : Writing(t, pnr) => Same(request[t].new, request[t].old)
  PROVE  RowsFollow'
<1>1. request'[t] = Idle /\ \A u \in Threads \ {t} : request'[u] = request[u]
  BY DEF Fail, IInv, TypeOK
<1>2. ReadsOne(t) /\ request'[t].at \notin {"modify_call", "remove_call", "commit"}
  BY <1>1 DEF ReadsOne, Works, On, Idle
<1> QED BY <1>1, <1>2, QuietFollows

(* The request is over, and the thread keeps the row it has read.          *)
LEMMA HeldFollows ==
  ASSUME IInv, RowsFollow, NEW t \in Threads, InFlight(t), request[t].at # "commit",
         NEW pnr \in Pnrs, NEW old \in Rows, pnr = request[t].pnr, old = request[t].old,
         request' = [request EXCEPT ![t] = Held(pnr, old)],
         UNCHANGED <<rows, airline, seen, overlapped>>
  PROVE  RowsFollow'
<1>1. request'[t] = Held(pnr, old) /\ \A u \in Threads \ {t} : request'[u] = request[u]
  BY DEF IInv, TypeOK
<1>2. request[t] # Idle /\ old # None
  BY NoneAssumption DEF InFlight, Idle, NoneAssumption
<1>3. request'[t].at = "held" /\ request'[t].pnr = pnr /\ request'[t].old = old
  BY <1>1 DEF Held
<1>4. ReadsOne(t)
  BY <1>2, <1>3 DEF ReadsOne, Works, On
<1>5. \A p \in Pnrs : Writing(t, p) => Same(request[t].new, request[t].old)
  BY NobodyWrites
<1> QED BY <1>1, <1>3, <1>4, <1>5, QuietFollows

(* Whoever begins to work on a booking alone reads a row that follows the  *)
(* airline.                                                                *)
LEMMA LoadedAgrees ==
  ASSUME IInv, RowsFollow, NEW t \in Threads, NEW pnr \in Pnrs, ~InFlight(t),
         Loaded(t, pnr) # None \/ rows[pnr] # None,
         overlapped' = IF \E u \in Threads \ {t} : On(u, pnr)
                       THEN overlapped \cup {pnr} ELSE overlapped,
         pnr \notin overlapped'
  PROVE  /\ \A u \in Threads \ {t} : ~Works(u, pnr)
         /\ Same(Loaded(t, pnr), rows[pnr])
         /\ Agrees(Loaded(t, pnr), airline[rows[pnr].ref])
<1>1. rows[pnr] # None
  BY LoadedRow
<1>2. pnr \notin overlapped /\ \A u \in Threads \ {t} : ~On(u, pnr)
  OBVIOUS
<1>3. \A u \in Threads \ {t} : ~Works(u, pnr)
  BY <1>2 DEF Works
<1>4. \A u \in Threads : ~Writing(u, pnr)
  <2>1. ~Writing(t, pnr)
    BY NobodyWrites DEF InFlight
  <2> QED BY <1>3, <2>1, WritersWork
<1>5. Agrees(rows[pnr], airline[rows[pnr].ref])
  BY <1>1, <1>2, <1>4 DEF RowsFollow, RowsAgree, BookingOf
<1>6. Same(Loaded(t, pnr), rows[pnr])
  <2>1. CASE On(t, pnr)
    <3>1. request[t].at = "held" /\ request[t].old \in Rows
      BY <2>1, RequestKind DEF On, InFlight, IInv
    <3>2. Works(t, pnr)
      BY <2>1, <3>1, NoneAssumption DEF Works, NoneAssumption
    <3>3. Same(request[t].old, rows[pnr])
      BY <1>1, <1>2, <3>2 DEF RowsFollow, ReadsHold
    <3> QED BY <2>1, <3>3 DEF Loaded
  <2>2. CASE ~On(t, pnr)
    BY <2>2 DEF Loaded, Same
  <2> QED BY <2>1, <2>2
<1> QED BY <1>3, <1>5, <1>6 DEF Agrees, Same

LEMMA GotoFollows ==
  ASSUME IInv, RowsFollow, NEW t \in Threads, NEW pnr \in Pnrs, Load(t, pnr),
         NEW stage, NEW new, NEW key, NEW arg, Goto(t, stage, pnr, new, key, arg),
         UNCHANGED <<rows, airline, seen>>,
         stage = "modify_call" => key[2] = pnr,
         stage = "remove_call" => Loaded(t, pnr).passengers \ {arg} # {},
         stage = "commit" =>
           /\ new.passports \subseteq Loaded(t, pnr).passports \/ Same(new, Loaded(t, pnr))
           /\ new.flight = Loaded(t, pnr).flight /\ new.price = Loaded(t, pnr).price
           /\ new.contact = Loaded(t, pnr).contact /\ new.status = Loaded(t, pnr).status
           /\ Loaded(t, pnr).passengers # {} => new.passengers # {}
  PROVE  RowsFollow'
<1>1. /\ ~InFlight(t) /\ Loaded(t, pnr) # None /\ Loaded(t, pnr).status # "CANCELLED"
      /\ overlapped' = IF \E u \in Threads \ {t} : On(u, pnr)
                       THEN overlapped \cup {pnr} ELSE overlapped
  BY DEF Load
<1>2. PICK row \in Rows : row = Loaded(t, pnr) /\ row # None
  BY <1>1, LoadedRow
<1> DEFINE r == [at |-> stage, pnr |-> pnr, old |-> row, new |-> new, key |-> key, arg |-> arg]
<1>3. /\ request' = [request EXCEPT ![t] = r]
      /\ r.at = stage /\ r.pnr = pnr /\ r.old = row /\ r.new = new
      /\ r.key = key /\ r.arg = arg
  BY <1>2 DEF Goto
<1> HIDE DEF r
<1>4. request'[t] = r /\ \A u \in Threads \ {t} : request'[u] = request[u]
  BY <1>3 DEF IInv, TypeOK
<1>5. overlapped \subseteq overlapped'
  BY <1>1
<1>6. pnr \notin overlapped' => /\ \A u \in Threads \ {t} : ~Works(u, pnr)
                                /\ Same(row, rows[pnr])
                                /\ Agrees(row, airline[rows[pnr].ref])
  BY <1>1, <1>2, LoadedAgrees
<1>7. \A p \in Pnrs : ~Writing(t, p)
  BY <1>1, NobodyWrites DEF InFlight
<1>8. ReadsOne(t)
  BY <1>3, <1>4, <1>6 DEF ReadsOne, Works, On
<1>9. ChecksFit(t)'
  BY <1>1, <1>2, <1>3, <1>4 DEF ChecksFit, Same
<1>10. ChangesAreSeen'
  BY DEF RowsFollow, ChangesAreSeen
<1>11. AirlineStands(t)
  BY DEF AirlineStands, Stands
<1>12. ASSUME NEW p \in Pnrs \ overlapped', Writing(t, p)'
       PROVE  Agrees(request'[t].new, airline'[rows[p].ref])
  <2>1. p = pnr /\ stage = "commit"
    BY <1>3, <1>4, <1>12 DEF Writing
  <2>2. Agrees(row, airline[rows[pnr].ref])
    BY <1>6, <2>1
  <2>3. Agrees(new, airline[rows[pnr].ref])
    BY <1>2, <2>1, <2>2 DEF Agrees
  <2> QED BY <1>3, <1>4, <2>1, <2>3
<1>13. request'[t].old # None
  BY <1>2, <1>3, <1>4
<1>14. RowsKept(t)
  BY <1>4, <1>5, <1>7, <1>8, <1>9, <1>10, <1>11, <1>12, <1>13 DEF RowsKept
<1> QED BY <1>14, RowsStand

(* Two passengers are not one.                                             *)
LEMMA SomebodyStays ==
  ASSUME NEW people, NEW x, Cardinality(people) > 1
  PROVE  people \ {x} # {}
<1> SUFFICES ASSUME people \ {x} = {}
             PROVE  FALSE
  OBVIOUS
<1>1. people = {} \/ people = {x}
  OBVIOUS
<1>2. Cardinality({}) = 0 /\ Cardinality({x}) = 1
  BY FS_EmptySet, FS_Singleton
<1> QED BY <1>1, <1>2

LEMMA ReadsFollow ==
  ASSUME IInv, RowsFollow, NEW t \in Threads, Receive(t)
  PROVE  RowsFollow'
<1>1. ASSUME NEW key \in CreateKeys, CreateBegin(t, key)
      PROVE  RowsFollow'
  <2> DEFINE r == [at |-> "create_call", pnr |-> None, old |-> None, new |-> None,
                   key |-> key, arg |-> None]
  <2>1. /\ request' = [request EXCEPT ![t] = r] /\ request[t] = Idle
        /\ UNCHANGED <<rows, airline, seen, overlapped>>
        /\ r.at = "create_call" /\ r.old = None
    BY <1>1 DEF CreateBegin
  <2> HIDE DEF r
  <2>2. request'[t] = r /\ \A u \in Threads \ {t} : request'[u] = request[u]
    BY <2>1 DEF IInv, TypeOK
  <2>3. ReadsOne(t) /\ request'[t].at \notin {"modify_call", "remove_call", "commit"}
    BY <2>1, <2>2 DEF ReadsOne, Works
  <2>4. \A p \in Pnrs : ~Writing(t, p)
    BY <2>1, NobodyWrites DEF Idle
  <2> QED BY <2>1, <2>2, <2>3, <2>4, QuietFollows
<1>2. ASSUME NEW pnr \in Pnrs, LookUp(t, pnr)
      PROVE  RowsFollow'
  <2>1. /\ ~InFlight(t) /\ rows[pnr] # None
        /\ request' = [request EXCEPT ![t] = Held(pnr, Loaded(t, pnr))]
        /\ UNCHANGED <<rows, airline, seen>>
        /\ overlapped' = IF \E u \in Threads \ {t} : On(u, pnr)
                         THEN overlapped \cup {pnr} ELSE overlapped
    BY <1>2 DEF LookUp
  <2>2. PICK row \in Rows : row = Loaded(t, pnr)
    BY <2>1, LoadedRow
  <2>3. request'[t] = Held(pnr, row) /\ \A u \in Threads \ {t} : request'[u] = request[u]
    BY <2>1, <2>2 DEF IInv, TypeOK
  <2>4. request'[t].at = "held" /\ request'[t].pnr = pnr /\ request'[t].old = row
    BY <2>3 DEF Held
  <2>5. pnr \notin overlapped' => /\ \A u \in Threads \ {t} : ~Works(u, pnr)
                                  /\ Same(row, rows[pnr])
    BY <2>1, <2>2, LoadedAgrees
  <2>6. ReadsOne(t)
    BY <2>4, <2>5 DEF ReadsOne, Works, On
  <2>7. \A p \in Pnrs : ~Writing(t, p)
    BY <2>1, NobodyWrites DEF InFlight
  <2>8. overlapped \subseteq overlapped'
    BY <2>1
  <2> QED BY <2>1, <2>3, <2>4, <2>6, <2>7, <2>8, QuietFollows
<1>3. ASSUME NEW pnr \in Pnrs, NEW caller \in Callers, NEW change \in Changes,
             Modify(t, pnr, caller, change)
      PROVE  RowsFollow'
  <2>1. PICK key : /\ Load(t, pnr) /\ UNCHANGED <<rows, airline, seen>>
                   /\ Goto(t, "modify_call", pnr, None, key, change)
                   /\ key[2] = pnr
    BY <1>3 DEF Modify
  <2> QED BY <2>1, GotoFollows
<1>4. ASSUME NEW pnr \in Pnrs, NEW caller \in Callers, Cancel(t, pnr, caller)
      PROVE  RowsFollow'
  <2>1. /\ Load(t, pnr) /\ UNCHANGED <<rows, airline, seen>>
        /\ Goto(t, "cancel_call", pnr, None, <<caller, pnr>>, None)
    BY <1>4 DEF Cancel
  <2> QED BY <2>1, GotoFollows
<1>5. ASSUME NEW pnr \in Pnrs, AddPassenger(t, pnr)
      PROVE  RowsFollow'
  <2>1. /\ Load(t, pnr) /\ UNCHANGED <<rows, airline, seen>>
        /\ Goto(t, "add_call", pnr, None, None, None)
    BY <1>5 DEF AddPassenger
  <2> QED BY <2>1, GotoFollows
<1>6. ASSUME NEW pnr \in Pnrs, NEW passenger \in People, RemovePassenger(t, pnr, passenger)
      PROVE  RowsFollow'
  <2>1. Load(t, pnr) /\ UNCHANGED <<rows, airline, seen>>
        /\ Cardinality(Loaded(t, pnr).passengers) > 1
    BY <1>6 DEF RemovePassenger
  <2>2. PICK row \in Rows : row = Loaded(t, pnr)
    BY <2>1, LoadedRow DEF Load
  <2>3. row.passengers \ {passenger} # {}
    BY <2>1, <2>2, SomebodyStays
  <2>4. PICK without : without = [row EXCEPT !.passengers = @ \ {passenger},
                                             !.passports = @ \ {passenger}]
    OBVIOUS
  <2>5. CASE passenger \in Added
    <3>1. Goto(t, "remove_call", pnr, None, None, passenger)
      BY <1>6, <2>5 DEF RemovePassenger
    <3> QED BY <2>1, <2>2, <2>3, <3>1, GotoFollows
  <2>6. CASE passenger \notin Added
    <3>1. Goto(t, "commit", pnr, without, None, passenger)
      BY <1>6, <2>2, <2>4, <2>6 DEF RemovePassenger
    <3>2. /\ without.passengers = row.passengers \ {passenger}
          /\ without.passports = row.passports \ {passenger}
          /\ without.flight = row.flight /\ without.price = row.price
          /\ without.contact = row.contact /\ without.status = row.status
      BY <2>4 DEF Rows
    <3>3. without.passports \subseteq row.passports /\ without.passengers # {}
      BY <2>3, <3>2
    <3> QED BY <2>1, <2>2, <3>1, <3>2, <3>3, GotoFollows
  <2> QED BY <2>5, <2>6
<1>7. ASSUME NEW pnr \in Pnrs, NEW passenger \in People, AddPassport(t, pnr, passenger)
      PROVE  RowsFollow'
  <2>1. Load(t, pnr) /\ UNCHANGED <<rows, airline, seen>>
    BY <1>7 DEF AddPassport
  <2>2. PICK row \in Rows : row = Loaded(t, pnr)
    BY <2>1, LoadedRow DEF Load
  <2>3. PICK with : with = [row EXCEPT !.passports = @ \cup {passenger}]
    OBVIOUS
  <2>4. Goto(t, "commit", pnr, with, None, passenger)
    BY <1>7, <2>2, <2>3 DEF AddPassport
  <2>5. /\ with.passengers = row.passengers /\ with.flight = row.flight
        /\ with.price = row.price /\ with.contact = row.contact /\ with.status = row.status
    BY <2>3 DEF Rows
  <2>6. Same(with, row)
    BY <2>5 DEF Same
  <2> QED BY <2>1, <2>2, <2>4, <2>5, <2>6, GotoFollows
<1> QED BY <1>1, <1>2, <1>3, <1>4, <1>5, <1>6, <1>7 DEF Receive

-----------------------------------------------------------------------------
(* The airline's answers.                                                  *)

(* What a request has read follows the airline while it is being answered. *)
LEMMA CallAgrees ==
  ASSUME IInv, RowsFollow, NEW t \in Threads, request[t].at \in Calls,
         request[t].pnr \notin overlapped
  PROVE  Agrees(request[t].old, airline[request[t].old.ref])
<1>1. PICK pnr \in Pnrs : /\ pnr = request[t].pnr /\ rows[pnr] # None
                          /\ rows[pnr].ref = request[t].old.ref
  BY TheBooking
<1>2. Works(t, pnr)
  BY <1>1, Asking DEF Works, On
<1>3. \A u \in Threads : ~Writing(u, pnr)
  <2>1. ~Writing(t, pnr)
    BY NobodyWrites DEF Calls
  <2>2. \A u \in Threads \ {t} : ~Works(u, pnr)
    BY <1>1, <1>2 DEF RowsFollow, WorkedAlone
  <2> QED BY <2>1, <2>2, WritersWork
<1>4. Agrees(rows[pnr], airline[rows[pnr].ref])
  BY <1>1, <1>3 DEF RowsFollow, RowsAgree, BookingOf
<1>5. Same(request[t].old, rows[pnr])
  BY <1>1, <1>2 DEF RowsFollow, ReadsHold
<1> QED BY <1>1, <1>4, <1>5 DEF Agrees, Same

(* An answer: the request goes on to write what follows the airline's      *)
(* booking, which is the only one that may have changed.                   *)
AnsweredWith(t, new) ==
  /\ request[t].at \in Calls
  /\ request' = [request EXCEPT ![t].at = "commit", ![t].new = new]
  /\ UNCHANGED <<rows, overlapped>>
  /\ new.passports \subseteq request[t].old.passports
  /\ \A ref \in Refs \ {request[t].old.ref} : airline'[ref] = airline[ref]
  /\ request[t].pnr \notin overlapped => Agrees(new, airline'[request[t].old.ref])
  /\ ChangesAreSeen'

LEMMA AnswerFollows ==
  ASSUME IInv, RowsFollow, NEW t \in Threads, NEW new, AnsweredWith(t, new)
  PROVE  RowsFollow'
<1>1. /\ request[t].at \in Calls /\ UNCHANGED <<rows, overlapped>>
      /\ request' = [request EXCEPT ![t].at = "commit", ![t].new = new]
      /\ \A ref \in Refs \ {request[t].old.ref} : airline'[ref] = airline[ref]
      /\ ChangesAreSeen'
  BY DEF AnsweredWith
<1>2. InFlight(t) /\ request[t].old # None
  BY <1>1, Asking
<1>3. /\ request'[t].at = "commit" /\ request'[t].new = new
      /\ request'[t].old = request[t].old /\ request'[t].pnr = request[t].pnr
      /\ request'[t].arg = request[t].arg
      /\ request[t] # Idle
      /\ \A u \in Threads \ {t} : request'[u] = request[u]
  BY <1>1, <1>2, Answering
<1>4. PICK pnr \in Pnrs : /\ pnr = request[t].pnr /\ rows[pnr] # None
                          /\ rows[pnr].ref = request[t].old.ref
  BY <1>1, TheBooking
<1>5. ChecksFit(t)'
  BY <1>3 DEF ChecksFit, AnsweredWith, Same
<1>6. \A p \in Pnrs : ~Writing(t, p)
  BY <1>1, NobodyWrites DEF Calls
<1>7. ReadsOne(t)
  BY <1>2, <1>3 DEF ReadsOne, Works, On
<1>8. AirlineStands(t)
  <2> SUFFICES ASSUME NEW ref \in Refs
               PROVE  \/ Stands(ref)
                      \/ \E p \in Pnrs : /\ rows[p] # None /\ rows[p].ref = ref
                                         /\ Writing(t, p)'
    BY DEF AirlineStands
  <2>1. CASE ref = request[t].old.ref
    <3>1. Writing(t, pnr)'
      BY <1>2, <1>3, <1>4 DEF Writing
    <3> QED BY <1>4, <2>1, <3>1
  <2>2. CASE ref # request[t].old.ref
    BY <1>1, <2>2 DEF Stands
  <2> QED BY <2>1, <2>2
<1>9. ASSUME NEW p \in Pnrs \ overlapped', Writing(t, p)'
      PROVE  Agrees(request'[t].new, airline'[rows[p].ref])
  <2>1. p = pnr /\ pnr \notin overlapped
    BY <1>1, <1>3, <1>4, <1>9 DEF Writing
  <2>2. Agrees(new, airline'[request[t].old.ref])
    BY <1>4, <2>1 DEF AnsweredWith
  <2> QED BY <1>3, <1>4, <2>1, <2>2
<1>10. RowsKept(t)
  BY <1>1, <1>2, <1>3, <1>5, <1>6, <1>7, <1>8, <1>9 DEF RowsKept
<1> QED BY <1>10, RowsStand

LEMMA ModifyCallFollows ==
  ASSUME IInv, RowsFollow, NEW t \in Threads, ModifyCall(t)
  PROVE  RowsFollow'
<1>1. /\ request[t].at \in Calls /\ request[t].at = "modify_call"
      /\ UNCHANGED <<rows, overlapped>>
  BY DEF ModifyCall, Calls
<1>2. PICK old \in Rows, ref \in Refs, pnr \in Pnrs, key \in ModifyKeys, change \in Changes :
        /\ old = request[t].old /\ ref = old.ref /\ pnr = request[t].pnr
        /\ key = request[t].key /\ change = request[t].arg
  BY <1>1, Asking DEF IInv, Threaded, Staged
<1>3. /\ airline[ref] \in AirlineBookings /\ airline[ref] # None
      /\ rows[pnr] # None /\ rows[pnr].ref = ref
  BY <1>1, <1>2, Asking, TheBooking
<1>4. key[2] = pnr /\ old.status # "CANCELLED"
  BY <1>1, <1>2 DEF RowsFollow, ChecksFit
<1>5. pnr \notin overlapped => Agrees(old, airline[ref])
  BY <1>1, <1>2, CallAgrees
<1>6. ASSUME NEW answer \in AirlineBookings, old.passengers # {},
             answer.status # "CANCELLED"
      PROVE  Agrees(Modified(old, change, answer), answer)
  <2>1. /\ Modified(old, change, answer).flight = answer.flight
        /\ Modified(old, change, answer).price = answer.price
        /\ Modified(old, change, answer).contact = answer.contact
        /\ Modified(old, change, answer).passengers = old.passengers
    BY DEF Modified, Rows
  <2>2. Modified(old, change, answer).status # "CANCELLED"
    BY <1>4, ModifiedType
  <2> QED BY <1>6, <2>1, <2>2 DEF Agrees
<1>7. \A answer : Modified(old, change, answer).passports = old.passports
  BY DEF Modified, Rows
<1>8. CASE /\ Known(key) /\ UNCHANGED <<airline, seen>>
           /\ request' = [request EXCEPT ![t].at = "commit",
                ![t].new = Modified(old, change, airline[seen[key]])]
  <2>1. seen[key] = ref
    BY <1>3, <1>4, <1>8 DEF Known, RowsFollow, ChangesAreSeen
  <2>2. PICK new : new = Modified(old, change, airline[ref])
    OBVIOUS
  <2>3. request' = [request EXCEPT ![t].at = "commit", ![t].new = new]
    BY <1>8, <2>1, <2>2
  <2>4. pnr \notin overlapped => Agrees(new, airline'[ref])
    <3> SUFFICES ASSUME pnr \notin overlapped
                 PROVE  Agrees(new, airline[ref])
      BY <1>8
    <3>1. airline[ref].status # "CANCELLED" /\ old.passengers # {}
      BY <1>4, <1>5 DEF Agrees
    <3> QED BY <1>3, <1>6, <2>2, <3>1
  <2>5. ChangesAreSeen'
    BY <1>1, <1>8 DEF RowsFollow, ChangesAreSeen
  <2>6. new.passports \subseteq old.passports
    BY <1>7, <2>2
  <2>7. AnsweredWith(t, new)
    BY <1>1, <1>2, <1>8, <2>3, <2>4, <2>5, <2>6 DEF AnsweredWith
  <2> QED BY <2>7, AnswerFollows
<1>9. CASE Fail(t) /\ UNCHANGED <<airline, seen>>
  <2>1. \A p \in Pnrs : ~Writing(t, p)
    BY <1>1, NobodyWrites
  <2> QED BY <1>1, <1>9, <2>1, FailFollows
<1>10. CASE /\ Modifiable(airline[ref])
            /\ airline' = [airline EXCEPT ![ref] = Updated(airline[ref], change)]
            /\ seen' = [seen EXCEPT ![key] = ref]
            /\ request' = [request EXCEPT ![t].at = "commit",
                 ![t].new = Modified(old, change, Updated(airline[ref], change))]
  <2>1. PICK answer \in AirlineBookings :
          answer = Updated(airline[ref], change) /\ answer.status # "CANCELLED"
    BY <1>3, <1>10, UpdatedType
  <2>2. PICK new : new = Modified(old, change, answer)
    OBVIOUS
  <2>3. /\ request' = [request EXCEPT ![t].at = "commit", ![t].new = new]
        /\ airline' = [airline EXCEPT ![ref] = answer]
    BY <1>10, <2>1, <2>2
  <2>4. airline'[ref] = answer /\ \A other \in Refs \ {ref} : airline'[other] = airline[other]
    BY <2>3 DEF IInv, TypeOK
  <2>5. pnr \notin overlapped => Agrees(new, airline'[ref])
    <3> SUFFICES ASSUME pnr \notin overlapped
                 PROVE  Agrees(new, answer)
      BY <2>4
    <3>1. old.passengers # {}
      BY <1>5 DEF Agrees
    <3> QED BY <1>6, <2>1, <2>2, <3>1
  <2>6. ChangesAreSeen'
    <3>1. \A other \in ModifyKeys : seen'[other] = IF other = key THEN ref ELSE seen[other]
      BY <1>10 DEF IInv, TypeOK
    <3> SUFFICES ASSUME NEW other \in ModifyKeys, seen'[other] # None
                 PROVE  rows[other[2]] # None /\ rows[other[2]].ref = seen'[other]
      BY <1>1 DEF ChangesAreSeen
    <3>2. CASE other = key
      BY <1>3, <1>4, <3>1, <3>2
    <3>3. CASE other # key
      BY <3>1, <3>3 DEF RowsFollow, ChangesAreSeen
    <3> QED BY <3>2, <3>3
  <2>7. new.passports \subseteq old.passports
    BY <1>7, <2>2
  <2>8. AnsweredWith(t, new)
    BY <1>1, <1>2, <2>3, <2>4, <2>5, <2>6, <2>7 DEF AnsweredWith
  <2> QED BY <2>8, AnswerFollows
<1> QED BY <1>2, <1>8, <1>9, <1>10 DEF ModifyCall

LEMMA CancelCallFollows ==
  ASSUME IInv, RowsFollow, NEW t \in Threads, CancelCall(t)
  PROVE  RowsFollow'
<1>1. request[t].at \in Calls /\ UNCHANGED <<rows, overlapped, seen>>
  BY DEF CancelCall, Calls
<1>2. PICK old \in Rows, ref \in Refs, pnr \in Pnrs :
        old = request[t].old /\ ref = old.ref /\ pnr = request[t].pnr
  BY <1>1, Asking
<1>3. airline[ref] \in AirlineBookings
  BY <1>1, <1>2, Asking
<1>4. PICK booking : booking = [airline[ref] EXCEPT !.status = "CANCELLED"]
  OBVIOUS
<1>5. PICK new : new = [old EXCEPT !.status = "CANCELLED"]
  OBVIOUS
<1>6. /\ airline' = [airline EXCEPT ![ref] = booking]
      /\ request' = [request EXCEPT ![t].at = "commit", ![t].new = new]
  BY <1>2, <1>4, <1>5 DEF CancelCall
<1>7. /\ booking.flight = airline[ref].flight /\ booking.price = airline[ref].price
      /\ booking.contact = airline[ref].contact /\ booking.status = "CANCELLED"
  BY <1>3, <1>4 DEF AirlineBookings
<1>8. /\ new.flight = old.flight /\ new.price = old.price /\ new.contact = old.contact
      /\ new.status = "CANCELLED" /\ new.passengers = old.passengers
      /\ new.passports = old.passports
  BY <1>5 DEF Rows
<1>9. airline'[ref] = booking /\ \A other \in Refs \ {ref} : airline'[other] = airline[other]
  BY <1>6 DEF IInv, TypeOK
<1>10. pnr \notin overlapped => Agrees(new, airline'[ref])
  <2> SUFFICES ASSUME pnr \notin overlapped
               PROVE  Agrees(new, booking)
    BY <1>9
  <2>1. Agrees(old, airline[ref])
    BY <1>1, <1>2, CallAgrees
  <2> QED BY <1>7, <1>8, <2>1 DEF Agrees
<1>11. ChangesAreSeen'
  BY <1>1 DEF RowsFollow, ChangesAreSeen
<1>12. AnsweredWith(t, new)
  BY <1>1, <1>2, <1>6, <1>8, <1>9, <1>10, <1>11 DEF AnsweredWith
<1> QED BY <1>12, AnswerFollows

(* A passenger is added or removed at the airline, which answers with the  *)
(* new price.                                                              *)
LEMMA ManifestFollows ==
  ASSUME IInv, RowsFollow, NEW t \in Threads, request[t].at \in Calls,
         NEW old \in Rows, NEW ref \in Refs, old = request[t].old, ref = old.ref,
         NEW manifest, NEW booking, NEW new \in Rows,
         booking = WithManifest(airline[ref], manifest),
         airline' = [airline EXCEPT ![ref] = booking],
         request' = [request EXCEPT ![t].at = "commit", ![t].new = new],
         UNCHANGED <<rows, overlapped, seen>>,
         new.flight = old.flight /\ new.contact = old.contact /\ new.status = old.status,
         new.price = booking.price, new.passports \subseteq old.passports,
         old.passengers # {} => new.passengers # {}
  PROVE  RowsFollow'
<1>1. airline[ref] \in AirlineBookings
  BY Asking
<1>2. /\ booking.flight = airline[ref].flight /\ booking.contact = airline[ref].contact
      /\ booking.status = airline[ref].status
  BY <1>1 DEF WithManifest, AirlineBookings
<1>3. airline'[ref] = booking /\ \A other \in Refs \ {ref} : airline'[other] = airline[other]
  BY DEF IInv, TypeOK
<1>4. request[t].pnr \notin overlapped => Agrees(new, airline'[ref])
  <2> SUFFICES ASSUME request[t].pnr \notin overlapped
               PROVE  Agrees(new, booking)
    BY <1>3
  <2>1. Agrees(old, airline[ref])
    BY CallAgrees
  <2> QED BY <1>2, <2>1 DEF Agrees
<1>5. ChangesAreSeen'
  BY DEF RowsFollow, ChangesAreSeen
<1>6. AnsweredWith(t, new)
  BY <1>3, <1>4, <1>5 DEF AnsweredWith
<1> QED BY <1>6, AnswerFollows

LEMMA AddCallFollows ==
  ASSUME IInv, RowsFollow, NEW t \in Threads, AddCall(t)
  PROVE  RowsFollow'
<1>1. request[t].at \in Calls /\ UNCHANGED <<rows, overlapped, seen>>
  BY DEF AddCall, Calls
<1>2. PICK old \in Rows, ref \in Refs : old = request[t].old /\ ref = old.ref
  BY <1>1, Asking
<1>3. airline[ref] \in AirlineBookings
  BY <1>1, <1>2, Asking
<1>4. PICK x \in Added : x = (CHOOSE y \in Added : ~InUse(y))
  BY DEF AddCall
<1>5. PICK manifest \in SUBSET People : manifest = airline[ref].manifest \cup {x}
  BY <1>3 DEF AirlineBookings, People
<1>6. PICK booking \in AirlineBookings : booking = WithManifest(airline[ref], manifest)
  BY <1>3, WithManifestType
<1>7. PICK new \in Rows :
        new = [old EXCEPT !.passengers = @ \cup {x}, !.price = booking.price]
  BY DEF Rows, AirlineBookings, People
<1>8. /\ new.flight = old.flight /\ new.contact = old.contact /\ new.status = old.status
      /\ new.price = booking.price /\ new.passports = old.passports
      /\ new.passengers = old.passengers \cup {x}
  BY <1>7 DEF Rows
<1>9. airline' = [airline EXCEPT ![ref] = booking]
  BY <1>2, <1>4, <1>5, <1>6 DEF AddCall
<1>10. request' = [request EXCEPT ![t].at = "commit", ![t].new = new]
  BY <1>2, <1>4, <1>5, <1>6, <1>7 DEF AddCall
<1>11. new.passports \subseteq old.passports /\ new.passengers # {}
  BY <1>8
<1> QED BY <1>1, <1>2, <1>6, <1>8, <1>9, <1>10, <1>11, ManifestFollows

LEMMA RemoveCallFollows ==
  ASSUME IInv, RowsFollow, NEW t \in Threads, RemoveCall(t)
  PROVE  RowsFollow'
<1>1. /\ request[t].at \in Calls /\ request[t].at = "remove_call"
      /\ UNCHANGED <<rows, overlapped, seen>>
  BY DEF RemoveCall, Calls
<1>2. PICK old \in Rows, ref \in Refs, pnr \in Pnrs :
        old = request[t].old /\ ref = old.ref /\ pnr = request[t].pnr
  BY <1>1, Asking
<1>3. airline[ref] \in AirlineBookings
  BY <1>1, <1>2, Asking
<1>4. PICK x : x = request[t].arg /\ old.passengers \ {x} # {}
  BY <1>1, <1>2 DEF RowsFollow, ChecksFit
<1>5. CASE request' = [request EXCEPT ![t] = Held(pnr, old)] /\ UNCHANGED airline
  <2>1. InFlight(t) /\ request[t].at # "commit"
    BY <1>1, Asking
  <2> QED BY <1>1, <1>2, <1>5, <2>1, HeldFollows
<1>6. CASE /\ airline' = [airline EXCEPT ![ref] =
                            WithManifest(airline[ref], airline[ref].manifest \ {x})]
           /\ request' = [request EXCEPT ![t].at = "commit",
                ![t].new = [old EXCEPT !.passengers = @ \ {x}, !.passports = @ \ {x},
                  !.price = WithManifest(airline[ref], airline[ref].manifest \ {x}).price]]
  <2>1. PICK manifest \in SUBSET People : manifest = airline[ref].manifest \ {x}
    BY <1>3 DEF AirlineBookings
  <2>2. PICK booking \in AirlineBookings : booking = WithManifest(airline[ref], manifest)
    BY <1>3, WithManifestType
  <2>3. PICK new \in Rows :
          new = [old EXCEPT !.passengers = @ \ {x}, !.passports = @ \ {x},
                            !.price = booking.price]
    BY DEF Rows, AirlineBookings
  <2>4. /\ new.flight = old.flight /\ new.contact = old.contact /\ new.status = old.status
        /\ new.price = booking.price /\ new.passports = old.passports \ {x}
        /\ new.passengers = old.passengers \ {x}
    BY <2>3 DEF Rows
  <2>5. airline' = [airline EXCEPT ![ref] = booking]
    BY <1>6, <2>1, <2>2
  <2>6. request' = [request EXCEPT ![t].at = "commit", ![t].new = new]
    BY <1>6, <2>1, <2>2, <2>3
  <2>7. new.passports \subseteq old.passports /\ new.passengers # {}
    BY <1>4, <2>4
  <2> QED BY <1>1, <1>2, <2>2, <2>4, <2>5, <2>6, <2>7, ManifestFollows
<1> QED BY <1>2, <1>4, <1>5, <1>6 DEF RemoveCall

(* While no commit has failed, the airline does not know the key of a      *)
(* booking that is still to be made.                                       *)
LEMMA StillUnknown ==
  ASSUME IInv, faults = 0, NEW t \in Threads, request[t].at = "create_call"
  PROVE  ~Known(request[t].key)
<1> SUFFICES ASSUME Known(request[t].key)
             PROVE  FALSE
  OBVIOUS
<1>1. PICK key \in CreateKeys : key = request[t].key
  BY DEF IInv, Threaded, Staged
<1>2. PICK ref \in Refs : ref = seen[key] /\ airline[ref] # None /\ airline[ref].key = key
  BY <1>1 DEF Known, IInv, SeenIsBooked, TypeOK
<1>3. Making(t) /\ Creating(t)
  BY DEF Making, Creating
<1>4. ~\E pnr \in Pnrs : rows[pnr] # None /\ rows[pnr].ref = ref
  BY <1>1, <1>2, <1>3 DEF IInv, KeysAreHeld
<1>5. PICK u \in Threads : /\ request[u].at = "commit" /\ request[u].old = None
                           /\ request[u].new.ref = ref
  BY <1>2, <1>4 DEF IInv, NoneIsLost
<1>6. Creating(u) /\ request[u].key = key
  BY <1>2, <1>5 DEF Creating, Making, IInv, Threaded, HoldsNew
<1>7. u = t
  BY <1>1, <1>3, <1>6 DEF IInv, KeysAreHeld
<1> QED BY <1>5, <1>7

LEMMA CreateCallFollows ==
  ASSUME IInv, RowsFollow, faults = 0, NEW t \in Threads, CreateCall(t)
  PROVE  RowsFollow'
<1>1. /\ request[t].at = "create_call" /\ InFlight(t) /\ request[t].old = None
      /\ UNCHANGED <<rows, overlapped>>
  BY DEF CreateCall, InFlight, IInv, Threaded, Staged
<1>2. PICK key \in CreateKeys : key = request[t].key /\ ~Known(key)
  BY <1>1, StillUnknown DEF IInv, Threaded, Staged
<1>3. \A p \in Pnrs : ~Writing(t, p)
  BY <1>1, NobodyWrites
<1> DEFINE made == [key |-> key, status |-> "CONFIRMED", flight |-> Quote.flight,
                    price |-> QuoteTotal(FlightPrice[Quote.flight], Quote.adults,
                                         Quote.children, 0),
                    contact |-> "given", manifest |-> Party]
           free == CHOOSE ref \in Refs : airline[ref] = None
<1>4. CASE /\ \E ref \in Refs : airline[ref] = None
           /\ airline' = [airline EXCEPT ![free] = made]
           /\ seen' = [seen EXCEPT ![key] = free]
           /\ request' = [request EXCEPT ![t].at = "commit", ![t].new = RowOf(free, made)]
  <2>1. PICK fresh \in Refs : fresh = free /\ airline[fresh] = None
    BY <1>4
  <2>2. PICK booking : booking = made
    OBVIOUS
  <2>3. PICK new : new = RowOf(fresh, booking)
    OBVIOUS
  <2>4. /\ airline' = [airline EXCEPT ![fresh] = booking]
        /\ seen' = [seen EXCEPT ![key] = fresh]
        /\ request' = [request EXCEPT ![t].at = "commit", ![t].new = new]
    BY <1>4, <2>1, <2>2, <2>3
  <2>5. booking.manifest # {} /\ booking.status = "CONFIRMED"
    BY <2>2, BookingsAssumption DEF BookingsAssumption
  <2> HIDE DEF free, made
  <2>6. new.ref = fresh /\ Agrees(new, booking)
    BY <2>3, <2>5 DEF RowOf, Agrees
  <2>7. airline'[fresh] = booking /\ \A ref \in Refs \ {fresh} : airline'[ref] = airline[ref]
    BY <2>4 DEF IInv, TypeOK
  <2>8. /\ request'[t].at = "commit" /\ request'[t].new = new
        /\ request'[t].old = request[t].old /\ request'[t].pnr = request[t].pnr
        /\ request'[t].arg = request[t].arg
        /\ request[t] # Idle
        /\ \A u \in Threads \ {t} : request'[u] = request[u]
    BY <1>1, <2>4, Answering
  <2>9. ChecksFit(t)' /\ ReadsOne(t) /\ \A p \in Pnrs : ~Writing(t, p)'
    BY <1>1, <2>8 DEF ChecksFit, ReadsOne, Works, Writing
  <2>10. ChangesAreSeen'
    <3>1. \A other \in ModifyKeys : seen'[other] = seen[other]
      BY <1>2, <2>4, BookingsAssumption DEF BookingsAssumption, IInv, TypeOK
    <3> QED BY <1>1, <3>1 DEF RowsFollow, ChangesAreSeen
  <2>11. AirlineStands(t)
    BY <2>1, <2>7 DEF AirlineStands, Stands
  <2>12. Agrees(request'[t].new, airline'[request'[t].new.ref])
    BY <2>6, <2>7, <2>8
  <2>13. RowsKept(t)
    BY <1>1, <1>3, <2>8, <2>9, <2>10, <2>11, <2>12 DEF RowsKept
  <2> QED BY <2>13, RowsStand
<1>5. CASE Fail(t) /\ UNCHANGED <<airline, seen>>
  BY <1>1, <1>3, <1>5, FailFollows
<1> QED BY <1>2, <1>4, <1>5 DEF CreateCall

-----------------------------------------------------------------------------
(* The commit, and what follows.                                           *)

(* A new row is the airline's booking, and nobody works on it.             *)
LEMMA InsertFollows ==
  ASSUME IInv, RowsFollow, NEW t \in Threads, Insert(t)
  PROVE  RowsFollow'
<1>1. /\ request[t].at = "commit" /\ request[t].old = None /\ InFlight(t)
      /\ UNCHANGED <<airline, seen, overlapped>>
  BY DEF Insert, InFlight
<1>2. PICK new \in Rows : new = request[t].new
  BY <1>1 DEF IInv, Threaded, Staged
<1>3. PICK fresh \in Pnrs :
        /\ rows[fresh] = None
        /\ rows' = [rows EXCEPT ![fresh] = new]
        /\ request' = [request EXCEPT ![t].at = "finish", ![t].pnr = fresh, ![t].old = new]
  BY <1>2 DEF Insert
<1>4. rows'[fresh] = new /\ \A p \in Pnrs \ {fresh} : rows'[p] = rows[p]
  BY <1>3 DEF IInv, TypeOK
<1> DEFINE r == [request[t] EXCEPT !.at = "finish", !.pnr = fresh, !.old = new]
<1>5. r.at = "finish" /\ r.pnr = fresh /\ r.old = new
  <2>1. request[t] \in Requests
    BY <1>1, RequestKind DEF IInv
  <2> QED BY <2>1 DEF Requests
<1>6. request' = [request EXCEPT ![t] = r]
  BY <1>3 DEF IInv, TypeOK
<1> HIDE DEF r
<1>7. request'[t] = r /\ \A u \in Threads \ {t} : request'[u] = request[u]
  BY <1>6 DEF IInv, TypeOK
<1>8. \A p \in Pnrs : /\ ~Writing(t, p) /\ ~Writing(t, p)' /\ ~Works(t, p)
                      /\ Works(t, p)' => p = fresh
  BY <1>1, <1>5, <1>7 DEF Writing, Works, On
<1>9. \A u \in Threads \ {t}, p \in Pnrs : /\ Writing(u, p)' <=> Writing(u, p)
                                           /\ Works(u, p)' <=> Works(u, p)
  BY <1>7, OthersWork
<1>10. \A u \in Threads : ~Works(u, fresh)
  BY <1>3 DEF Works, On, IInv, Threaded, HoldsOld
<1>11. \A u \in Threads : ChecksFit(u)'
  <2> SUFFICES ASSUME NEW u \in Threads
               PROVE  ChecksFit(u)'
    OBVIOUS
  <2>1. CASE u = t
    BY <1>5, <1>7, <2>1 DEF ChecksFit
  <2>2. CASE u # t
    BY <1>7, <2>2 DEF RowsFollow, ChecksFit, Same
  <2> QED BY <2>1, <2>2
<1>12. ChangesAreSeen'
  <2> SUFFICES ASSUME NEW key \in ModifyKeys, seen[key] # None
               PROVE  rows'[key[2]] # None /\ rows'[key[2]].ref = seen[key]
    BY <1>1 DEF ChangesAreSeen
  <2>1. rows[key[2]] # None /\ rows[key[2]].ref = seen[key]
    BY DEF RowsFollow, ChangesAreSeen
  <2>2. key[2] \in Pnrs
    BY DEF ModifyKeys
  <2> QED BY <1>3, <1>4, <2>1, <2>2
<1>13. NewRowsAgree'
  <2> SUFFICES ASSUME NEW u \in Threads, request'[u].at = "commit", request'[u].old = None
               PROVE  Agrees(request'[u].new, airline[request'[u].new.ref])
    BY <1>1 DEF NewRowsAgree, Agrees
  <2>1. u # t
    BY <1>5, <1>7
  <2> QED BY <1>7, <2>1 DEF RowsFollow, NewRowsAgree
<1>14. WorkedAlone'
  <2> SUFFICES ASSUME NEW p \in Pnrs \ overlapped, NEW u \in Threads, NEW v \in Threads,
                      Works(u, p)', Works(v, p)'
               PROVE  u = v
    BY <1>1 DEF WorkedAlone
  <2>1. CASE p = fresh
    BY <1>9, <1>10, <2>1
  <2>2. CASE p # fresh
    BY <1>8, <1>9, <2>2 DEF RowsFollow, WorkedAlone
  <2> QED BY <2>1, <2>2
<1>15. ReadsHold'
  <2> SUFFICES ASSUME NEW p \in Pnrs \ overlapped, NEW u \in Threads, rows'[p] # None,
                      Works(u, p)'
               PROVE  Same(request'[u].old, rows'[p])
    BY <1>1 DEF ReadsHold, Same
  <2>1. CASE u = t
    BY <1>4, <1>5, <1>7, <1>8, <2>1 DEF Same
  <2>2. CASE u # t
    <3>1. Works(u, p) /\ p # fresh
      BY <1>9, <1>10, <2>2
    <3> QED BY <1>4, <1>7, <2>2, <3>1 DEF RowsFollow, ReadsHold
  <2> QED BY <2>1, <2>2
<1>16. WritesAgree'
  <2> SUFFICES ASSUME NEW p \in Pnrs \ overlapped, NEW u \in Threads, rows'[p] # None,
                      Writing(u, p)'
               PROVE  Agrees(request'[u].new, airline[rows'[p].ref])
    BY <1>1 DEF WritesAgree, BookingOf, Agrees
  <2>1. u # t /\ Writing(u, p)
    BY <1>8, <1>9
  <2>2. p # fresh
    BY <1>10, <2>1, WritersWork
  <2> QED BY <1>4, <1>7, <2>1, <2>2 DEF RowsFollow, WritesAgree, BookingOf
<1>17. RowsAgree'
  <2> SUFFICES ASSUME NEW p \in Pnrs \ overlapped, rows'[p] # None,
                      \A u \in Threads : ~Writing(u, p)'
               PROVE  Agrees(rows'[p], airline[rows'[p].ref])
    BY <1>1 DEF RowsAgree, BookingOf, Agrees
  <2>1. CASE p = fresh
    BY <1>1, <1>2, <1>4, <2>1 DEF RowsFollow, NewRowsAgree
  <2>2. CASE p # fresh
    <3>1. \A u \in Threads : ~Writing(u, p)
      BY <1>8, <1>9
    <3> QED BY <1>4, <2>2, <3>1 DEF RowsFollow, RowsAgree, BookingOf
  <2> QED BY <2>1, <2>2
<1> QED BY <1>11, <1>12, <1>13, <1>14, <1>15, <1>16, <1>17 DEF RowsFollow

LEMMA WrittenAlone ==
  ASSUME NEW current \in Rows, NEW old \in Rows, NEW new \in Rows, Same(old, current)
  PROVE  Same(new, Written(current, old, new))
<1>1. Members(current.passengers, old.passengers, new.passengers) = new.passengers
  <2>1. current.passengers = old.passengers
    BY DEF Same
  <2> QED BY <2>1 DEF Members
<1>2. /\ Column(current.status, old.status, new.status) = new.status
      /\ Column(current.flight, old.flight, new.flight) = new.flight
      /\ Column(current.price, old.price, new.price) = new.price
      /\ Column(current.contact, old.contact, new.contact) = new.contact
  BY DEF Column, Same
<1>3. PICK row : row = Written(current, old, new)
  OBVIOUS
<1>4. /\ row.status = Column(current.status, old.status, new.status)
      /\ row.flight = Column(current.flight, old.flight, new.flight)
      /\ row.price = Column(current.price, old.price, new.price)
      /\ row.contact = Column(current.contact, old.contact, new.contact)
      /\ row.passengers = Members(current.passengers, old.passengers, new.passengers)
  BY <1>3 DEF Written, Rows
<1> QED BY <1>1, <1>2, <1>3, <1>4 DEF Same

(* A commit of the only request that works on a booking writes the row as  *)
(* it saw it, and that is what follows the airline.                        *)
LEMMA WrittenFollows ==
  ASSUME IInv, RowsFollow, NEW t \in Threads,
         NEW pnr \in Pnrs, NEW old \in Rows, NEW new \in Rows,
         request[t].at = "commit", old = request[t].old, new = request[t].new,
         pnr = request[t].pnr, rows[pnr] # None,
         UNCHANGED <<airline, seen, overlapped>>,
         rows' = [rows EXCEPT ![pnr] = Written(rows[pnr], old, new)],
         \A u \in Threads \ {t} : request'[u] = request[u],
         request'[t].at \in {"finish", "held"},
         request'[t].pnr = pnr, request'[t].old = new
  PROVE  RowsFollow'
<1>1. rows[pnr] \in Rows /\ old # None /\ new # None /\ request[t] # Idle
  BY Booked, NoneAssumption DEF NoneAssumption, Idle
<1>2. PICK row : row = Written(rows[pnr], old, new) /\ row.ref = rows[pnr].ref
  BY <1>1, WrittenType
<1>3. rows'[pnr] = row /\ \A p \in Pnrs \ {pnr} : rows'[p] = rows[p]
  BY <1>2 DEF IInv, TypeOK
<1>4. Writing(t, pnr) /\ Works(t, pnr)
  BY <1>1 DEF Writing, Works, On
<1>5. \A p \in Pnrs : ~Writing(t, p)' /\ (Works(t, p)' => p = pnr)
  BY DEF Writing, Works, On
<1>6. \A u \in Threads \ {t}, p \in Pnrs : /\ Writing(u, p)' <=> Writing(u, p)
                                           /\ Works(u, p)' <=> Works(u, p)
  BY OthersWork
<1>7. ASSUME pnr \notin overlapped
      PROVE  /\ Same(new, row) /\ Agrees(row, airline[row.ref])
             /\ \A u \in Threads \ {t} : ~Works(u, pnr) /\ ~Writing(u, pnr)
  <2>1. Same(old, rows[pnr])
    BY <1>4, <1>7 DEF RowsFollow, ReadsHold
  <2>2. Same(new, row)
    BY <1>1, <1>2, <2>1, WrittenAlone
  <2>3. Agrees(new, airline[row.ref])
    BY <1>2, <1>4, <1>7 DEF RowsFollow, WritesAgree, BookingOf
  <2>4. \A u \in Threads \ {t} : ~Works(u, pnr)
    BY <1>4, <1>7 DEF RowsFollow, WorkedAlone
  <2> QED BY <2>2, <2>3, <2>4, WritersWork DEF Agrees, Same
<1>8. \A p \in Pnrs : rows'[p] # None => rows[p] # None /\ rows'[p].ref = rows[p].ref
  BY <1>2, <1>3
<1>9. \A u \in Threads : ChecksFit(u)'
  <2> SUFFICES ASSUME NEW u \in Threads
               PROVE  ChecksFit(u)'
    OBVIOUS
  <2>1. CASE u = t
    BY <2>1 DEF ChecksFit
  <2>2. CASE u # t
    BY <2>2 DEF RowsFollow, ChecksFit, Same
  <2> QED BY <2>1, <2>2
<1>10. ChangesAreSeen'
  <2> SUFFICES ASSUME NEW key \in ModifyKeys, seen[key] # None
               PROVE  rows'[key[2]] # None /\ rows'[key[2]].ref = seen[key]
    BY DEF ChangesAreSeen
  <2>1. rows[key[2]] # None /\ rows[key[2]].ref = seen[key]
    BY DEF RowsFollow, ChangesAreSeen
  <2>2. key[2] \in Pnrs
    BY DEF ModifyKeys
  <2>3. row # None
    BY <1>1, <1>2, WrittenType, NoneAssumption DEF NoneAssumption
  <2> QED BY <1>2, <1>3, <2>1, <2>2, <2>3
<1>11. NewRowsAgree'
  <2> SUFFICES ASSUME NEW u \in Threads, request'[u].at = "commit", request'[u].old = None
               PROVE  Agrees(request'[u].new, airline[request'[u].new.ref])
    BY DEF NewRowsAgree, Agrees
  <2> QED BY DEF RowsFollow, NewRowsAgree
<1>12. WorkedAlone'
  <2> SUFFICES ASSUME NEW p \in Pnrs \ overlapped, NEW u \in Threads, NEW v \in Threads,
                      Works(u, p)', Works(v, p)'
               PROVE  u = v
    BY DEF WorkedAlone
  <2>1. Works(u, p) /\ Works(v, p)
    BY <1>4, <1>5, <1>6
  <2> QED BY <2>1 DEF RowsFollow, WorkedAlone
<1>13. ReadsHold'
  <2> SUFFICES ASSUME NEW p \in Pnrs \ overlapped, NEW u \in Threads, rows'[p] # None,
                      Works(u, p)'
               PROVE  Same(request'[u].old, rows'[p])
    BY DEF ReadsHold, Same
  <2>1. CASE u = t
    BY <1>3, <1>5, <1>7, <2>1
  <2>2. CASE u # t
    <3>1. Works(u, p) /\ p # pnr
      BY <1>6, <1>7, <2>2
    <3> QED BY <1>3, <2>2, <3>1 DEF RowsFollow, ReadsHold
  <2> QED BY <2>1, <2>2
<1>14. WritesAgree'
  <2> SUFFICES ASSUME NEW p \in Pnrs \ overlapped, NEW u \in Threads, rows'[p] # None,
                      Writing(u, p)'
               PROVE  Agrees(request'[u].new, BookingOf(p)')
    BY DEF WritesAgree, Agrees
  <2>1. u # t /\ Writing(u, p)
    BY <1>5, <1>6
  <2>2. Agrees(request[u].new, BookingOf(p)) /\ BookingOf(p)' = BookingOf(p)
    BY <1>8, <2>1 DEF RowsFollow, WritesAgree, BookingOf
  <2> QED BY <2>1, <2>2
<1>15. RowsAgree'
  <2> SUFFICES ASSUME NEW p \in Pnrs \ overlapped, rows'[p] # None,
                      \A u \in Threads : ~Writing(u, p)'
               PROVE  Agrees(rows'[p], BookingOf(p)')
    BY DEF RowsAgree, Agrees
  <2>1. CASE p = pnr
    BY <1>3, <1>7, <2>1 DEF BookingOf
  <2>2. CASE p # pnr
    <3>1. ~Writing(t, p)
      BY <2>2 DEF Writing
    <3>2. \A u \in Threads : ~Writing(u, p)
      BY <1>6, <3>1
    <3> QED BY <1>3, <2>2, <3>2 DEF RowsFollow, RowsAgree, BookingOf
  <2> QED BY <2>1, <2>2
<1> QED BY <1>9, <1>10, <1>11, <1>12, <1>13, <1>14, <1>15 DEF RowsFollow

LEMMA UpdateFollows ==
  ASSUME IInv, RowsFollow, NEW t \in Threads, Update(t)
  PROVE  RowsFollow'
<1> DEFINE r == request[t]
<1>1. /\ r.at = "commit" /\ r.old # None /\ r # Idle /\ InFlight(t)
      /\ UNCHANGED <<airline, seen, overlapped>>
  BY DEF Update, InFlight, Idle
<1>2. PICK pnr \in Pnrs, old \in Rows, new \in Rows :
        pnr = r.pnr /\ old = r.old /\ new = r.new
  BY <1>1 DEF IInv, Threaded, Staged
<1>3. rows[pnr] # None
  BY <1>1, <1>2 DEF IInv, Threaded, HoldsOld
<1>4. CASE Stale(r)
  <2>1. Fail(t) /\ UNCHANGED rows
    BY <1>4 DEF Update
  <2>2. Same(new, old)
    BY <1>1, <1>2, <1>4 DEF Stale, RowsFollow, ChecksFit
  <2> QED BY <1>1, <1>2, <2>1, <2>2, FailFollows
<1>5. CASE ~Stale(r)
  <2>1. rows' = [rows EXCEPT ![pnr] = Written(rows[pnr], old, new)]
    BY <1>2, <1>5 DEF Update
  <2>2. PICK after :
          /\ request' = [request EXCEPT ![t] = after]
          /\ after.at \in {"finish", "held"} /\ after.pnr = pnr /\ after.old = new
    <3>1. CASE r.key \in CancelKeys
      <4>1. r \in Requests
        BY <1>1, RequestKind DEF IInv
      <4> DEFINE after == [r EXCEPT !.at = "finish", !.old = r.new]
      <4>2. after.at = "finish" /\ after.pnr = pnr /\ after.old = new
        BY <1>2, <4>1 DEF Requests
      <4>3. request' = [request EXCEPT ![t] = after]
        BY <1>5, <3>1 DEF Update
      <4> QED BY <4>2, <4>3
    <3>2. CASE r.key \notin CancelKeys
      <4>1. request' = [request EXCEPT ![t] = Held(pnr, new)]
        BY <1>2, <1>5, <3>2 DEF Update
      <4>2. Held(pnr, new).at = "held" /\ Held(pnr, new).pnr = pnr /\ Held(pnr, new).old = new
        BY DEF Held
      <4> QED BY <4>1, <4>2
    <3> QED BY <3>1, <3>2
  <2>3. request'[t] = after /\ \A u \in Threads \ {t} : request'[u] = request[u]
    BY <2>2 DEF IInv, TypeOK
  <2>4. /\ request'[t].at \in {"finish", "held"}
        /\ request'[t].pnr = pnr /\ request'[t].old = new
    BY <2>2, <2>3
  <2> QED BY <1>1, <1>2, <1>3, <2>1, <2>3, <2>4, WrittenFollows
<1> QED BY <1>4, <1>5

LEMMA FinishFollows ==
  ASSUME IInv, RowsFollow, NEW t \in Threads, Finish(t)
  PROVE  RowsFollow'
<1>1. /\ request[t].at = "finish" /\ UNCHANGED <<rows, airline, seen, overlapped>>
      /\ request' = [request EXCEPT ![t] = Held(request[t].pnr, request[t].old)]
  BY DEF Finish
<1>2. PICK pnr \in Pnrs, old \in Rows : pnr = request[t].pnr /\ old = request[t].old
  BY <1>1 DEF IInv, Threaded, Staged
<1>3. InFlight(t) /\ request[t].at # "commit"
  BY <1>1 DEF InFlight
<1> QED BY <1>1, <1>2, <1>3, HeldFollows

LEMMA CloseFollows ==
  ASSUME IInv, RowsFollow, NEW t \in Threads, Close(t)
  PROVE  RowsFollow'
<1>1. /\ request[t].at = "held" /\ request' = [request EXCEPT ![t] = Idle]
      /\ UNCHANGED <<rows, airline, seen, overlapped>>
  BY DEF Close
<1>2. request'[t] = Idle /\ \A u \in Threads \ {t} : request'[u] = request[u]
  BY <1>1 DEF IInv, TypeOK
<1>3. ReadsOne(t) /\ request'[t].at \notin {"modify_call", "remove_call", "commit"}
  BY <1>2 DEF ReadsOne, Works, On, Idle
<1>4. \A p \in Pnrs : ~Writing(t, p)
  BY <1>1, NobodyWrites
<1> QED BY <1>1, <1>2, <1>3, <1>4, QuietFollows

-----------------------------------------------------------------------------

LEMMA RowsAtFirst == Init => RowsFollow
<1> SUFFICES ASSUME Init PROVE RowsFollow
  OBVIOUS
<1>1. \A t \in Threads : request[t] = Idle /\ request[t].at = "idle"
  BY DEF Init, Idle
<1>2. \A t \in Threads : ChecksFit(t)
  BY <1>1 DEF ChecksFit
<1>3. \A t \in Threads, pnr \in Pnrs : ~Works(t, pnr)
  BY <1>1 DEF Works, On
<1>4. \A pnr \in Pnrs : rows[pnr] = None
  BY DEF Init
<1>5. ChangesAreSeen
  BY DEF Init, ChangesAreSeen
<1>6. NewRowsAgree
  BY <1>1 DEF NewRowsAgree
<1>7. WorkedAlone /\ ReadsHold
  BY <1>3 DEF WorkedAlone, ReadsHold
<1>8. WritesAgree /\ RowsAgree
  BY <1>4 DEF WritesAgree, RowsAgree
<1> QED BY <1>2, <1>5, <1>6, <1>7, <1>8 DEF RowsFollow

LEMMA RowsStep ==
  ASSUME IInv, RowsFollow, [Next]_vars, faults = 0, \A t \in Threads : ~CommitFails(t)
  PROVE  RowsFollow'
<1>1. ASSUME NEW t \in Threads, Proceed(t)
      PROVE  RowsFollow'
  <2>1. CreateCall(t) => RowsFollow'
    BY CreateCallFollows
  <2>2. ModifyCall(t) \/ CancelCall(t) => RowsFollow'
    BY ModifyCallFollows, CancelCallFollows
  <2>3. AddCall(t) \/ RemoveCall(t) => RowsFollow'
    BY AddCallFollows, RemoveCallFollows
  <2>4. Insert(t) \/ Update(t) \/ Finish(t) \/ Close(t) => RowsFollow'
    BY InsertFollows, UpdateFollows, FinishFollows, CloseFollows
  <2> QED BY <1>1, <2>1, <2>2, <2>3, <2>4 DEF Proceed
<1>2. CASE UNCHANGED vars
  <2>1. /\ UNCHANGED <<rows, airline, seen, request, overlapped>>
    BY <1>2 DEF vars
  <2>2. \A t \in Threads, pnr \in Pnrs : /\ Writing(t, pnr)' <=> Writing(t, pnr)
                                         /\ Works(t, pnr)' <=> Works(t, pnr)
    BY <2>1, OthersWork
  <2>3. \A t \in Threads : ChecksFit(t)'
    BY <2>1 DEF RowsFollow, ChecksFit, Same
  <2>4. ChangesAreSeen' /\ NewRowsAgree'
    BY <2>1 DEF RowsFollow, ChangesAreSeen, NewRowsAgree, Agrees
  <2>5. WorkedAlone' /\ ReadsHold'
    BY <2>1, <2>2 DEF RowsFollow, WorkedAlone, ReadsHold, Same
  <2>6. WritesAgree' /\ RowsAgree'
    BY <2>1, <2>2 DEF RowsFollow, WritesAgree, RowsAgree, BookingOf, Agrees
  <2> QED BY <2>3, <2>4, <2>5, <2>6 DEF RowsFollow
<1> QED BY <1>1, <1>2, ReadsFollow DEF Next

(* While no commit has failed and no two requests overlapped on a booking, *)
(* its row follows the airline, but for what the one request that works on *)
(* it is about to write.                                                   *)
THEOREM RowsInvariance == Spec => []FInv
<1>1. Init => FInv
  BY InitInvariant, RowsAtFirst DEF FInv
<1>2. FInv /\ [Next]_vars => FInv'
  <2> SUFFICES ASSUME FInv, [Next]_vars PROVE FInv'
    OBVIOUS
  <2>1. IInv'
    BY NextInvariant DEF FInv
  <2>2. ASSUME faults' = 0 PROVE RowsFollow'
    <3>1. faults \in Nat
      BY DEF FInv, IInv, TypeOK
    <3>2. faults = 0 /\ \A t \in Threads : ~CommitFails(t)
      BY <2>2, <3>1, FaultsStay
    <3> QED BY <3>2, RowsStep DEF FInv
  <2> QED BY <2>1, <2>2 DEF FInv
<1> QED BY <1>1, <1>2, PTL DEF Spec

(* booking_service.py, passenger_service.py: whatever the requests, as     *)
(* long as each booking is worked on by one at a time, a row at rest has   *)
(* the airline's flight, price and contact, is cancelled exactly if the    *)
(* airline has cancelled, and is never without a passenger.                *)
THEOREM RowsStayInLine == Spec => []RowFollowsAirline
<1>1. FInv => RowFollowsAirline
  <2> SUFFICES ASSUME FInv, NEW pnr \in Pnrs \ overlapped, rows[pnr] # None, Quiet(pnr),
                      faults = 0
               PROVE  Agrees(rows[pnr], BookingOf(pnr))
    BY DEF RowFollowsAirline, Agrees
  <2>1. \A t \in Threads : ~Writing(t, pnr)
    BY WritersWork DEF Quiet, Works
  <2> QED BY <2>1 DEF FInv, RowsFollow, RowsAgree
<1> QED BY RowsInvariance, <1>1, PTL
=============================================================================
