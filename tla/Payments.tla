------------------------------ MODULE Payments ------------------------------
(***************************************************************************)
(* Taking and returning the money of a booking: PaymentService             *)
(* (create_payment_session, refund_payment, apply_refund_outcome,          *)
(* handle_webhook_event) and CancellationService.cancel, over the          *)
(* database, the in-process IdempotencyStore, the payment provider and the *)
(* airline.                                                                *)
(*                                                                         *)
(* FastAPI runs each `def` route in a thread pool, so requests interleave  *)
(* at every database read, provider call and commit: a request is a record *)
(* with a program counter and the values it read, and each of those points *)
(* is an action.  The Stripe webhook is `async def` with a synchronous     *)
(* body: it holds the event loop from its first read to its answer, so at  *)
(* most one delivery is in progress (the variable hook).                   *)
(*                                                                         *)
(* A request refused before it changes anything is no step.  A row read by *)
(* a request is never re-read (the SQLAlchemy identity map keeps it) and a *)
(* commit writes only the columns whose value the request changed from     *)
(* what it had read: the operator Written.                                 *)
(***************************************************************************)
EXTENDS PaymentStates, Naturals, FiniteSets

CONSTANTS
  Bookings,
  CreateKeys,         \* idempotency keys of create_payment_session requests
  RefundKeys,         \* ... of staff refund_payment requests
  CancelKeys,         \* ... of cancel requests
  BookingOf,          \* the booking each key's request names
  AskedAmount,        \* the amount a refund request names, or Null
  Price,              \* booking.total_price
  RefundableAmounts,  \* what the airline may return of it on cancellation
  Reqs,               \* threads that serve requests
  MaxFaults,          \* bound: crashes, failed commits, lost provider answers
  Null

Keys == CreateKeys \cup RefundKeys \cup CancelKeys

ASSUME AmountsAssumption ==
  /\ Price \in Nat \ {0}
  /\ RefundableAmounts \subseteq 0..Price
  /\ AskedAmount \in [RefundKeys -> (1..Price) \cup {Null}]
  /\ Null \notin Nat

ASSUME FaultsAssumption == MaxFaults \in Nat

(* A Stripe event of the session created under key.  paid is the session's *)
(* payment_status at the time, which only "completed" leaves open.         *)
EventKinds ==
  {<<"completed", TRUE>>, <<"completed", FALSE>>, <<"expired", FALSE>>,
   <<"async_payment_succeeded", TRUE>>, <<"async_payment_failed", FALSE>>}

Event(key, kind) == [key |-> key, type |-> kind[1], paid |-> kind[2]]

Events == {Event(key, kind) : key \in CreateKeys, kind \in EventKinds}

(* An event's key in the store has the prefix "stripe_event:".             *)
ASSUME KeysAssumption ==
  /\ CreateKeys \cap (RefundKeys \cup CancelKeys) = {}
  /\ RefundKeys \cap CancelKeys = {}
  /\ Keys \cap Events = {}
  /\ BookingOf \in [Keys -> Bookings]
  /\ Null \notin Keys

VARIABLES
  booking,   \* booking -> [status, pay]: the two status columns
  payment,   \* create key -> its Payment row, or Null
  store,     \* IdempotencyStore: key or event -> state; lost in a crash
  session,   \* provider: create key -> Checkout Session and money returned
  refund,    \* provider: refund or cancel key -> the refund made under it
  airline,   \* airline: booking -> [cancelled, refundable]
  sent,      \* events the provider has emitted
  acked,     \* events answered with a 2xx: not redelivered, save duplicates
  req,       \* thread -> the request it serves
  hook,      \* the webhook delivery in progress
  faults     \* number of faults so far

vars == <<booking, payment, store, session, refund, airline, sent, acked,
          req, hook, faults>>

database == <<booking, payment>>
provider == <<session, refund, sent>>

-----------------------------------------------------------------------------
(* Rows, snapshots and types.                                              *)

Amounts == Nat

(* older holds the rows inserted before this one: created_at order.        *)
Rows == [status: PaymentSessionStatuses, refunded: Amounts \cup {Null},
         refundStatus: RefundStatuses \cup {Null}, older: SUBSET CreateKeys]

ASSUME NullAssumption == Null \notin Rows

NewRow(older) == [status |-> "PENDING", refunded |-> Null,
                  refundStatus |-> Null, older |-> older]

RefundedOf(row) == IF row.refunded = Null THEN 0 ELSE row.refunded

RowsOf(b) == {k \in CreateKeys : payment[k] # Null /\ BookingOf[k] = b}

(* PaymentRepository.get_open_for_booking, get_latest_for_booking.         *)
OpenRows(b) == {k \in RowsOf(b) : ~IsTerminal(payment[k].status)}

IsLatest(k, b) == k \in RowsOf(b) /\ \A j \in RowsOf(b) : k \notin payment[j].older

SessionStates == {"none", "open", "settling", "paid", "failed", "expired"}

StoreStates == {"absent", "in_progress", "completed"}

(* What a cancellation or a refund learned of its refund: none was tried   *)
(* or it raised, the fee absorbed it, or the provider's status.            *)
Outcomes == {"none", "absorbed"} \cup RefundStatuses

Pcs == {"idle",
        "create_begin", "create_call", "create_commit", "create_finish",
        "refund_begin", "refund_call", "refund_commit", "refund_finish",
        "cancel_call", "cancel_refund", "cancel_commit", "cancel_finish"}

CreatePcs == {"create_begin", "create_call", "create_commit", "create_finish"}
RefundPcs == {"refund_begin", "refund_call", "refund_commit", "refund_finish"}
CancelPcs == {"cancel_call", "cancel_refund", "cancel_commit", "cancel_finish"}

Requests == [pc: Pcs, key: Keys \cup {Null},
             pay: BookingPayStatuses,           \* booking.payment_status as read
             target: CreateKeys \cup {Null},    \* the Payment read ...
             row: Rows \cup {Null},             \* ... and its columns as read
             amount: Amounts, outcome: Outcomes]

Idle == [pc |-> "idle", key |-> Null, pay |-> "UNPAID", target |-> Null,
         row |-> Null, amount |-> 0, outcome |-> "none"]

HookIdle == [pc |-> "idle", event |-> Null, pay |-> "UNPAID"]

TypeOK ==
  /\ booking \in [Bookings -> [status: {"CONFIRMED", "CANCELLED"}, pay: BookingPayStatuses]]
  /\ payment \in [CreateKeys -> Rows \cup {Null}]
  /\ store \in [Keys \cup Events -> StoreStates]
  /\ session \in [CreateKeys -> [state: SessionStates, returned: Amounts]]
  /\ refund \in [RefundKeys \cup CancelKeys ->
                   [amount: Amounts, status: RefundStatuses] \cup {Null}]
  /\ airline \in [Bookings -> [cancelled: BOOLEAN, refundable: Amounts]]
  /\ sent \subseteq Events
  /\ acked \subseteq Events
  /\ req \in [Reqs -> Requests]
  /\ hook \in [pc: {"idle", "commit", "ack"}, event: Events \cup {Null},
               pay: BookingPayStatuses]
  /\ faults \in 0..MaxFaults

Init ==
  /\ booking = [b \in Bookings |-> [status |-> "CONFIRMED", pay |-> "UNPAID"]]
  /\ payment = [k \in CreateKeys |-> Null]
  /\ store = [k \in Keys \cup Events |-> "absent"]
  /\ session = [k \in CreateKeys |-> [state |-> "none", returned |-> 0]]
  /\ refund = [k \in RefundKeys \cup CancelKeys |-> Null]
  /\ airline = [b \in Bookings |-> [cancelled |-> FALSE, refundable |-> 0]]
  /\ sent = {}
  /\ acked = {}
  /\ req = [r \in Reqs |-> Idle]
  /\ hook = HookIdle
  /\ faults = 0

-----------------------------------------------------------------------------
(* Steps shared by the handlers.                                           *)

(* The column after a commit by a request that read it as `seen` and set   *)
(* it to `new`: no UPDATE is issued for a column set to the value read.    *)
Written(seen, new, current) == IF new = seen THEN current ELSE new

At(r, pc) == req[r].pc = pc
Continue(r, pc) == req' = [req EXCEPT ![r].pc = pc]
Return(r) == req' = [req EXCEPT ![r] = Idle]

(* InMemoryIdempotencyStore.begin, when the key is new, complete and fail. *)
Begin(key) == /\ store[key] = "absent"
              /\ store' = [store EXCEPT ![key] = "in_progress"]
Complete(key) == store' = [store EXCEPT ![key] = "completed"]

(* Mutant of Fail: the in-progress marker stays.                           *)
FailKeepsMarker(key) == store' = store
Fail(key) == store' = [store EXCEPT ![key] = "absent"]

Fault == /\ faults < MaxFaults
         /\ faults' = faults + 1

(* A request whose try block raised: rollback, fail the key, re-raise.     *)
RollBack(r) == /\ Fail(req[r].key)
               /\ Return(r)
               /\ UNCHANGED database
-----------------------------------------------------------------------------
(* create_payment_session                                                  *)

StartCreate(r, key) ==
  LET b == booking[BookingOf[key]] IN
  /\ At(r, "idle")
  /\ b.status # "CANCELLED"
  /\ b.pay \in BlockingNewSession => b.pay = "PENDING"
  /\ req' = [req EXCEPT ![r] = [Idle EXCEPT !.pc = "create_begin", !.key = key, !.pay = b.pay]]
  /\ UNCHANGED <<database, store, provider, airline, acked, hook, faults>>

(* A pending booking with an open row, or a key already begun, ends here:  *)
(* the existing payment, or PAYMENT_SESSION_IN_PROGRESS, is the answer. (A *)
(* completed key has its row, since rows are never deleted.)               *)
BeginCreate(r) ==
  LET q == req[r]
      reuse == q.pay = "PENDING" /\ OpenRows(BookingOf[q.key]) # {}
  IN
  /\ At(r, "create_begin")
  /\ \/ ~reuse /\ Begin(q.key) /\ Continue(r, "create_call")
     \/ (reuse \/ store[q.key] # "absent") /\ Return(r) /\ UNCHANGED store
  /\ UNCHANGED <<database, provider, airline, acked, hook, faults>>

(* The provider creates the session of a key once, then replays it in      *)
(* whatever state it has reached.                                          *)
ProviderCreates(key) ==
  /\ session' = [session EXCEPT ![key].state = IF @ = "none" THEN "open" ELSE @]
  /\ UNCHANGED <<refund, sent>>

CallCheckout(r) ==
  /\ At(r, "create_call")
  /\ ProviderCreates(req[r].key)
  /\ Continue(r, "create_commit")
  /\ UNCHANGED <<database, store, airline, acked, hook, faults>>

(* The call raises: before it reached the provider, or its answer was lost.*)
CallCheckoutFails(r) ==
  /\ At(r, "create_call")
  /\ Fault
  /\ ProviderCreates(req[r].key) \/ UNCHANGED provider
  /\ RollBack(r)
  /\ UNCHANGED <<airline, acked, hook>>

CommitCreate(r) ==
  LET q == req[r] IN
  /\ At(r, "create_commit")
  /\ payment[q.key] = Null
  /\ payment' = [payment EXCEPT ![q.key] = NewRow({k \in CreateKeys : payment[k] # Null})]
  /\ booking' = [booking EXCEPT ![BookingOf[q.key]].pay = Written(q.pay, "PENDING", @)]
  /\ Continue(r, "create_finish")
  /\ UNCHANGED <<store, provider, airline, acked, hook, faults>>

(* UNIQUE idempotency_key and provider_session_id: the row is there, from  *)
(* before a crash.                                                         *)
CommitCreateConflicts(r) ==
  /\ At(r, "create_commit")
  /\ payment[req[r].key] # Null
  /\ RollBack(r)
  /\ UNCHANGED <<provider, airline, acked, hook, faults>>

CommitCreateFails(r) ==
  /\ At(r, "create_commit")
  /\ Fault
  /\ RollBack(r)
  /\ UNCHANGED <<provider, airline, acked, hook>>

FinishCreate(r) ==
  /\ At(r, "create_finish")
  /\ Complete(req[r].key)
  /\ Return(r)
  /\ UNCHANGED <<database, provider, airline, acked, hook, faults>>

-----------------------------------------------------------------------------
(* The provider's refunds, and apply_refund_outcome.                       *)

Remaining(row) == Price - RefundedOf(row)

(* Under a known key the provider replays the refund it made; under a new  *)
(* one it makes one, which a failed or canceled status leaves without      *)
(* effect, unless it exceeds what is left of the charge.                   *)
ProviderAccepts(id, key, amount) ==
  IF refund[id] = Null THEN session[key].returned + amount <= Price
                       ELSE refund[id].amount = amount

ProviderRefunds(id, key, amount, status) ==
  /\ ProviderAccepts(id, key, amount)
  /\ IF refund[id] # Null
     THEN status = refund[id].status /\ UNCHANGED <<refund, session>>
     ELSE /\ refund' = [refund EXCEPT ![id] = [amount |-> amount, status |-> status]]
          /\ session' = IF status \in TerminalFailedRefunds THEN session
                        ELSE [session EXCEPT ![key].returned = @ + amount]
  /\ UNCHANGED sent

RefundStatusAfter(q) == IF q.outcome = "absorbed" THEN "succeeded" ELSE q.outcome

(* Mutant: the amount replaces the cumulative total.                       *)
RefundedRowOverwrites(q, current) ==
  [current EXCEPT !.refunded = Written(q.row.refunded, q.amount, @),
                  !.refundStatus = Written(q.row.refundStatus, RefundStatusAfter(q), @)]

(* The amount is added whatever the provider's status is.                  *)
RefundedRow(q, current) ==
  [current EXCEPT !.refunded = Written(q.row.refunded, RefundedOf(q.row) + q.amount, @),
                  !.refundStatus = Written(q.row.refundStatus, RefundStatusAfter(q), @)]

PayAfterRefund(q, markRefunded, current) ==
  IF markRefunded /\ RefundStatusAfter(q) = "succeeded"
  THEN Written(q.pay, "REFUNDED", current)
  ELSE current

-----------------------------------------------------------------------------
(* refund_payment: staff only.                                             *)

StartRefund(r, key) ==
  LET b == booking[BookingOf[key]] IN
  /\ At(r, "idle")
  /\ b.pay # "REFUNDED"
  /\ req' = [req EXCEPT ![r] = [Idle EXCEPT !.pc = "refund_begin", !.key = key, !.pay = b.pay]]
  /\ UNCHANGED <<database, store, provider, airline, acked, hook, faults>>

AmountToRefund(key, row) ==
  IF AskedAmount[key] = Null THEN Remaining(row) ELSE AskedAmount[key]

(* Mutant: only the price bounds a refund, not what is left of it.         *)
ValidRefundOfPrice(row, amount) == 0 < amount /\ amount <= Price

ValidRefund(row, amount) == 0 < amount /\ amount <= Remaining(row)

CanBeginRefund(key, p) ==
  /\ IsLatest(p, BookingOf[key])
  /\ payment[p].status = "SUCCEEDED"
  /\ ValidRefund(payment[p], AmountToRefund(key, payment[p]))
  /\ store[key] = "absent"

BeginRefund(r) ==
  LET q == req[r] IN
  /\ At(r, "refund_begin")
  /\ \/ \E p \in CreateKeys :
          /\ CanBeginRefund(q.key, p)
          /\ Begin(q.key)
          /\ req' = [req EXCEPT ![r] =
               [q EXCEPT !.pc = "refund_call", !.target = p, !.row = payment[p],
                         !.amount = AmountToRefund(q.key, payment[p])]]
     \/ (\A p \in CreateKeys : ~CanBeginRefund(q.key, p)) /\ Return(r) /\ UNCHANGED store
  /\ UNCHANGED <<database, provider, airline, acked, hook, faults>>

CallRefund(r) ==
  LET q == req[r] IN
  /\ At(r, "refund_call")
  /\ \/ \E status \in RefundStatuses :
          /\ ProviderRefunds(q.key, q.target, q.amount, status)
          /\ req' = [req EXCEPT ![r] = [q EXCEPT !.pc = "refund_commit", !.outcome = status]]
          /\ UNCHANGED <<database, store>>
     \/ /\ ~ProviderAccepts(q.key, q.target, q.amount)
        /\ RollBack(r)
        /\ UNCHANGED provider
  /\ UNCHANGED <<airline, acked, hook, faults>>

CallRefundFails(r) ==
  LET q == req[r] IN
  /\ At(r, "refund_call")
  /\ Fault
  /\ \/ \E status \in RefundStatuses : ProviderRefunds(q.key, q.target, q.amount, status)
     \/ UNCHANGED provider
  /\ RollBack(r)
  /\ UNCHANGED <<airline, acked, hook>>

CommitRefund(r) ==
  LET q == req[r] IN
  /\ At(r, "refund_commit")
  /\ payment' = [payment EXCEPT ![q.target] = RefundedRow(q, @)]
  /\ booking' = [booking EXCEPT ![BookingOf[q.key]].pay =
                   PayAfterRefund(q, RefundedOf(q.row) + q.amount >= Price, @)]
  /\ Continue(r, "refund_finish")
  /\ UNCHANGED <<store, provider, airline, acked, hook, faults>>

(* The commit is outside the try block: nothing calls fail.                *)
CommitRefundFails(r) ==
  /\ At(r, "refund_commit")
  /\ Fault
  /\ Return(r)
  /\ UNCHANGED <<database, store, provider, airline, acked, hook>>

FinishRefund(r) ==
  /\ At(r, "refund_finish")
  /\ IF req[r].outcome \in TerminalFailedRefunds THEN Fail(req[r].key)
                                                 ELSE Complete(req[r].key)
  /\ Return(r)
  /\ UNCHANGED <<database, provider, airline, acked, hook, faults>>
-----------------------------------------------------------------------------
(* CancellationService.cancel                                              *)

(* A key in progress does not stop a second request: only a completed one  *)
(* is answered at once.                                                    *)
StartCancel(r, key) ==
  LET b == booking[BookingOf[key]] IN
  /\ At(r, "idle")
  /\ b.status # "CANCELLED"
  /\ \/ Begin(key)
     \/ store[key] = "in_progress" /\ UNCHANGED store
  /\ req' = [req EXCEPT ![r] = [Idle EXCEPT !.pc = "cancel_call", !.key = key, !.pay = b.pay]]
  /\ UNCHANGED <<database, provider, airline, acked, hook, faults>>

(* Mutant: a repeated cancellation is answered with the first one's amount.*)
AirlineCancelsAgain(b, refundable) ==
  IF airline[b].cancelled
  THEN refundable = airline[b].refundable /\ UNCHANGED airline
  ELSE airline' = [airline EXCEPT ![b] = [cancelled |-> TRUE, refundable |-> refundable]]

(* A booking cancelled before has nothing refundable, under any key.       *)
AirlineCancels(b, refundable) ==
  IF airline[b].cancelled
  THEN refundable = 0 /\ UNCHANGED airline
  ELSE airline' = [airline EXCEPT ![b] = [cancelled |-> TRUE, refundable |-> refundable]]

RefundablePayment(q, p) == /\ q.pay = "PAID"
                           /\ IsLatest(p, BookingOf[q.key])
                           /\ payment[p].status = "SUCCEEDED"

Least(a, b) == IF a < b THEN a ELSE b

(* The airline cancels; a booking read as PAID then has its latest payment *)
(* read, for a refund, or for none when the fee absorbs it.                *)
CallAirline(r) ==
  LET q == req[r] IN
  /\ At(r, "cancel_call")
  /\ \E refundable \in RefundableAmounts \cup {0} :
       /\ AirlineCancels(BookingOf[q.key], refundable)
       /\ \/ \E p \in CreateKeys :
               /\ RefundablePayment(q, p)
               /\ LET amount == Least(refundable, Remaining(payment[p]))
                  IN  req' = [req EXCEPT ![r] =
                        [q EXCEPT !.pc = IF amount > 0 THEN "cancel_refund" ELSE "cancel_commit",
                                  !.target = p, !.row = payment[p], !.amount = amount,
                                  !.outcome = IF amount > 0 THEN "none" ELSE "absorbed"]]
          \/ (\A p \in CreateKeys : ~RefundablePayment(q, p)) /\ Continue(r, "cancel_commit")
  /\ UNCHANGED <<database, store, provider, acked, hook, faults>>

(* Mutant: the failure is caught like the payment provider's.              *)
CallAirlineFailsQuietly(r) ==
  /\ At(r, "cancel_call")
  /\ Fault
  /\ Continue(r, "cancel_commit")
  /\ UNCHANGED <<database, store, provider, airline, acked, hook>>

CallAirlineFails(r) ==
  /\ At(r, "cancel_call")
  /\ Fault
  /\ \/ \E refundable \in RefundableAmounts \cup {0} :
          AirlineCancels(BookingOf[req[r].key], refundable)
     \/ UNCHANGED airline
  /\ RollBack(r)
  /\ UNCHANGED <<provider, acked, hook>>

AfterCancelRefund(r, outcome) ==
  req' = [req EXCEPT ![r] = [@ EXCEPT !.pc = "cancel_commit", !.outcome = outcome]]

(* The provider's key is refund_for_cancel:<key>, one for one with key.  A *)
(* PaymentProviderError is caught: the booking stays PAID.                 *)
CallCancelRefund(r) ==
  LET q == req[r] IN
  /\ At(r, "cancel_refund")
  /\ \/ \E status \in RefundStatuses :
          /\ ProviderRefunds(q.key, q.target, q.amount, status)
          /\ AfterCancelRefund(r, status)
     \/ /\ ~ProviderAccepts(q.key, q.target, q.amount)
        /\ AfterCancelRefund(r, "none")
        /\ UNCHANGED provider
  /\ UNCHANGED <<database, store, airline, acked, hook, faults>>

CallCancelRefundFails(r) ==
  LET q == req[r] IN
  /\ At(r, "cancel_refund")
  /\ Fault
  /\ \/ \E status \in RefundStatuses : ProviderRefunds(q.key, q.target, q.amount, status)
     \/ UNCHANGED provider
  /\ AfterCancelRefund(r, "none")
  /\ UNCHANGED <<database, store, airline, acked, hook>>

CommitCancel(r) ==
  LET q == req[r]
      b == BookingOf[q.key]
  IN
  /\ At(r, "cancel_commit")
  /\ IF q.outcome = "none"
     THEN /\ booking' = [booking EXCEPT ![b].status = "CANCELLED"]
          /\ UNCHANGED payment
     ELSE /\ booking' = [booking EXCEPT ![b] =
               [status |-> "CANCELLED", pay |-> PayAfterRefund(q, TRUE, @.pay)]]
          /\ payment' = [payment EXCEPT ![q.target] = RefundedRow(q, @)]
  /\ Continue(r, "cancel_finish")
  /\ UNCHANGED <<store, provider, airline, acked, hook, faults>>

CommitCancelFails(r) ==
  /\ At(r, "cancel_commit")
  /\ Fault
  /\ RollBack(r)
  /\ UNCHANGED <<provider, airline, acked, hook>>

FinishCancel(r) ==
  /\ At(r, "cancel_finish")
  /\ Complete(req[r].key)
  /\ Return(r)
  /\ UNCHANGED <<database, provider, airline, acked, hook, faults>>

-----------------------------------------------------------------------------
(* handle_webhook_event.  Deliveries come in any order, again after a      *)
(* non-2xx answer, and sometimes again after a 2xx.                        *)

Acknowledge(e) == acked' = acked \cup {e}

Applies(e) == /\ payment[e.key] # Null
              /\ CanTransition(payment[e.key].status, NewStatusForEvent(e.type, e.paid))

DeliverDuplicate(e) ==
  /\ hook.pc = "idle"
  /\ store[e] # "absent"
  /\ Acknowledge(e)
  /\ UNCHANGED <<database, store, provider, airline, req, hook, faults>>

(* No row for the session, or the row has moved on: accepted and dropped.  *)
DeliverIgnored(e) ==
  /\ hook.pc = "idle"
  /\ store[e] = "absent"
  /\ ~Applies(e)
  /\ Complete(e)
  /\ Acknowledge(e)
  /\ UNCHANGED <<database, provider, airline, req, hook, faults>>

DeliverApplied(e) ==
  /\ hook.pc = "idle"
  /\ Applies(e)
  /\ Begin(e)
  /\ hook' = [pc |-> "commit", event |-> e, pay |-> booking[BookingOf[e.key]].pay]
  /\ UNCHANGED <<database, provider, airline, acked, req, faults>>

CommitEvent ==
  LET e == hook.event
      new == NewStatusForEvent(e.type, e.paid)
  IN
  /\ hook.pc = "commit"
  /\ payment' = [payment EXCEPT ![e.key].status = new]
  /\ booking' = [booking EXCEPT ![BookingOf[e.key]].pay =
                   Written(hook.pay, BookingStatusForSession(new), @)]
  /\ hook' = [hook EXCEPT !.pc = "ack"]
  /\ UNCHANGED <<store, provider, airline, acked, req, faults>>

(* Mutant: a failed delivery is answered with a 2xx all the same.          *)
CommitEventFailsQuietly ==
  /\ hook.pc = "commit"
  /\ Fault
  /\ Fail(hook.event)
  /\ Acknowledge(hook.event)
  /\ hook' = HookIdle
  /\ UNCHANGED <<database, provider, airline, req>>

CommitEventFails ==
  /\ hook.pc = "commit"
  /\ Fault
  /\ Fail(hook.event)
  /\ hook' = HookIdle
  /\ UNCHANGED <<database, provider, airline, acked, req>>

FinishEvent ==
  /\ hook.pc = "ack"
  /\ Complete(hook.event)
  /\ Acknowledge(hook.event)
  /\ hook' = HookIdle
  /\ UNCHANGED <<database, provider, airline, req, faults>>

-----------------------------------------------------------------------------
(* The customer and the provider.                                          *)

(* A session reaches `state` and its event is emitted.                     *)
SessionBecomes(key, state, kind) ==
  /\ session' = [session EXCEPT ![key].state = state]
  /\ sent' = sent \cup {Event(key, kind)}
  /\ UNCHANGED <<database, store, refund, airline, acked, req, hook, faults>>

(* The customer has the checkout URL only once its row is committed.       *)
CustomerPays(key) ==
  /\ session[key].state = "open"
  /\ payment[key] # Null
  /\ \/ SessionBecomes(key, "paid", <<"completed", TRUE>>)
     \/ SessionBecomes(key, "settling", <<"completed", FALSE>>)

PaymentSettles(key) ==
  /\ session[key].state = "settling"
  /\ \/ SessionBecomes(key, "paid", <<"async_payment_succeeded", TRUE>>)
     \/ SessionBecomes(key, "failed", <<"async_payment_failed", FALSE>>)

(* Sessions last 24 hours, longer than any request.                        *)
SessionExpires(key) ==
  /\ session[key].state = "open"
  /\ \A r \in Reqs : req[r].key # key
  /\ SessionBecomes(key, "expired", <<"expired", FALSE>>)

(* The process dies and restarts: threads, the webhook in progress and the *)
(* idempotency store are gone; the database rolls back what is open.       *)
Crash ==
  /\ Fault
  /\ req' = [r \in Reqs |-> Idle]
  /\ hook' = HookIdle
  /\ store' = [k \in Keys \cup Events |-> "absent"]
  /\ UNCHANGED <<database, provider, airline, acked>>

-----------------------------------------------------------------------------
CreateStep(r) ==
  \/ \E key \in CreateKeys : StartCreate(r, key)
  \/ BeginCreate(r)
  \/ CallCheckout(r) \/ CallCheckoutFails(r)
  \/ CommitCreate(r) \/ CommitCreateConflicts(r) \/ CommitCreateFails(r)
  \/ FinishCreate(r)

RefundStep(r) ==
  \/ \E key \in RefundKeys : StartRefund(r, key)
  \/ BeginRefund(r)
  \/ CallRefund(r) \/ CallRefundFails(r)
  \/ CommitRefund(r) \/ CommitRefundFails(r)
  \/ FinishRefund(r)

CancelStep(r) ==
  \/ \E key \in CancelKeys : StartCancel(r, key)
  \/ CallAirline(r) \/ CallAirlineFails(r)
  \/ CallCancelRefund(r) \/ CallCancelRefundFails(r)
  \/ CommitCancel(r) \/ CommitCancelFails(r)
  \/ FinishCancel(r)

Deliver(e) == DeliverDuplicate(e) \/ DeliverIgnored(e) \/ DeliverApplied(e)

HookStep ==
  \/ \E e \in sent : Deliver(e)
  \/ CommitEvent \/ CommitEventFails \/ FinishEvent

WorldStep ==
  \/ \E key \in CreateKeys : CustomerPays(key) \/ PaymentSettles(key) \/ SessionExpires(key)
  \/ Crash

Next ==
  \/ \E r \in Reqs : CreateStep(r) \/ RefundStep(r) \/ CancelStep(r)
  \/ HookStep
  \/ WorldStep

Spec == Init /\ [][Next]_vars

(* The event loop runs a delivery to its end, and Stripe keeps delivering  *)
(* an event it has no 2xx for; customers and requests owe nothing.         *)
Fairness ==
  /\ WF_vars(CommitEvent)
  /\ WF_vars(FinishEvent)
  /\ \A e \in Events : SF_vars(e \in sent \ acked /\ Deliver(e))

FairSpec == Spec /\ Fairness
-----------------------------------------------------------------------------
(* Properties.                                                             *)

Charged(key) == session[key].state = "paid"

(* handle_webhook_event and the refunds: a booking shows PAID or REFUNDED  *)
(* only if the customer was really charged and the charge is on a row of   *)
(* this booking, whatever order events, retries and cancellations come in. *)
PaidIsCharged ==
  \A b \in Bookings : booking[b].pay \in {"PAID", "REFUNDED"} =>
    \E k \in RowsOf(b) : payment[k].status = "SUCCEEDED" /\ Charged(k)

(* handle_webhook_event: an event that says the customer was charged is    *)
(* answered with a 2xx, after which Stripe forgets it, only once the       *)
(* charge is on its row: not after a rollback, a crash or a duplicate.     *)
AckedChargeIsRecorded ==
  \A e \in acked : e.paid => payment[e.key] # Null /\ payment[e.key].status = "SUCCEEDED"

(* refund_payment, cancel: however refunds of one payment overlap, the     *)
(* total on its row never exceeds what was charged.                        *)
RefundWithinCharge ==
  \A k \in CreateKeys : payment[k] # Null /\ payment[k].refunded # Null =>
    payment[k].refunded <= Price /\ payment[k].status = "SUCCEEDED"

(* cancel: however often and concurrently a booking is cancelled, its      *)
(* cancellations make at most one refund, within what the airline returns. *)
OneRefundPerCancellation ==
  \A c \in CancelKeys : refund[c] # Null =>
    /\ refund[c].amount <= airline[BookingOf[c]].refundable
    /\ \A d \in CancelKeys : BookingOf[d] = BookingOf[c] /\ refund[d] # Null => d = c

(* cancel: a booking is never shown CANCELLED while the airline still      *)
(* holds the seat, and no money goes back for such a booking's cancellation.*)
CancelledAtAirline ==
  \A b \in Bookings : ~airline[b].cancelled =>
    /\ booking[b].status # "CANCELLED"
    /\ \A c \in CancelKeys : BookingOf[c] = b => refund[c] = Null

(* IdempotencyStore.fail, "so a genuinely failed operation can be retried  *)
(* under the same key rather than being stuck forever": a key is in        *)
(* progress only while a request, or the webhook, works on it.  Not so of  *)
(* refund keys: CommitRefundFails leaves its key behind.                   *)
NoOrphanedKey ==
  /\ \A k \in CreateKeys \cup CancelKeys :
       store[k] = "in_progress" => \E r \in Reqs : req[r].key = k
  /\ \A e \in Events : store[e] = "in_progress" => hook.event = e

Returning(q) == q.pc \in RefundPcs \cup CancelPcs

(* At most one request returns money of a booking, and nothing has failed. *)
Undisturbed ==
  /\ faults = 0
  /\ \A r, s \in Reqs :
       /\ Returning(req[r])
       /\ Returning(req[s])
       /\ BookingOf[req[r].key] = BookingOf[req[s].key]
       => r = s

(* refund_payment, apply_refund_outcome: once no request is in progress,   *)
(* the cumulative refunded_amount covers all the money the provider has    *)
(* returned.  Holds of the behaviours that are Undisturbed throughout,     *)
(* whatever payments and webhooks do in the middle of a refund.            *)
BooksCoverRefunds ==
  (\A r \in Reqs : req[r].pc = "idle") =>
    \A k \in CreateKeys : session[k].returned > 0 =>
      payment[k] # Null /\ session[k].returned <= RefundedOf(payment[k])

(* handle_webhook_event: a customer who was charged is eventually shown to *)
(* be, in spite of crashes, failed commits and reordered events.           *)
ChargeIsEventuallyRecorded ==
  \A k \in CreateKeys :
    Charged(k) ~> (payment[k] # Null /\ payment[k].status = "SUCCEEDED")

(* payment_service.py:46-48, "A DIFFERENT idempotency_key for the same     *)
(* booking while a payment is already PENDING/PROCESSING does NOT create a *)
(* second concurrent session": a booking has one open payment at most.     *)
OneOpenPayment == \A b \in Bookings : Cardinality(OpenRows(b)) <= 1

(* payment_service.py:132-133, "This booking has been cancelled and can't  *)
(* be paid for": a cancelled booking does not become PAID.                 *)
CancelledStaysUnpaid ==
  [][\A b \in Bookings :
       booking[b].status = "CANCELLED" /\ booking[b].pay # "PAID" => booking'[b].pay # "PAID"]_vars

(* cancellation_service.py:125-127, docs/PAYMENTS.md:302-306, "never       *)
(* falsely REFUNDED": when the airline returns money for a cancelled       *)
(* booking and it is shown REFUNDED, the provider has returned some.       *)
NeverFalselyRefunded ==
  \A b \in Bookings :
    booking[b].pay = "REFUNDED" /\ airline[b].refundable > 0 =>
      \E k \in RowsOf(b) : session[k].returned > 0

(* state_machine.py:18-19, "PENDING: Session created (Stripe status open), *)
(* awaiting the customer": while no call fails, however requests overlap,  *)
(* the session of a PENDING row is open, or an event that will move the row*)
(* is still to be delivered.  (After a fault a key may be retried when its *)
(* session has expired: its row is then PENDING for a dead session.)       *)
PendingIsAlive ==
  faults = 0 =>
    \A k \in CreateKeys : payment[k] # Null /\ payment[k].status = "PENDING" =>
      \/ session[k].state = "open"
      \/ \E e \in sent \ acked : e.key = k

(* Every step of Payments is a step of the lifecycle of one Payment row,   *)
(* or leaves all of them alone.                                            *)
RowStatus == [k \in CreateKeys |-> IF payment[k] = Null THEN "none" ELSE payment[k].status]
RefundedRows == {k \in CreateKeys : payment[k] # Null /\ payment[k].refunded # Null}

Lifecycle == INSTANCE PaymentLifecycle
               WITH Attempts <- CreateKeys, status <- RowStatus, touched <- RefundedRows

ImplementsLifecycle == Lifecycle!Spec
=============================================================================
