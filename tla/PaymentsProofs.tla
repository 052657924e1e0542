--------------------------- MODULE PaymentsProofs ---------------------------
(***************************************************************************)
(* Theorems about Payments, for any bookings, keys, threads, price and     *)
(* number of faults.  They rest on the inductive invariant IInv, those     *)
(* about cancellations and keys also on CInv, which adds to it.            *)
(***************************************************************************)
EXTENDS Payments, Integers, TLAPS

-----------------------------------------------------------------------------
(* The inductive invariant.                                                *)

(* A request works under a key of its operation.                           *)
KeyFits(q) ==
  /\ q.pc \in CreatePcs => q.key \in CreateKeys
  /\ q.pc \in RefundPcs => q.key \in RefundKeys
  /\ q.pc \in CancelPcs => q.key \in CancelKeys

(* A request about to refund a payment, or to record a refund of it.       *)
HoldsPayment(q) ==
  \/ q.pc \in {"refund_call", "refund_commit", "cancel_refund"}
  \/ q.pc = "cancel_commit" /\ q.outcome # "none"

(* What it holds: a charged payment of its booking, and an amount that fits*)
(* in what was left of the payment when it read it.                        *)
HoldingFits(q) ==
  HoldsPayment(q) =>
    /\ q.target \in RowsOf(BookingOf[q.key])
    /\ payment[q.target].status = "SUCCEEDED"
    /\ q.row # Null
    /\ RefundedOf(q.row) + q.amount <= Price
    /\ q.row.refunded # Null => payment[q.target].refunded # Null

OutcomeKnown(q) ==
  /\ q.pc \in {"refund_commit", "refund_finish"} => q.outcome \in RefundStatuses
  /\ q.pc \in {"cancel_call", "cancel_refund"} => q.outcome = "none"

RequestFits(r) == KeyFits(req[r]) /\ HoldingFits(req[r]) /\ OutcomeKnown(req[r])

RequestsFit == \A r \in Reqs : RequestFits(r)

(* What an event says is and stays true of its session.                    *)
EventsTrue ==
  \A e \in sent :
    /\ e.paid => session[e.key].state = "paid"
    /\ e.type = "async_payment_failed" => session[e.key].state = "failed"
    /\ e.type = "expired" => session[e.key].state = "expired"
    /\ e.type # "expired" => payment[e.key] # Null

(* The customer acts on a session only once its row is there.              *)
SessionsTrue ==
  \A k \in CreateKeys : session[k].state \in {"settling", "paid", "failed"} => payment[k] # Null

(* A row that ended tells how its session ended.                           *)
RowsTrue ==
  \A k \in CreateKeys : payment[k] # Null =>
    /\ payment[k].status = "SUCCEEDED" => session[k].state = "paid"
    /\ payment[k].status = "FAILED" => session[k].state = "failed"
    /\ payment[k].status = "EXPIRED" => session[k].state = "expired"
    /\ payment[k].status # "CANCELED"

Recorded(k) == payment[k] # Null /\ payment[k].status = "SUCCEEDED"

HookFits ==
  /\ hook.pc # "idle" => hook.event \in sent
  /\ hook.pc = "commit" => Applies(hook.event)
  /\ hook.pc = "ack" /\ hook.event.paid => Recorded(hook.event.key)

(* What the store remembers of an event that says the customer was charged.*)
StoreFits ==
  \A e \in Events :
    /\ store[e] = "in_progress" => hook.pc # "idle" /\ hook.event = e
    /\ store[e] = "completed" /\ e.paid => Recorded(e.key)

IInv == /\ TypeOK
        /\ RequestsFit
        /\ EventsTrue
        /\ SessionsTrue
        /\ RowsTrue
        /\ HookFits
        /\ StoreFits
        /\ RefundWithinCharge
        /\ PaidIsCharged
        /\ AckedChargeIsRecorded

-----------------------------------------------------------------------------
(* Facts about the operators.                                              *)

LEMMA EventFacts ==
  ASSUME NEW e \in Events
  PROVE  /\ e.key \in CreateKeys
         /\ e.paid \in BOOLEAN
         /\ NewStatusForEvent(e.type, e.paid) \in {"SUCCEEDED", "PROCESSING", "FAILED", "EXPIRED"}
         /\ e.paid <=> NewStatusForEvent(e.type, e.paid) = "SUCCEEDED"
         /\ e.type = "async_payment_failed" <=> NewStatusForEvent(e.type, e.paid) = "FAILED"
         /\ e.type = "expired" <=> NewStatusForEvent(e.type, e.paid) = "EXPIRED"
<1>1. PICK key \in CreateKeys, kind \in EventKinds : e = Event(key, kind)
  BY DEF Events
<1>2. /\ e.key = key
      /\ e.type = kind[1]
      /\ e.paid = kind[2]
  BY <1>1 DEF Event
<1>3. CASE kind = <<"completed", TRUE>>
  BY <1>2, <1>3 DEF NewStatusForEvent
<1>4. CASE kind = <<"completed", FALSE>>
  BY <1>2, <1>4 DEF NewStatusForEvent
<1>5. CASE kind = <<"expired", FALSE>>
  BY <1>2, <1>5 DEF NewStatusForEvent
<1>6. CASE kind = <<"async_payment_succeeded", TRUE>>
  BY <1>2, <1>6 DEF NewStatusForEvent
<1>7. CASE kind = <<"async_payment_failed", FALSE>>
  BY <1>2, <1>7 DEF NewStatusForEvent
<1>q. QED
  BY <1>3, <1>4, <1>5, <1>6, <1>7 DEF EventKinds

LEMMA EventIn ==
  ASSUME NEW key \in CreateKeys, NEW kind \in EventKinds
  PROVE  Event(key, kind) \in Events
BY DEF Events

LEMMA TransitionFacts ==
  ASSUME NEW current, NEW new, CanTransition(current, new)
  PROVE  /\ new \in PaymentSessionStatuses
         /\ current \in {"PENDING", "PROCESSING"}
         /\ new = "EXPIRED" => current = "PENDING"
         /\ new = "PROCESSING" => current = "PENDING"
BY DEF CanTransition, AllowedTransitions

LEMMA EndedIsFinal ==
  ASSUME NEW current \in {"PENDING", "PROCESSING"}
  PROVE  CanTransition(current, "SUCCEEDED")
BY DEF CanTransition, AllowedTransitions, PaymentSessionStatuses

-----------------------------------------------------------------------------
(* Typing.                                                                 *)

LEMMA IdleTyped == Idle \in Requests
BY AmountsAssumption DEF Idle, Requests, Pcs, BookingPayStatuses, Outcomes, Amounts

LEMMA ContinueTyped ==
  ASSUME TypeOK, NEW r \in Reqs, NEW pc \in Pcs, Continue(r, pc)
  PROVE  req' \in [Reqs -> Requests]
<1>1. req[r] \in Requests
  BY DEF TypeOK
<1>2. [req[r] EXCEPT !.pc = pc] \in Requests
  BY <1>1 DEF Requests
<1>3. req' = [req EXCEPT ![r] = [req[r] EXCEPT !.pc = pc]]
  BY <1>1 DEF Continue
<1>q. QED
  BY <1>2, <1>3 DEF TypeOK

LEMMA ReturnTyped ==
  ASSUME TypeOK, NEW r \in Reqs, Return(r)
  PROVE  req' \in [Reqs -> Requests]
BY IdleTyped DEF TypeOK, Return

LEMMA StoreTyped ==
  ASSUME TypeOK, NEW k, Begin(k) \/ Complete(k) \/ Fail(k)
  PROVE  store' \in [Keys \cup Events -> StoreStates]
BY DEF TypeOK, Begin, Complete, Fail, StoreStates

LEMMA RollBackTyped ==
  ASSUME TypeOK, NEW r \in Reqs, RollBack(r)
  PROVE  /\ req' \in [Reqs -> Requests]
         /\ store' \in [Keys \cup Events -> StoreStates]
         /\ UNCHANGED database
BY ReturnTyped, StoreTyped DEF RollBack

LEMMA RequestTyped ==
  ASSUME TypeOK, RequestsFit, NEW r \in Reqs
  PROVE  /\ req[r] \in Requests
         /\ req[r].pc \in CreatePcs => req[r].key \in CreateKeys
         /\ req[r].pc \in RefundPcs => req[r].key \in RefundKeys
         /\ req[r].pc \in CancelPcs => req[r].key \in CancelKeys
         /\ req[r].pc \in CreatePcs \cup RefundPcs \cup CancelPcs =>
              BookingOf[req[r].key] \in Bookings
<1>1. /\ req[r] \in Requests
      /\ KeyFits(req[r])
  BY DEF TypeOK, RequestsFit, RequestFits
<1>2. \A k \in CreateKeys \cup RefundKeys \cup CancelKeys : BookingOf[k] \in Bookings
  BY KeysAssumption DEF Keys
<1>q. QED
  BY <1>1, <1>2 DEF KeyFits

LEMMA FaultTyped == FaultsAssumption /\ TypeOK /\ Fault => faults' \in 0..MaxFaults
BY DEF TypeOK, Fault, FaultsAssumption

LEMMA WrittenTyped ==
  ASSUME NEW S, NEW seen, NEW new \in S, NEW current \in S
  PROVE  Written(seen, new, current) \in S
BY DEF Written

BookingRows == [status: {"CONFIRMED", "CANCELLED"}, pay: BookingPayStatuses]

LEMMA PayTyped ==
  ASSUME TypeOK, NEW b \in Bookings, NEW pay \in BookingPayStatuses,
         booking' = [booking EXCEPT ![b].pay = pay]
  PROVE  booking' \in [Bookings -> BookingRows]
<1>1. booking[b] \in BookingRows
  BY DEF TypeOK, BookingRows
<1>2. [booking[b] EXCEPT !.pay = pay] \in BookingRows
  BY <1>1 DEF BookingRows
<1>3. booking' = [booking EXCEPT ![b] = [booking[b] EXCEPT !.pay = pay]]
  BY <1>1
<1>q. QED
  BY <1>2, <1>3 DEF TypeOK, BookingRows

SessionRows == [state: SessionStates, returned: Amounts]

LEMMA SessionTyped ==
  ASSUME TypeOK, NEW k \in CreateKeys, NEW row \in SessionRows,
         session' = [session EXCEPT ![k] = row]
  PROVE  session' \in [CreateKeys -> SessionRows]
BY DEF TypeOK, SessionRows

LEMMA ProviderCreatesTyped ==
  ASSUME TypeOK, NEW k \in CreateKeys, ProviderCreates(k)
  PROVE  /\ session' \in [CreateKeys -> SessionRows]
         /\ UNCHANGED <<refund, sent>>
<1> DEFINE state == IF session[k].state = "none" THEN "open" ELSE session[k].state
<1>1. session[k] \in SessionRows
  BY DEF TypeOK, SessionRows
<1>2. [session[k] EXCEPT !.state = state] \in SessionRows
  BY <1>1 DEF SessionRows, SessionStates
<1>3. session' = [session EXCEPT ![k] = [session[k] EXCEPT !.state = state]]
  BY <1>1 DEF ProviderCreates
<1>q. QED
  BY <1>2, <1>3, SessionTyped DEF ProviderCreates

LEMMA CreateTyped ==
  ASSUME IInv, NEW r \in Reqs, CreateStep(r)
  PROVE  TypeOK'
<1> USE DEF IInv
<1>1. ASSUME NEW key \in CreateKeys, StartCreate(r, key)
      PROVE  TypeOK'
  <2>1. BookingOf[key] \in Bookings
    BY KeysAssumption DEF Keys
  <2>2. booking[BookingOf[key]].pay \in BookingPayStatuses
    BY <2>1 DEF TypeOK
  <2>3. req' \in [Reqs -> Requests]
    BY <1>1, <2>2, IdleTyped DEF StartCreate, TypeOK, Requests, Pcs, Keys, Idle
  <2>q. QED
    BY <1>1, <2>3 DEF StartCreate, TypeOK, database, provider
<1>2. ASSUME BeginCreate(r)
      PROVE  TypeOK'
  <2>1. req' \in [Reqs -> Requests]
    BY <1>2, ContinueTyped, ReturnTyped DEF BeginCreate, Pcs
  <2>2. store' \in [Keys \cup Events -> StoreStates]
    BY <1>2, StoreTyped DEF BeginCreate, TypeOK
  <2>q. QED
    BY <1>2, <2>1, <2>2 DEF BeginCreate, TypeOK, database, provider
<1>3. ASSUME CallCheckout(r)
      PROVE  TypeOK'
  <2>1. req' \in [Reqs -> Requests]
    BY <1>3, ContinueTyped DEF CallCheckout, Pcs
  <2>2. /\ session' \in [CreateKeys -> SessionRows]
        /\ UNCHANGED <<refund, sent>>
    BY <1>3, RequestTyped, ProviderCreatesTyped DEF CallCheckout, At, CreatePcs
  <2>q. QED
    BY <1>3, <2>1, <2>2 DEF CallCheckout, TypeOK, database, SessionRows
<1>4. ASSUME CallCheckoutFails(r)
      PROVE  TypeOK'
  <2>1. /\ session' \in [CreateKeys -> SessionRows]
        /\ UNCHANGED <<refund, sent>>
    <3>1. CASE ProviderCreates(req[r].key)
      BY <1>4, <3>1, RequestTyped, ProviderCreatesTyped DEF CallCheckoutFails, At, CreatePcs
    <3>2. CASE UNCHANGED provider
      BY <3>2 DEF provider, TypeOK, SessionRows
    <3>q. QED
      BY <1>4, <3>1, <3>2 DEF CallCheckoutFails
  <2>q. QED
    BY <1>4, <2>1, RollBackTyped, FaultTyped, FaultsAssumption
    DEF CallCheckoutFails, TypeOK, database, SessionRows
<1>5. ASSUME CommitCreate(r)
      PROVE  TypeOK'
  <2>1. req' \in [Reqs -> Requests]
    BY <1>5, ContinueTyped DEF CommitCreate, Pcs
  <2>2. payment' \in [CreateKeys -> Rows \cup {Null}]
    <3>1. NewRow({k \in CreateKeys : payment[k] # Null}) \in Rows
      BY DEF NewRow, Rows, PaymentSessionStatuses
    <3>q. QED
      BY Zenon, <1>5, <3>1 DEF CommitCreate, TypeOK
  <2>3. booking' \in [Bookings -> [status: {"CONFIRMED", "CANCELLED"}, pay: BookingPayStatuses]]
    <3> DEFINE b == BookingOf[req[r].key]
    <3>1. b \in Bookings
      BY <1>5, RequestTyped DEF CommitCreate, At, CreatePcs
    <3>2. booking[b].pay \in BookingPayStatuses
      BY <3>1 DEF TypeOK
    <3>3. Written(req[r].pay, "PENDING", booking[b].pay) \in BookingPayStatuses
      BY <3>2 DEF Written, BookingPayStatuses
    <3>4. booking' = [booking EXCEPT ![b].pay = Written(req[r].pay, "PENDING", booking[b].pay)]
      BY <1>5, <3>1 DEF CommitCreate, TypeOK
    <3>q. QED
      BY Zenon, <3>1, <3>3, <3>4, PayTyped DEF BookingRows
  <2>q. QED
    BY <1>5, <2>1, <2>2, <2>3 DEF CommitCreate, TypeOK, provider
<1>6. ASSUME CommitCreateConflicts(r)
      PROVE  TypeOK'
  BY <1>6, RollBackTyped DEF CommitCreateConflicts, TypeOK, database, provider
<1>7. ASSUME CommitCreateFails(r)
      PROVE  TypeOK'
  BY <1>7, RollBackTyped, FaultTyped, FaultsAssumption
  DEF CommitCreateFails, TypeOK, database, provider
<1>8. ASSUME FinishCreate(r)
      PROVE  TypeOK'
  BY <1>8, ReturnTyped, StoreTyped DEF FinishCreate, TypeOK, database, provider
<1>q. QED
  BY <1>1, <1>2, <1>3, <1>4, <1>5, <1>6, <1>7, <1>8 DEF CreateStep

LEMMA HoldingTyped ==
  ASSUME TypeOK, RequestsFit, NEW r \in Reqs, HoldsPayment(req[r])
  PROVE  /\ req[r].target \in CreateKeys
         /\ payment[req[r].target] \in Rows
         /\ payment[req[r].target].status = "SUCCEEDED"
         /\ req[r].row \in Rows
         /\ req[r].amount \in Nat
         /\ RefundedOf(req[r].row) + req[r].amount <= Price
         /\ req[r].row.refunded # Null => payment[req[r].target].refunded # Null
BY DEF RequestsFit, RequestFits, HoldingFits, RowsOf, TypeOK, Requests, Amounts

RefundRows == [amount: Amounts, status: RefundStatuses]

LEMMA ProviderRefundsTyped ==
  ASSUME TypeOK, NEW id \in RefundKeys \cup CancelKeys, NEW k \in CreateKeys,
         NEW amount \in Nat, NEW status \in RefundStatuses,
         ProviderRefunds(id, k, amount, status)
  PROVE  /\ session' \in [CreateKeys -> SessionRows]
         /\ refund' \in [RefundKeys \cup CancelKeys -> RefundRows \cup {Null}]
         /\ UNCHANGED sent
<1> DEFINE more == session[k].returned + amount
<1>1. session[k] \in SessionRows
  BY DEF TypeOK, SessionRows
<1>2. [session[k] EXCEPT !.returned = more] \in SessionRows
  BY <1>1 DEF SessionRows, Amounts
<1>3. [amount |-> amount, status |-> status] \in RefundRows
  BY DEF RefundRows, Amounts
<1>4. UNCHANGED session \/ session' = [session EXCEPT ![k] = [session[k] EXCEPT !.returned = more]]
  BY <1>1 DEF ProviderRefunds
<1>5. session' \in [CreateKeys -> SessionRows]
  BY <1>2, <1>4, SessionTyped DEF TypeOK, SessionRows
<1>6. UNCHANGED refund \/ refund' = [refund EXCEPT ![id] = [amount |-> amount, status |-> status]]
  BY DEF ProviderRefunds
<1>q. QED
  BY <1>3, <1>5, <1>6 DEF ProviderRefunds, TypeOK, RefundRows

LEMMA RefundedOfTyped ==
  ASSUME NEW row \in Rows
  PROVE  RefundedOf(row) \in Nat
BY DEF RefundedOf, Rows, Amounts

LEMMA RefundedRowTyped ==
  ASSUME NEW q \in Requests, q.row \in Rows, RefundStatusAfter(q) \in RefundStatuses,
         NEW current \in Rows
  PROVE  RefundedRow(q, current) \in Rows
<1> DEFINE total == RefundedOf(q.row) + q.amount
           refunded == Written(q.row.refunded, total, current.refunded)
           status == Written(q.row.refundStatus, RefundStatusAfter(q), current.refundStatus)
<1>1. refunded \in Amounts \cup {Null}
  BY RefundedOfTyped DEF Requests, Amounts, Written, Rows
<1>2. status \in RefundStatuses \cup {Null}
  BY DEF Written, Rows
<1>q. QED
  BY <1>1, <1>2 DEF RefundedRow, Rows

LEMMA PayAfterRefundTyped ==
  ASSUME NEW q, NEW mark \in BOOLEAN, NEW current \in BookingPayStatuses
  PROVE  PayAfterRefund(q, mark, current) \in BookingPayStatuses
BY DEF PayAfterRefund, Written, BookingPayStatuses

LEMMA NewPcTyped ==
  ASSUME TypeOK, NEW r \in Reqs, NEW pc \in Pcs, NEW outcome \in Outcomes,
         req' = [req EXCEPT ![r] = [req[r] EXCEPT !.pc = pc, !.outcome = outcome]]
  PROVE  req' \in [Reqs -> Requests]
<1>1. req[r] \in Requests
  BY DEF TypeOK
<1>2. [req[r] EXCEPT !.pc = pc, !.outcome = outcome] \in Requests
  BY <1>1 DEF Requests
<1>q. QED
  BY <1>2 DEF TypeOK

LEMMA HeldTyped ==
  ASSUME TypeOK, NEW r \in Reqs, NEW pc \in Pcs, NEW outcome \in Outcomes,
         NEW p \in CreateKeys, payment[p] # Null, NEW amount \in Nat,
         req' = [req EXCEPT ![r] =
           [req[r] EXCEPT !.pc = pc, !.target = p, !.row = payment[p],
                          !.amount = amount, !.outcome = outcome]]
  PROVE  req' \in [Reqs -> Requests]
<1>1. req[r] \in Requests /\ payment[p] \in Rows
  BY DEF TypeOK
<1>2. [req[r] EXCEPT !.pc = pc, !.target = p, !.row = payment[p],
                     !.amount = amount, !.outcome = outcome] \in Requests
  BY <1>1 DEF Requests, Amounts
<1>q. QED
  BY <1>2 DEF TypeOK

LEMMA RefundTyped ==
  ASSUME IInv, NEW r \in Reqs, RefundStep(r)
  PROVE  TypeOK'
<1> USE DEF IInv
<1> DEFINE q == req[r]
<1>0. q \in Requests
  BY DEF TypeOK
<1>1. ASSUME NEW key \in RefundKeys, StartRefund(r, key)
      PROVE  TypeOK'
  <2>1. BookingOf[key] \in Bookings
    BY KeysAssumption DEF Keys
  <2>2. booking[BookingOf[key]].pay \in BookingPayStatuses
    BY <2>1 DEF TypeOK
  <2>3. req' \in [Reqs -> Requests]
    BY <1>1, <2>2, IdleTyped DEF StartRefund, TypeOK, Requests, Pcs, Keys, Idle
  <2>q. QED
    BY <1>1, <2>3 DEF StartRefund, TypeOK, database, provider
<1>2. ASSUME BeginRefund(r)
      PROVE  TypeOK'
  <2>1. CASE \E p \in CreateKeys :
               /\ CanBeginRefund(q.key, p)
               /\ Begin(q.key)
               /\ req' = [req EXCEPT ![r] =
                    [q EXCEPT !.pc = "refund_call", !.target = p, !.row = payment[p],
                              !.amount = AmountToRefund(q.key, payment[p])]]
    <3>1. PICK p \in CreateKeys :
            /\ CanBeginRefund(q.key, p)
            /\ Begin(q.key)
            /\ req' = [req EXCEPT ![r] =
                 [q EXCEPT !.pc = "refund_call", !.target = p, !.row = payment[p],
                           !.amount = AmountToRefund(q.key, payment[p])]]
      BY <2>1
    <3> DEFINE amount == AmountToRefund(q.key, payment[p])
    <3>2. payment[p] # Null /\ payment[p] \in Rows
      BY <3>1 DEF CanBeginRefund, IsLatest, RowsOf, TypeOK
    <3>3. q.key \in RefundKeys
      BY <1>2, RequestTyped DEF BeginRefund, At, RefundPcs
    <3>4. amount \in Nat
      BY <3>1, <3>2, <3>3, RefundedOfTyped, AmountsAssumption
      DEF CanBeginRefund, ValidRefund, AmountToRefund, Remaining
    <3>5. [q EXCEPT !.pc = "refund_call", !.target = p, !.row = payment[p], !.amount = amount]
            \in Requests
      BY <1>0, <3>2, <3>4 DEF Requests, Amounts, Pcs
    <3>6. req' \in [Reqs -> Requests]
      BY <3>1, <3>5 DEF TypeOK
    <3>q. QED
      BY <1>2, <3>1, <3>6, StoreTyped DEF BeginRefund, TypeOK, database, provider
  <2>2. CASE Return(r) /\ UNCHANGED store
    BY <1>2, <2>2, ReturnTyped DEF BeginRefund, TypeOK, database, provider
  <2>q. QED
    BY <1>2, <2>1, <2>2 DEF BeginRefund
<1>3. ASSUME CallRefund(r)
      PROVE  TypeOK'
  <2>1. /\ HoldsPayment(q)
        /\ q.key \in RefundKeys
    BY <1>3, RequestTyped DEF CallRefund, At, HoldsPayment, RefundPcs
  <2>2. CASE \E status \in RefundStatuses :
               /\ ProviderRefunds(q.key, q.target, q.amount, status)
               /\ req' = [req EXCEPT ![r] = [q EXCEPT !.pc = "refund_commit", !.outcome = status]]
               /\ UNCHANGED <<database, store>>
    <3>1. req' \in [Reqs -> Requests]
      BY <2>2, NewPcTyped DEF Pcs, Outcomes
    <3>q. QED
      BY <1>3, <2>1, <2>2, <3>1, HoldingTyped, ProviderRefundsTyped
      DEF CallRefund, TypeOK, database, SessionRows, RefundRows
  <2>3. CASE RollBack(r) /\ UNCHANGED provider
    BY <1>3, <2>3, RollBackTyped DEF CallRefund, TypeOK, database, provider
  <2>q. QED
    BY <1>3, <2>2, <2>3 DEF CallRefund
<1>4. ASSUME CallRefundFails(r)
      PROVE  TypeOK'
  <2>1. /\ HoldsPayment(q)
        /\ q.key \in RefundKeys
    BY <1>4, RequestTyped DEF CallRefundFails, At, HoldsPayment, RefundPcs
  <2>2. /\ session' \in [CreateKeys -> SessionRows]
        /\ refund' \in [RefundKeys \cup CancelKeys -> RefundRows \cup {Null}]
        /\ UNCHANGED sent
    BY <1>4, <2>1, HoldingTyped, ProviderRefundsTyped
    DEF CallRefundFails, TypeOK, provider, SessionRows, RefundRows
  <2>q. QED
    BY <1>4, <2>2, RollBackTyped, FaultTyped, FaultsAssumption
    DEF CallRefundFails, TypeOK, database, SessionRows, RefundRows
<1>5. ASSUME CommitRefund(r)
      PROVE  TypeOK'
  <2> DEFINE b == BookingOf[q.key]
             mark == RefundedOf(q.row) + q.amount >= Price
  <2>1. /\ HoldsPayment(q)
        /\ b \in Bookings
        /\ q.outcome \in RefundStatuses
    BY <1>5, RequestTyped DEF CommitRefund, At, HoldsPayment, RefundPcs, RequestsFit, RequestFits, OutcomeKnown
  <2>2. payment' = [payment EXCEPT ![q.target] = RefundedRow(q, payment[q.target])]
    BY <1>5, <2>1, HoldingTyped DEF CommitRefund, TypeOK
  <2>3. RefundedRow(q, payment[q.target]) \in Rows
    <3>1. RefundStatusAfter(q) \in RefundStatuses
      BY <2>1 DEF RefundStatusAfter, RefundStatuses
    <3>2. q.row \in Rows /\ payment[q.target] \in Rows
      BY <2>1, HoldingTyped
    <3>q. QED
      BY <1>0, <3>1, <3>2, RefundedRowTyped
  <2>4. payment' \in [CreateKeys -> Rows \cup {Null}]
    BY <2>2, <2>3 DEF TypeOK
  <2>5. booking[b].pay \in BookingPayStatuses
    BY <2>1 DEF TypeOK
  <2>6. booking' = [booking EXCEPT ![b].pay = PayAfterRefund(q, mark, booking[b].pay)]
    BY <1>5, <2>1 DEF CommitRefund, TypeOK
  <2>7. booking' \in [Bookings -> BookingRows]
    <3>1. PayAfterRefund(q, mark, booking[b].pay) \in BookingPayStatuses
      <4>1. mark \in BOOLEAN
        OBVIOUS
      <4>q. QED
        BY <4>1, <2>5, PayAfterRefundTyped
    <3>q. QED
      BY <2>1, <2>6, <3>1, PayTyped
  <2>8. req' \in [Reqs -> Requests]
    BY <1>5, ContinueTyped DEF CommitRefund, Pcs
  <2>q. QED
    BY <1>5, <2>4, <2>7, <2>8 DEF CommitRefund, TypeOK, provider, BookingRows
<1>6. ASSUME CommitRefundFails(r)
      PROVE  TypeOK'
  BY <1>6, ReturnTyped, FaultTyped, FaultsAssumption
  DEF CommitRefundFails, TypeOK, database, provider
<1>7. ASSUME FinishRefund(r)
      PROVE  TypeOK'
  BY <1>7, ReturnTyped, StoreTyped DEF FinishRefund, TypeOK, database, provider
<1>q. QED
  BY <1>1, <1>2, <1>3, <1>4, <1>5, <1>6, <1>7 DEF RefundStep

LEMMA RemainingTyped ==
  ASSUME TypeOK, RefundWithinCharge, NEW p \in CreateKeys, payment[p] # Null
  PROVE  /\ payment[p] \in Rows
         /\ RefundedOf(payment[p]) \in 0..Price
         /\ Remaining(payment[p]) \in 0..Price
         /\ RefundedOf(payment[p]) + Remaining(payment[p]) = Price
<1>1. payment[p] \in Rows
  BY DEF TypeOK
<1>2. RefundedOf(payment[p]) \in 0..Price
  BY <1>1, AmountsAssumption DEF RefundWithinCharge, RefundedOf, Rows, Amounts
<1>q. QED
  BY <1>1, <1>2, AmountsAssumption DEF Remaining

(* What CallAirline chooses to refund fits in what is left of the charge.  *)
LEMMA LeastFits ==
  ASSUME TypeOK, RefundWithinCharge, NEW p \in CreateKeys, payment[p] # Null,
         NEW refundable \in RefundableAmounts \cup {0}
  PROVE  /\ Least(refundable, Remaining(payment[p])) \in Nat
         /\ RefundedOf(payment[p]) + Least(refundable, Remaining(payment[p])) <= Price
BY RemainingTyped, AmountsAssumption DEF Least

LEMMA AirlineTyped ==
  ASSUME TypeOK, NEW b \in Bookings, NEW refundable \in RefundableAmounts \cup {0},
         AirlineCancels(b, refundable)
  PROVE  airline' \in [Bookings -> [cancelled: BOOLEAN, refundable: Amounts]]
<1>1. refundable \in Amounts
  BY AmountsAssumption DEF Amounts
<1>2. [cancelled |-> TRUE, refundable |-> refundable] \in [cancelled: BOOLEAN, refundable: Amounts]
  BY <1>1
<1>3. UNCHANGED airline
        \/ airline' = [airline EXCEPT ![b] = [cancelled |-> TRUE, refundable |-> refundable]]
  BY DEF AirlineCancels
<1>q. QED
  BY <1>2, <1>3 DEF TypeOK

LEMMA CancelTyped ==
  ASSUME IInv, NEW r \in Reqs, CancelStep(r)
  PROVE  TypeOK'
<1> USE DEF IInv
<1> DEFINE q == req[r]
           b == BookingOf[q.key]
<1>0. q \in Requests
  BY DEF TypeOK
<1>1. ASSUME NEW key \in CancelKeys, StartCancel(r, key)
      PROVE  TypeOK'
  <2>1. BookingOf[key] \in Bookings
    BY KeysAssumption DEF Keys
  <2>2. booking[BookingOf[key]].pay \in BookingPayStatuses
    BY <2>1 DEF TypeOK
  <2>3. req' \in [Reqs -> Requests]
    BY <1>1, <2>2, IdleTyped DEF StartCancel, TypeOK, Requests, Pcs, Keys, Idle
  <2>4. store' \in [Keys \cup Events -> StoreStates]
    BY <1>1, StoreTyped DEF StartCancel, TypeOK
  <2>q. QED
    BY <1>1, <2>3, <2>4 DEF StartCancel, TypeOK, database, provider
<1>2. ASSUME CallAirline(r)
      PROVE  TypeOK'
  <2>1. b \in Bookings
    BY <1>2, RequestTyped DEF CallAirline, At, CancelPcs
  <2>2. PICK refundable \in RefundableAmounts \cup {0} :
          /\ AirlineCancels(b, refundable)
          /\ \/ \E p \in CreateKeys :
                  /\ RefundablePayment(q, p)
                  /\ LET amount == Least(refundable, Remaining(payment[p]))
                     IN  req' = [req EXCEPT ![r] =
                           [q EXCEPT !.pc = IF amount > 0 THEN "cancel_refund" ELSE "cancel_commit",
                                     !.target = p, !.row = payment[p], !.amount = amount,
                                     !.outcome = IF amount > 0 THEN "none" ELSE "absorbed"]]
             \/ (\A p \in CreateKeys : ~RefundablePayment(q, p)) /\ Continue(r, "cancel_commit")
    BY <1>2 DEF CallAirline
  <2>3. airline' \in [Bookings -> [cancelled: BOOLEAN, refundable: Amounts]]
    BY <2>1, <2>2, AirlineTyped
  <2>4. ASSUME NEW p \in CreateKeys, RefundablePayment(q, p),
               LET amount == Least(refundable, Remaining(payment[p]))
               IN  req' = [req EXCEPT ![r] =
                     [q EXCEPT !.pc = IF amount > 0 THEN "cancel_refund" ELSE "cancel_commit",
                               !.target = p, !.row = payment[p], !.amount = amount,
                               !.outcome = IF amount > 0 THEN "none" ELSE "absorbed"]]
        PROVE  req' \in [Reqs -> Requests]
    <3> DEFINE amount == Least(refundable, Remaining(payment[p]))
               pc == IF amount > 0 THEN "cancel_refund" ELSE "cancel_commit"
               outcome == IF amount > 0 THEN "none" ELSE "absorbed"
    <3>1. payment[p] # Null
      BY <2>4 DEF RefundablePayment, IsLatest, RowsOf
    <3>2. amount \in Nat
      BY <2>2, <3>1, LeastFits
    <3>3. pc \in Pcs /\ outcome \in Outcomes
      BY DEF Pcs, Outcomes
    <3>4. req' = [req EXCEPT ![r] = [req[r] EXCEPT !.pc = pc, !.target = p, !.row = payment[p],
                                                   !.amount = amount, !.outcome = outcome]]
      BY <2>4
    <3> HIDE DEF amount, pc, outcome
    <3>q. QED
      BY <3>1, <3>2, <3>3, <3>4, HeldTyped
  <2>5. req' \in [Reqs -> Requests]
    BY <2>2, <2>4, ContinueTyped DEF Pcs
  <2>q. QED
    BY <1>2, <2>3, <2>5 DEF CallAirline, TypeOK, database, provider
<1>3. ASSUME CallAirlineFails(r)
      PROVE  TypeOK'
  <2>1. b \in Bookings
    BY <1>3, RequestTyped DEF CallAirlineFails, At, CancelPcs
  <2>2. airline' \in [Bookings -> [cancelled: BOOLEAN, refundable: Amounts]]
    BY <1>3, <2>1, AirlineTyped DEF CallAirlineFails, TypeOK
  <2>q. QED
    BY <1>3, <2>2, RollBackTyped, FaultTyped, FaultsAssumption
    DEF CallAirlineFails, TypeOK, database, provider
<1>4. ASSUME CallCancelRefund(r)
      PROVE  TypeOK'
  <2>1. /\ HoldsPayment(q)
        /\ q.key \in CancelKeys
    BY <1>4, RequestTyped DEF CallCancelRefund, At, HoldsPayment, CancelPcs
  <2>2. req' \in [Reqs -> Requests]
    BY <1>4, NewPcTyped DEF CallCancelRefund, AfterCancelRefund, Pcs, Outcomes, TypeOK
  <2>3. /\ session' \in [CreateKeys -> SessionRows]
        /\ refund' \in [RefundKeys \cup CancelKeys -> RefundRows \cup {Null}]
        /\ UNCHANGED sent
    BY <1>4, <2>1, HoldingTyped, ProviderRefundsTyped
    DEF CallCancelRefund, TypeOK, provider, SessionRows, RefundRows
  <2>q. QED
    BY <1>4, <2>2, <2>3 DEF CallCancelRefund, TypeOK, database, SessionRows, RefundRows
<1>5. ASSUME CallCancelRefundFails(r)
      PROVE  TypeOK'
  <2>1. /\ HoldsPayment(q)
        /\ q.key \in CancelKeys
    BY <1>5, RequestTyped DEF CallCancelRefundFails, At, HoldsPayment, CancelPcs
  <2>2. req' \in [Reqs -> Requests]
    BY <1>5, NewPcTyped DEF CallCancelRefundFails, AfterCancelRefund, Pcs, Outcomes, TypeOK
  <2>3. /\ session' \in [CreateKeys -> SessionRows]
        /\ refund' \in [RefundKeys \cup CancelKeys -> RefundRows \cup {Null}]
        /\ UNCHANGED sent
    BY <1>5, <2>1, HoldingTyped, ProviderRefundsTyped
    DEF CallCancelRefundFails, TypeOK, provider, SessionRows, RefundRows
  <2>q. QED
    BY <1>5, <2>2, <2>3, FaultTyped, FaultsAssumption
    DEF CallCancelRefundFails, TypeOK, database, SessionRows, RefundRows
<1>6. ASSUME CommitCancel(r)
      PROVE  TypeOK'
  <2>1. b \in Bookings
    BY <1>6, RequestTyped DEF CommitCancel, At, CancelPcs
  <2>2. req' \in [Reqs -> Requests]
    BY <1>6, ContinueTyped DEF CommitCancel, Pcs
  <2>3. CASE q.outcome = "none"
    <3>1. booking' = [booking EXCEPT ![b].status = "CANCELLED"] /\ UNCHANGED payment
      BY <1>6, <2>3 DEF CommitCancel
    <3>2. booking[b] \in BookingRows
      BY <2>1 DEF TypeOK, BookingRows
    <3>3. [booking[b] EXCEPT !.status = "CANCELLED"] \in BookingRows
      BY <3>2 DEF BookingRows
    <3>4. booking' \in [Bookings -> BookingRows]
      BY <2>1, <3>1, <3>3 DEF TypeOK, BookingRows
    <3>q. QED
      BY <1>6, <2>2, <3>1, <3>4 DEF CommitCancel, TypeOK, provider, BookingRows
  <2>4. CASE q.outcome # "none"
    <3>1. HoldsPayment(q)
      BY <1>6, <2>4 DEF CommitCancel, At, HoldsPayment
    <3>2. RefundStatusAfter(q) \in RefundStatuses
      BY <1>0, <2>4 DEF RefundStatusAfter, RefundStatuses, Requests, Outcomes
    <3>3. q.target \in CreateKeys /\ q.row \in Rows /\ payment[q.target] \in Rows
      BY <3>1, HoldingTyped
    <3>4. RefundedRow(q, payment[q.target]) \in Rows
      BY <1>0, <3>2, <3>3, RefundedRowTyped
    <3>5. payment' = [payment EXCEPT ![q.target] = RefundedRow(q, payment[q.target])]
      BY <1>6, <2>4, <3>3 DEF CommitCancel, TypeOK
    <3>6. payment' \in [CreateKeys -> Rows \cup {Null}]
      BY <3>4, <3>5 DEF TypeOK
    <3>7. PayAfterRefund(q, TRUE, booking[b].pay) \in BookingPayStatuses
      BY <2>1, PayAfterRefundTyped DEF TypeOK
    <3>8. booking' = [booking EXCEPT ![b] =
             [status |-> "CANCELLED", pay |-> PayAfterRefund(q, TRUE, booking[b].pay)]]
      BY <1>6, <2>1, <2>4 DEF CommitCancel, TypeOK
    <3>9. booking' \in [Bookings -> BookingRows]
      BY <3>7, <3>8 DEF TypeOK, BookingRows
    <3>q. QED
      BY <1>6, <2>2, <3>6, <3>9 DEF CommitCancel, TypeOK, provider, BookingRows
  <2>q. QED
    BY <2>3, <2>4
<1>7. ASSUME CommitCancelFails(r)
      PROVE  TypeOK'
  BY <1>7, RollBackTyped, FaultTyped, FaultsAssumption
  DEF CommitCancelFails, TypeOK, database, provider
<1>8. ASSUME FinishCancel(r)
      PROVE  TypeOK'
  BY <1>8, ReturnTyped, StoreTyped DEF FinishCancel, TypeOK, database, provider
<1>q. QED
  BY <1>1, <1>2, <1>3, <1>4, <1>5, <1>6, <1>7, <1>8 DEF CancelStep

LEMMA HookTyped ==
  ASSUME IInv, HookStep
  PROVE  TypeOK'
<1> USE DEF IInv
<1>1. ASSUME NEW e \in sent, Deliver(e)
      PROVE  TypeOK'
  <2>1. e \in Events
    BY DEF TypeOK
  <2>2. BookingOf[e.key] \in Bookings
    BY <2>1, EventFacts, KeysAssumption DEF Keys
  <2>3. booking[BookingOf[e.key]].pay \in BookingPayStatuses
    BY <2>2 DEF TypeOK
  <2>4. CASE DeliverDuplicate(e)
    BY <2>1, <2>4 DEF DeliverDuplicate, Acknowledge, TypeOK, database, provider
  <2>5. CASE DeliverIgnored(e)
    BY <2>1, <2>5, StoreTyped DEF DeliverIgnored, Acknowledge, TypeOK, database, provider
  <2>6. CASE DeliverApplied(e)
    BY <2>1, <2>3, <2>6, StoreTyped DEF DeliverApplied, TypeOK, database, provider
  <2>q. QED
    BY <1>1, <2>4, <2>5, <2>6 DEF Deliver
<1>2. ASSUME CommitEvent
      PROVE  TypeOK'
  <2> DEFINE e == hook.event
             b == BookingOf[e.key]
             new == NewStatusForEvent(e.type, e.paid)
  <2>1. e \in Events /\ hook.pay \in BookingPayStatuses
    BY <1>2 DEF CommitEvent, HookFits, TypeOK
  <2>2. b \in Bookings /\ e.key \in CreateKeys
    BY <2>1, EventFacts, KeysAssumption DEF Keys
  <2>3. payment[e.key] \in Rows /\ new \in PaymentSessionStatuses
    BY <1>2, <2>1, <2>2, EventFacts
    DEF CommitEvent, HookFits, Applies, TypeOK, PaymentSessionStatuses
  <2>4. payment' \in [CreateKeys -> Rows \cup {Null}]
    <3>1. [payment[e.key] EXCEPT !.status = new] \in Rows
      BY <2>3 DEF Rows
    <3>2. payment' = [payment EXCEPT ![e.key] = [payment[e.key] EXCEPT !.status = new]]
      BY <1>2, <2>2 DEF CommitEvent, TypeOK
    <3>q. QED
      BY <3>1, <3>2 DEF TypeOK
  <2>5. booking' \in [Bookings -> BookingRows]
    <3> DEFINE pay == Written(hook.pay, BookingStatusForSession(new), booking[b].pay)
    <3>1. booking[b].pay \in BookingPayStatuses
      BY <2>2 DEF TypeOK
    <3>2. BookingStatusForSession(new) \in BookingPayStatuses
      BY DEF BookingStatusForSession, BookingPayStatuses
    <3>3. pay \in BookingPayStatuses
      BY <3>1, <3>2 DEF Written
    <3>4. booking' = [booking EXCEPT ![b].pay = pay]
      BY <1>2, <2>2 DEF CommitEvent, TypeOK
    <3> HIDE DEF pay
    <3>q. QED
      BY <2>2, <3>3, <3>4, PayTyped
  <2>6. hook' \in [pc: {"idle", "commit", "ack"}, event: Events \cup {Null}, pay: BookingPayStatuses]
    BY <1>2 DEF CommitEvent, TypeOK
  <2>q. QED
    BY <1>2, <2>4, <2>5, <2>6 DEF CommitEvent, TypeOK, provider, BookingRows
<1>3. HookIdle \in [pc: {"idle", "commit", "ack"}, event: Events \cup {Null}, pay: BookingPayStatuses]
  BY DEF HookIdle, BookingPayStatuses
<1>4. ASSUME CommitEventFails
      PROVE  TypeOK'
  BY <1>3, <1>4, StoreTyped, FaultTyped, FaultsAssumption
  DEF CommitEventFails, TypeOK, database, provider
<1>5. ASSUME FinishEvent
      PROVE  TypeOK'
  <2>1. hook.event \in Events
    BY <1>5 DEF FinishEvent, HookFits, TypeOK
  <2>q. QED
    BY <1>3, <1>5, <2>1, StoreTyped DEF FinishEvent, Acknowledge, TypeOK, database, provider
<1>q. QED
  BY <1>1, <1>2, <1>4, <1>5 DEF HookStep

LEMMA BecomesTyped ==
  ASSUME TypeOK, NEW k \in CreateKeys, NEW state \in SessionStates, NEW kind \in EventKinds,
         SessionBecomes(k, state, kind)
  PROVE  TypeOK'
<1>1. session[k] \in SessionRows
  BY DEF TypeOK, SessionRows
<1>2. [session[k] EXCEPT !.state = state] \in SessionRows
  BY <1>1 DEF SessionRows
<1>3. session' = [session EXCEPT ![k] = [session[k] EXCEPT !.state = state]]
  BY <1>1 DEF SessionBecomes
<1>4. session' \in [CreateKeys -> SessionRows]
  BY <1>2, <1>3, SessionTyped
<1>5. sent' \subseteq Events
  BY EventIn DEF SessionBecomes, TypeOK
<1>q. QED
  BY <1>4, <1>5 DEF SessionBecomes, TypeOK, database, SessionRows

LEMMA WorldTyped ==
  ASSUME IInv, WorldStep
  PROVE  TypeOK'
<1> USE DEF IInv
<1>1. ASSUME NEW k \in CreateKeys, CustomerPays(k) \/ PaymentSettles(k) \/ SessionExpires(k)
      PROVE  TypeOK'
  BY <1>1, BecomesTyped DEF CustomerPays, PaymentSettles, SessionExpires, SessionStates, EventKinds
<1>2. ASSUME Crash
      PROVE  TypeOK'
  BY <1>2, IdleTyped, FaultTyped, FaultsAssumption
  DEF Crash, TypeOK, database, provider, HookIdle, BookingPayStatuses, StoreStates
<1>q. QED
  BY <1>1, <1>2 DEF WorldStep

-----------------------------------------------------------------------------
(* What a step may do to the rows and the sessions.                        *)

(* A request keeps the status of every row, and a refund it records fits;  *)
(* a row it adds is PENDING and has no refund.                             *)
RowKept(k) ==
  /\ payment'[k] # Null
  /\ payment'[k].status = payment[k].status
  /\ \/ payment'[k].refunded = payment[k].refunded
     \/ /\ payment[k].status = "SUCCEEDED"
        /\ payment'[k].refunded \in 0..Price

RowAdded(k) ==
  /\ payment'[k] # Null
  /\ payment'[k].status = "PENDING"
  /\ payment'[k].refunded = Null

RowsKept ==
  \A k \in CreateKeys :
    /\ payment[k] # Null => RowKept(k)
    /\ payment[k] = Null => payment'[k] = Null \/ RowAdded(k)

(* Whoever moves: a row stays, SUCCEEDED is final, a refund stays recorded.*)
RowsStay ==
  \A k \in CreateKeys : payment[k] # Null =>
    /\ payment'[k] # Null
    /\ payment[k].status = "SUCCEEDED" => payment'[k].status = "SUCCEEDED"
    /\ payment[k].refunded # Null => payment'[k].refunded # Null

(* A request at most opens a session.                                      *)
SessionsKept ==
  \A k \in CreateKeys :
    \/ session'[k].state = session[k].state
    \/ session[k].state = "none" /\ session'[k].state = "open"

(* Whoever moves: a session that ended has ended for good.                 *)
SettledStays ==
  \A k \in CreateKeys :
    session[k].state \in {"paid", "failed", "expired"} => session'[k].state = session[k].state

LEMMA KeptIsStay == RowsKept => RowsStay
BY AmountsAssumption DEF RowsKept, RowKept, RowsStay

LEMMA UnchangedKept == UNCHANGED payment => RowsKept
BY DEF RowsKept, RowKept

LEMMA RefundKept ==
  ASSUME IInv, NEW r \in Reqs, HoldsPayment(req[r]),
         req[r].pc \in {"refund_commit", "cancel_commit"},
         payment' = [payment EXCEPT ![req[r].target] = RefundedRow(req[r], payment[req[r].target])]
  PROVE  RowsKept
<1> DEFINE q == req[r]
           p == q.target
<1>1. /\ p \in CreateKeys
      /\ payment[p] \in Rows
      /\ payment[p].status = "SUCCEEDED"
      /\ q.row \in Rows
      /\ q.amount \in Nat
      /\ RefundedOf(q.row) + q.amount <= Price
  BY HoldingTyped DEF IInv
<1>2. /\ RefundedRow(q, payment[p]) \in Rows
      /\ payment'[p] = RefundedRow(q, payment[p])
      /\ \A k \in CreateKeys \ {p} : payment'[k] = payment[k]
  <2>1. q \in Requests
    BY DEF IInv, TypeOK
  <2>2. RefundStatusAfter(q) \in RefundStatuses
    <3>1. q.outcome \in RefundStatuses \cup {"absorbed"}
      BY <2>1 DEF IInv, RequestsFit, RequestFits, OutcomeKnown, HoldsPayment, Requests, Outcomes
    <3>q. QED
      BY <3>1 DEF RefundStatusAfter, RefundStatuses
  <2>3. RefundedRow(q, payment[p]) \in Rows
    BY <1>1, <2>1, <2>2, RefundedRowTyped
  <2>q. QED
    BY <1>1, <2>3 DEF IInv, TypeOK
<1>3. RefundedOf(q.row) + q.amount \in 0..Price
  BY <1>1, RefundedOfTyped, AmountsAssumption
<1>4. payment[p] # Null
  BY <1>1 DEF IInv, RequestsFit, RequestFits, HoldingFits, RowsOf
<1>5. RowKept(p)
  <2>1. RefundedRow(q, payment[p]).status = payment[p].status
    BY <1>1 DEF RefundedRow, Rows
  <2>2. \/ RefundedRow(q, payment[p]).refunded = payment[p].refunded
        \/ RefundedRow(q, payment[p]).refunded = RefundedOf(q.row) + q.amount
    BY <1>1 DEF RefundedRow, Rows, Written
  <2>3. payment'[p] # Null
    BY <1>2, NullAssumption
  <2>q. QED
    BY <1>1, <1>2, <1>3, <2>1, <2>2, <2>3 DEF RowKept
<1>6. ASSUME NEW k \in CreateKeys \ {p}, payment[k] # Null
      PROVE  RowKept(k)
  BY <1>2, <1>6 DEF RowKept
<1>q. QED
  BY <1>2, <1>4, <1>5, <1>6 DEF RowsKept

LEMMA ProviderCreatesKept ==
  ASSUME TypeOK, NEW k \in CreateKeys, ProviderCreates(k)
  PROVE  SessionsKept
<1>1. session[k] \in SessionRows
  BY DEF TypeOK, SessionRows
<1>2. session' = [session EXCEPT ![k] = [session[k] EXCEPT !.state =
        IF session[k].state = "none" THEN "open" ELSE session[k].state]]
  BY <1>1 DEF ProviderCreates
<1>q. QED
  BY <1>1, <1>2 DEF SessionsKept, TypeOK, SessionRows

LEMMA ProviderRefundsKept ==
  ASSUME TypeOK, NEW id, NEW k \in CreateKeys, NEW amount, NEW status,
         ProviderRefunds(id, k, amount, status)
  PROVE  SessionsKept
<1>1. session[k] \in SessionRows
  BY DEF TypeOK, SessionRows
<1>2. \/ UNCHANGED session
      \/ session' = [session EXCEPT ![k] = [session[k] EXCEPT !.returned = session[k].returned + amount]]
  BY <1>1 DEF ProviderRefunds
<1>q. QED
  BY <1>1, <1>2 DEF SessionsKept, TypeOK, SessionRows

LEMMA SessionsUnchanged == UNCHANGED session => SessionsKept
BY DEF SessionsKept

(* The frame of a request's step.                                          *)
LEMMA RequestFrame ==
  ASSUME NEW r \in Reqs, CreateStep(r) \/ RefundStep(r) \/ CancelStep(r)
  PROVE  UNCHANGED <<sent, acked, hook>>
<1>1. CASE CreateStep(r)
  BY Zenon, <1>1 DEF CreateStep, StartCreate, BeginCreate, CallCheckout, CallCheckoutFails, CommitCreate,
    CommitCreateConflicts, CommitCreateFails, FinishCreate, ProviderCreates, provider
<1>2. CASE RefundStep(r)
  BY Zenon, <1>2 DEF RefundStep, StartRefund, BeginRefund, CallRefund, CallRefundFails, CommitRefund,
    CommitRefundFails, FinishRefund, ProviderRefunds, provider
<1>3. CASE CancelStep(r)
  BY Zenon, <1>3 DEF CancelStep, StartCancel, CallAirline, CallAirlineFails, CallCancelRefund,
    CallCancelRefundFails, CommitCancel, CommitCancelFails, FinishCancel, ProviderRefunds, provider
<1>q. QED
  BY <1>1, <1>2, <1>3

LEMMA RequestSessions ==
  ASSUME IInv, NEW r \in Reqs, CreateStep(r) \/ RefundStep(r) \/ CancelStep(r)
  PROVE  SessionsKept
<1> USE DEF IInv
<1>1. CASE CallCheckout(r) \/ CallCheckoutFails(r)
  <2>1. req[r].key \in CreateKeys
    BY <1>1, RequestTyped DEF CallCheckout, CallCheckoutFails, At, CreatePcs
  <2>q. QED
    BY <1>1, <2>1, ProviderCreatesKept, SessionsUnchanged
    DEF CallCheckout, CallCheckoutFails, provider
<1>2. CASE CallRefund(r) \/ CallRefundFails(r) \/ CallCancelRefund(r) \/ CallCancelRefundFails(r)
  <2>1. HoldsPayment(req[r])
    BY <1>2 DEF CallRefund, CallRefundFails, CallCancelRefund, CallCancelRefundFails, At, HoldsPayment
  <2>2. req[r].target \in CreateKeys
    BY <2>1, HoldingTyped
  <2>q. QED
    BY <1>2, <2>2, ProviderRefundsKept, SessionsUnchanged
    DEF CallRefund, CallRefundFails, CallCancelRefund, CallCancelRefundFails, provider
<1>3. CASE UNCHANGED session
  BY <1>3, SessionsUnchanged
<1>4. CASE CreateStep(r)
  BY Zenon, <1>1, <1>3, <1>4 DEF CreateStep, StartCreate, BeginCreate, CommitCreate,
    CommitCreateConflicts, CommitCreateFails, FinishCreate, provider
<1>5. CASE RefundStep(r)
  BY Zenon, <1>2, <1>3, <1>5 DEF RefundStep, StartRefund, BeginRefund, CommitRefund,
    CommitRefundFails, FinishRefund, provider
<1>6. CASE CancelStep(r)
  BY Zenon, <1>2, <1>3, <1>6 DEF CancelStep, StartCancel, CallAirline, CallAirlineFails,
    CommitCancel, CommitCancelFails, FinishCancel, provider
<1>q. QED
  BY <1>4, <1>5, <1>6

LEMMA CreateRowKept ==
  ASSUME IInv, NEW r \in Reqs, CommitCreate(r)
  PROVE  RowsKept
<1> DEFINE key == req[r].key
           row == NewRow({k \in CreateKeys : payment[k] # Null})
<1>1. key \in CreateKeys /\ payment[key] = Null
  BY RequestTyped DEF IInv, CommitCreate, At, CreatePcs
<1>2. row \in Rows /\ row.status = "PENDING" /\ row.refunded = Null
  BY DEF NewRow, Rows, PaymentSessionStatuses
<1>3. payment' = [payment EXCEPT ![key] = row]
  BY DEF CommitCreate
<1> HIDE DEF row
<1>4. payment'[key] = row /\ \A k \in CreateKeys \ {key} : payment'[k] = payment[k]
  BY <1>1, <1>3 DEF IInv, TypeOK
<1>q. QED
  BY <1>1, <1>2, <1>4, NullAssumption DEF RowsKept, RowKept, RowAdded

LEMMA RequestRows ==
  ASSUME IInv, NEW r \in Reqs, CreateStep(r) \/ RefundStep(r) \/ CancelStep(r)
  PROVE  RowsKept
<1> USE DEF IInv
<1>1. CASE CommitRefund(r)
  <2>1. HoldsPayment(req[r]) /\ req[r].pc = "refund_commit"
    BY <1>1 DEF CommitRefund, At, HoldsPayment
  <2>2. req[r].target \in CreateKeys
    BY <2>1, HoldingTyped
  <2>q. QED
    BY <1>1, <2>1, <2>2, RefundKept DEF CommitRefund, TypeOK
<1>2. CASE CommitCancel(r)
  <2>1. CASE req[r].outcome = "none"
    BY <1>2, <2>1, UnchangedKept DEF CommitCancel
  <2>2. CASE req[r].outcome # "none"
    <3>1. HoldsPayment(req[r]) /\ req[r].pc = "cancel_commit"
      BY <1>2, <2>2 DEF CommitCancel, At, HoldsPayment
    <3>2. req[r].target \in CreateKeys
      BY <3>1, HoldingTyped
    <3>q. QED
      BY <1>2, <2>2, <3>1, <3>2, RefundKept DEF CommitCancel, TypeOK
  <2>q. QED
    BY <2>1, <2>2
<1>3. CASE UNCHANGED payment
  BY <1>3, UnchangedKept
<1>4. CASE CreateStep(r)
  BY Zenon, <1>3, <1>4, CreateRowKept DEF CreateStep, StartCreate, BeginCreate, CallCheckout,
    CallCheckoutFails, CommitCreateConflicts, CommitCreateFails, FinishCreate, RollBack, database
<1>5. CASE RefundStep(r)
  BY Zenon, <1>1, <1>3, <1>5 DEF RefundStep, StartRefund, BeginRefund, CallRefund,
    CallRefundFails, CommitRefundFails, FinishRefund, RollBack, database
<1>6. CASE CancelStep(r)
  BY Zenon, <1>2, <1>3, <1>6 DEF CancelStep, StartCancel, CallAirline, CallAirlineFails, CallCancelRefund,
    CallCancelRefundFails, CommitCancelFails, FinishCancel, RollBack, database
<1>q. QED
  BY <1>4, <1>5, <1>6

(* The store remembers events under keys no request uses.                  *)
LEMMA RequestStore ==
  ASSUME IInv, NEW r \in Reqs, CreateStep(r) \/ RefundStep(r) \/ CancelStep(r)
  PROVE  \A e \in Events : store'[e] = store[e]
<1> USE DEF IInv
<1>1. ASSUME NEW k \in Keys, Begin(k) \/ Complete(k) \/ Fail(k) \/ UNCHANGED store
      PROVE  \A e \in Events : store'[e] = store[e]
  BY <1>1, KeysAssumption DEF Begin, Complete, Fail, TypeOK
<1>2. req[r].pc # "idle" => req[r].key \in Keys
  BY DEF TypeOK, Requests, Pcs, RequestsFit, RequestFits, KeyFits, CreatePcs, RefundPcs, CancelPcs, Keys
<1>3. CASE CreateStep(r)
  BY Zenon, <1>1, <1>2, <1>3 DEF CreateStep, StartCreate, BeginCreate, CallCheckout, CommitCreate,
    CallCheckoutFails, CommitCreateConflicts, CommitCreateFails, FinishCreate, RollBack, At
<1>4. CASE RefundStep(r)
  BY Zenon, <1>1, <1>2, <1>4 DEF RefundStep, StartRefund, BeginRefund, CallRefund, CommitRefund,
    CallRefundFails, CommitRefundFails, FinishRefund, RollBack, At
<1>5. CASE CancelStep(r)
  BY Zenon, <1>1, <1>2, <1>5 DEF CancelStep, StartCancel, CallAirline, CallAirlineFails, CallCancelRefund,
    CallCancelRefundFails, CommitCancel, CommitCancelFails, FinishCancel, RollBack, At, Keys
<1>q. QED
  BY <1>3, <1>4, <1>5

(* The event in progress moves its row, and no other.                      *)
LEMMA EventRow ==
  ASSUME IInv, CommitEvent
  PROVE  /\ hook.event \in sent
         /\ hook.event \in Events
         /\ payment[hook.event.key] # Null
         /\ payment[hook.event.key] \in Rows
         /\ CanTransition(payment[hook.event.key].status,
                          NewStatusForEvent(hook.event.type, hook.event.paid))
         /\ payment'[hook.event.key] # Null
         /\ payment'[hook.event.key].status =
              NewStatusForEvent(hook.event.type, hook.event.paid)
         /\ payment'[hook.event.key].refunded = payment[hook.event.key].refunded
         /\ \A k \in CreateKeys : k # hook.event.key => payment'[k] = payment[k]
<1> DEFINE e == hook.event
           new == NewStatusForEvent(e.type, e.paid)
<1>1. /\ e \in sent
      /\ e \in Events
      /\ Applies(e)
  BY DEF IInv, HookFits, CommitEvent, TypeOK
<1>2. e.key \in CreateKeys /\ new \in PaymentSessionStatuses
  BY <1>1, EventFacts DEF PaymentSessionStatuses
<1>3. payment[e.key] # Null /\ payment[e.key] \in Rows /\ CanTransition(payment[e.key].status, new)
  BY <1>1, <1>2 DEF Applies, IInv, TypeOK
<1>4. payment' = [payment EXCEPT ![e.key] = [payment[e.key] EXCEPT !.status = new]]
  BY <1>2 DEF CommitEvent, IInv, TypeOK
<1>5. [payment[e.key] EXCEPT !.status = new] \in Rows
  BY <1>2, <1>3 DEF Rows
<1> HIDE DEF new
<1>6. payment'[e.key] = [payment[e.key] EXCEPT !.status = new]
  BY <1>2, <1>4 DEF IInv, TypeOK
<1>7. payment'[e.key].status = new /\ payment'[e.key].refunded = payment[e.key].refunded
  BY <1>3, <1>6 DEF Rows
<1>q. QED
  BY <1>1, <1>2, <1>3, <1>4, <1>5, <1>6, <1>7, NullAssumption DEF IInv, TypeOK, new

LEMMA EventStay ==
  ASSUME IInv, CommitEvent
  PROVE  RowsStay
<1>1. payment[hook.event.key].status # "SUCCEEDED"
  BY EventRow, TransitionFacts
<1>q. QED
  BY <1>1, EventRow DEF RowsStay

LEMMA HookFrame ==
  ASSUME HookStep
  PROVE  /\ UNCHANGED <<session, sent, req>>
         /\ ~CommitEvent => UNCHANGED <<booking, payment>>
BY DEF HookStep, Deliver, DeliverDuplicate, DeliverIgnored, DeliverApplied, CommitEvent,
       CommitEventFails, FinishEvent, database, provider

LEMMA HookStay ==
  ASSUME IInv, HookStep
  PROVE  RowsStay
BY HookFrame, EventStay, UnchangedKept, KeptIsStay

LEMMA WorldFrame ==
  ASSUME IInv, WorldStep
  PROVE  /\ UNCHANGED <<booking, payment, acked>>
         /\ SettledStays
         /\ sent \subseteq sent'
         /\ \/ UNCHANGED <<store, req, hook>>
            \/ Crash /\ UNCHANGED sent
<1>1. ASSUME NEW k \in CreateKeys, CustomerPays(k) \/ PaymentSettles(k) \/ SessionExpires(k)
      PROVE  /\ UNCHANGED <<booking, payment, acked>>
             /\ SettledStays
             /\ sent \subseteq sent'
             /\ UNCHANGED <<store, req, hook>>
  <2>1. session[k] \in SessionRows
    BY DEF IInv, TypeOK, SessionRows
  <2>2. PICK state : session' = [session EXCEPT ![k] = [session[k] EXCEPT !.state = state]]
    BY <1>1 DEF CustomerPays, PaymentSettles, SessionExpires, SessionBecomes, IInv, TypeOK
  <2>3. session[k].state \notin {"paid", "failed", "expired"}
    BY <1>1 DEF CustomerPays, PaymentSettles, SessionExpires
  <2>4. SettledStays
    BY <2>1, <2>2, <2>3 DEF SettledStays, IInv, TypeOK
  <2>q. QED
    BY <1>1, <2>4 DEF CustomerPays, PaymentSettles, SessionExpires, SessionBecomes, database
<1>2. CASE Crash
  BY <1>2 DEF Crash, database, provider, SettledStays
<1>q. QED
  BY <1>1, <1>2 DEF WorldStep

-----------------------------------------------------------------------------
(* The inductive invariant is kept, part by part.                          *)

LEMMA TypeKept == IInv /\ Next => TypeOK'
BY CreateTyped, RefundTyped, CancelTyped, HookTyped, WorldTyped DEF Next

LEMMA RowsAlwaysStay == IInv /\ Next => RowsStay
BY RequestRows, KeptIsStay, HookStay, WorldFrame, UnchangedKept DEF Next

LEMMA SessionsAlwaysStay == IInv /\ Next => SettledStays
<1>1. ASSUME SessionsKept PROVE SettledStays
  BY <1>1 DEF SessionsKept, SettledStays
<1>2. ASSUME UNCHANGED session PROVE SettledStays
  BY <1>2 DEF SettledStays
<1>q. QED
  BY <1>1, <1>2, RequestSessions, HookFrame, WorldFrame DEF Next

(* SessionBecomes: the session's new state and its event agree.            *)
LEMMA NewEvents ==
  ASSUME IInv, WorldStep
  PROVE  /\ \A e \in sent' \ sent :
               /\ e.paid => session'[e.key].state = "paid"
               /\ e.type = "async_payment_failed" => session'[e.key].state = "failed"
               /\ e.type = "expired" => session'[e.key].state = "expired"
               /\ e.type # "expired" => payment[e.key] # Null
         /\ \A k \in CreateKeys :
               session'[k].state \in {"settling", "paid", "failed"} => payment[k] # Null
<1> DEFINE Agrees(e) ==
             /\ e.paid => session'[e.key].state = "paid"
             /\ e.type = "async_payment_failed" => session'[e.key].state = "failed"
             /\ e.type = "expired" => session'[e.key].state = "expired"
             /\ e.type # "expired" => payment[e.key] # Null
           Begun == \A k \in CreateKeys :
                      session'[k].state \in {"settling", "paid", "failed"} => payment[k] # Null
<1>1. ASSUME NEW k \in CreateKeys, NEW state \in SessionStates, NEW kind \in EventKinds,
             SessionBecomes(k, state, kind),
             kind[2] => state = "paid",
             kind[1] = "async_payment_failed" => state = "failed",
             kind[1] = "expired" => state = "expired",
             kind[1] # "expired" => payment[k] # Null,
             state # "expired" => payment[k] # Null
      PROVE  Begun /\ \A e \in sent' \ sent : Agrees(e)
  <2>1. session[k] \in SessionRows
    BY DEF IInv, TypeOK, SessionRows
  <2>2. session' = [session EXCEPT ![k] = [session[k] EXCEPT !.state = state]]
    BY <1>1, <2>1 DEF SessionBecomes
  <2>3. session'[k] = [session[k] EXCEPT !.state = state]
    BY <2>2 DEF IInv, TypeOK
  <2>4. session'[k].state = state
    BY <2>1, <2>3 DEF SessionRows
  <2>5. \A j \in CreateKeys \ {k} : session'[j] = session[j]
    BY <2>2 DEF IInv, TypeOK
  <2>6. Begun
    BY <1>1, <2>4, <2>5 DEF IInv, SessionsTrue
  <2>7. ASSUME NEW e \in sent' \ sent
        PROVE  Agrees(e)
    <3>1. e = [key |-> k, type |-> kind[1], paid |-> kind[2]]
      BY <1>1, <2>7 DEF SessionBecomes, Event
    <3>q. QED
      BY <1>1, <2>4, <3>1
  <2>q. QED
    BY <2>6, <2>7
<1>2. ASSUME NEW k \in CreateKeys, CustomerPays(k)
      PROVE  Begun /\ \A e \in sent' \ sent : Agrees(e)
  <2>1. CASE SessionBecomes(k, "paid", <<"completed", TRUE>>)
    BY <1>1, <1>2, <2>1 DEF CustomerPays, EventKinds, SessionStates
  <2>2. CASE SessionBecomes(k, "settling", <<"completed", FALSE>>)
    BY <1>1, <1>2, <2>2 DEF CustomerPays, EventKinds, SessionStates
  <2>q. QED
    BY <1>2, <2>1, <2>2 DEF CustomerPays
<1>3. ASSUME NEW k \in CreateKeys, PaymentSettles(k)
      PROVE  Begun /\ \A e \in sent' \ sent : Agrees(e)
  <2>1. payment[k] # Null
    BY <1>3 DEF PaymentSettles, IInv, SessionsTrue
  <2>2. CASE SessionBecomes(k, "paid", <<"async_payment_succeeded", TRUE>>)
    BY <1>1, <2>1, <2>2 DEF EventKinds, SessionStates
  <2>3. CASE SessionBecomes(k, "failed", <<"async_payment_failed", FALSE>>)
    BY <1>1, <2>1, <2>3 DEF EventKinds, SessionStates
  <2>q. QED
    BY <1>3, <2>2, <2>3 DEF PaymentSettles
<1>4. ASSUME NEW k \in CreateKeys, SessionExpires(k)
      PROVE  Begun /\ \A e \in sent' \ sent : Agrees(e)
  BY <1>1, <1>4 DEF SessionExpires, EventKinds, SessionStates
<1>5. ASSUME Crash
      PROVE  Begun /\ \A e \in sent' \ sent : Agrees(e)
  BY <1>5 DEF Crash, provider, IInv, SessionsTrue
<1> HIDE DEF Begun, Agrees
<1>6. Begun /\ \A e \in sent' \ sent : Agrees(e)
  BY <1>2, <1>3, <1>4, <1>5 DEF WorldStep
<1>q. QED
  BY <1>6 DEF Begun, Agrees

LEMMA EventsTrueKept == IInv /\ Next => EventsTrue'
<1> SUFFICES ASSUME IInv, Next, NEW e \in sent'
             PROVE  /\ e.paid => session'[e.key].state = "paid"
                    /\ e.type = "async_payment_failed" => session'[e.key].state = "failed"
                    /\ e.type = "expired" => session'[e.key].state = "expired"
                    /\ e.type # "expired" => payment'[e.key] # Null
  BY DEF EventsTrue
<1>1. CASE e \in sent
  <2>1. e.key \in CreateKeys
    BY <1>1, EventFacts DEF IInv, TypeOK
  <2>q. QED
    BY <1>1, <2>1, RowsAlwaysStay, SessionsAlwaysStay DEF IInv, EventsTrue, RowsStay, SettledStays
<1>2. CASE e \notin sent
  <2>1. WorldStep
    BY <1>2, RequestFrame, HookFrame DEF Next
  <2>q. QED
    BY <1>2, <2>1, NewEvents, WorldFrame
<1>q. QED
  BY <1>1, <1>2

LEMMA SessionsTrueKept == IInv /\ Next => SessionsTrue'
<1> SUFFICES ASSUME IInv, Next, NEW k \in CreateKeys,
                    session'[k].state \in {"settling", "paid", "failed"}
             PROVE  payment'[k] # Null
  BY DEF SessionsTrue
<1>1. CASE payment[k] # Null
  BY <1>1, RowsAlwaysStay DEF RowsStay
<1>2. CASE payment[k] = Null
  <2>1. session[k].state \notin {"settling", "paid", "failed"}
    BY <1>2 DEF IInv, SessionsTrue
  <2>2. ~WorldStep
    BY <1>2, NewEvents
  <2>q. QED
    BY <2>1, <2>2, RequestSessions, HookFrame DEF Next, SessionsKept
<1>q. QED
  BY <1>1, <1>2

LEMMA RowsTrueKept == IInv /\ Next => RowsTrue'
<1> SUFFICES ASSUME IInv, Next, NEW k \in CreateKeys, payment'[k] # Null
             PROVE  /\ payment'[k].status = "SUCCEEDED" => session'[k].state = "paid"
                    /\ payment'[k].status = "FAILED" => session'[k].state = "failed"
                    /\ payment'[k].status = "EXPIRED" => session'[k].state = "expired"
                    /\ payment'[k].status # "CANCELED"
  BY DEF RowsTrue
<1>1. CASE payment[k] # Null /\ payment'[k].status = payment[k].status
  BY <1>1, SessionsAlwaysStay DEF IInv, RowsTrue, SettledStays
<1>2. CASE payment'[k].status = "PENDING"
  BY <1>2
<1>3. CASE CommitEvent /\ k = hook.event.key
  <2> DEFINE e == hook.event
  <2>1. e \in sent /\ e \in Events /\ payment'[k].status = NewStatusForEvent(e.type, e.paid)
    BY <1>3, EventRow
  <2>2. /\ e.paid => session[k].state = "paid"
        /\ e.type = "async_payment_failed" => session[k].state = "failed"
        /\ e.type = "expired" => session[k].state = "expired"
    BY <1>3, <2>1 DEF IInv, EventsTrue
  <2>3. UNCHANGED session
    BY <1>3 DEF CommitEvent, provider
  <2>q. QED
    BY <2>1, <2>2, <2>3, EventFacts
<1>4. \/ payment[k] # Null /\ payment'[k].status = payment[k].status
      \/ payment'[k].status = "PENDING"
      \/ CommitEvent /\ k = hook.event.key
  <2>1. ASSUME NEW r \in Reqs, CreateStep(r) \/ RefundStep(r) \/ CancelStep(r)
        PROVE  \/ payment[k] # Null /\ payment'[k].status = payment[k].status
               \/ payment'[k].status = "PENDING"
    BY <2>1, RequestRows DEF RowsKept, RowKept, RowAdded
  <2>2. ASSUME HookStep \/ WorldStep, k # hook.event.key \/ ~CommitEvent
        PROVE  payment'[k] = payment[k]
    BY <2>2, HookFrame, EventRow, WorldFrame
  <2>q. QED
    BY <2>1, <2>2 DEF Next
<1>q. QED
  BY <1>1, <1>2, <1>3, <1>4

LEMMA RefundWithinChargeKept == IInv /\ Next => RefundWithinCharge'
<1> SUFFICES ASSUME IInv, Next, NEW k \in CreateKeys, payment'[k] # Null, payment'[k].refunded # Null
             PROVE  payment'[k].refunded <= Price /\ payment'[k].status = "SUCCEEDED"
  BY DEF RefundWithinCharge
<1>1. ASSUME NEW r \in Reqs, CreateStep(r) \/ RefundStep(r) \/ CancelStep(r)
      PROVE  payment'[k].refunded <= Price /\ payment'[k].status = "SUCCEEDED"
  BY <1>1, RequestRows, AmountsAssumption DEF IInv, RefundWithinCharge, RowsKept, RowKept, RowAdded
<1>2. CASE CommitEvent
  BY <1>2, EventRow, TransitionFacts DEF IInv, RefundWithinCharge
<1>3. CASE UNCHANGED payment
  BY <1>3 DEF IInv, RefundWithinCharge
<1>q. QED
  BY <1>1, <1>2, <1>3, HookFrame, WorldFrame DEF Next

LEMMA IdleFits ==
  ASSUME NEW r \in Reqs, req'[r] = Idle
  PROVE  RequestFits(r)'
BY DEF RequestFits, KeyFits, HoldingFits, HoldsPayment, OutcomeKnown, Idle,
       CreatePcs, RefundPcs, CancelPcs

LEMMA SameFits ==
  ASSUME IInv, RowsStay, NEW r \in Reqs, req'[r] = req[r]
  PROVE  RequestFits(r)'
<1>1. RequestFits(r)
  BY DEF IInv, RequestsFit
<1>2. KeyFits(req[r])' /\ OutcomeKnown(req[r])' /\ (HoldsPayment(req[r])' <=> HoldsPayment(req[r]))
  BY <1>1 DEF RequestFits, KeyFits, OutcomeKnown, HoldsPayment
<1>3. ASSUME HoldsPayment(req[r])
      PROVE  HoldingFits(req[r])'
  <2>1. /\ req[r].target \in CreateKeys
        /\ BookingOf[req[r].key] = BookingOf[req[r].target]
        /\ payment[req[r].target] # Null
    BY <1>1, <1>3 DEF RequestFits, HoldingFits, RowsOf
  <2>q. QED
    BY <1>1, <1>3, <2>1 DEF RequestFits, HoldingFits, RowsOf, RowsStay, RefundedOf
<1>q. QED
  BY <1>2, <1>3 DEF RequestFits, HoldingFits

(* A request that goes on without touching a payment.                      *)
LEMMA ContinueFits ==
  ASSUME IInv, NEW r \in Reqs, NEW pc, Continue(r, pc),
         \/ req[r].pc \in CreatePcs /\ pc \in CreatePcs
         \/ req[r].pc = "refund_commit" /\ pc = "refund_finish"
         \/ req[r].pc \in CancelPcs /\ pc = "cancel_finish"
         \/ req[r].pc = "cancel_call" /\ pc = "cancel_commit"
  PROVE  RequestFits(r)'
<1>1. req[r] \in Requests /\ RequestFits(r)
  BY DEF IInv, TypeOK, RequestsFit
<1>2. req'[r] = [req[r] EXCEPT !.pc = pc]
  BY DEF Continue, IInv, TypeOK
<1>3. req'[r].pc = pc /\ req'[r].key = req[r].key /\ req'[r].outcome = req[r].outcome
  BY <1>1, <1>2 DEF Requests
<1>4. KeyFits(req[r])'
  BY <1>1, <1>3 DEF RequestFits, KeyFits, CreatePcs, RefundPcs, CancelPcs
<1>5. ~HoldsPayment(req[r])'
  BY <1>1, <1>3 DEF RequestFits, OutcomeKnown, HoldsPayment, CreatePcs
<1>6. OutcomeKnown(req[r])'
  BY <1>1, <1>3 DEF RequestFits, OutcomeKnown, CreatePcs
<1>q. QED
  BY <1>4, <1>5, <1>6 DEF RequestFits, HoldingFits

LEMMA CreateFits ==
  ASSUME IInv, NEW r \in Reqs, CreateStep(r)
  PROVE  RequestFits(r)'
<1>1. ASSUME NEW key \in CreateKeys, StartCreate(r, key)
      PROVE  RequestFits(r)'
  <2>1. req'[r] = [Idle EXCEPT !.pc = "create_begin", !.key = key, !.pay = booking[BookingOf[key]].pay]
    BY <1>1 DEF StartCreate, IInv, TypeOK
  <2>2. req'[r].pc = "create_begin" /\ req'[r].key = key
    BY <2>1 DEF Idle
  <2>q. QED
    BY <2>2 DEF RequestFits, KeyFits, HoldingFits, HoldsPayment, OutcomeKnown, CreatePcs, RefundPcs, CancelPcs
<1>2. ASSUME Return(r)
      PROVE  RequestFits(r)'
  BY <1>2, IdleFits DEF Return, IInv, TypeOK
<1>q. QED
  BY <1>1, <1>2, ContinueFits DEF CreateStep, BeginCreate, CallCheckout, CommitCreate,
    CallCheckoutFails, CommitCreateConflicts, CommitCreateFails, FinishCreate, RollBack, At, CreatePcs

(* A request that has just read the payment p fits.                        *)
LEMMA HoldFits ==
  ASSUME IInv, NEW r \in Reqs, NEW p \in CreateKeys, UNCHANGED payment,
         IsLatest(p, BookingOf[req[r].key]),
         payment[p].status = "SUCCEEDED",
         req'[r].key = req[r].key, req'[r].target = p, req'[r].row = payment[p],
         RefundedOf(payment[p]) + req'[r].amount <= Price
  PROVE  HoldingFits(req[r])'
BY DEF HoldingFits, IsLatest, RowsOf, RefundedOf

LEMMA RefundFits ==
  ASSUME IInv, NEW r \in Reqs, RefundStep(r)
  PROVE  RequestFits(r)'
<1> DEFINE q == req[r]
<1>0. q \in Requests /\ RequestFits(r)
  BY DEF IInv, TypeOK, RequestsFit
<1>1. ASSUME NEW key \in RefundKeys, StartRefund(r, key)
      PROVE  RequestFits(r)'
  <2>1. req'[r] = [Idle EXCEPT !.pc = "refund_begin", !.key = key, !.pay = booking[BookingOf[key]].pay]
    BY <1>1 DEF StartRefund, IInv, TypeOK
  <2>2. req'[r].pc = "refund_begin" /\ req'[r].key = key
    BY <2>1 DEF Idle
  <2>q. QED
    BY <2>2 DEF RequestFits, KeyFits, HoldingFits, HoldsPayment, OutcomeKnown, CreatePcs, RefundPcs, CancelPcs
<1>2. ASSUME Return(r)
      PROVE  RequestFits(r)'
  BY <1>2, IdleFits DEF Return, IInv, TypeOK
<1>3. ASSUME BeginRefund(r), ~Return(r)
      PROVE  RequestFits(r)'
  <2>1. PICK p \in CreateKeys :
          /\ CanBeginRefund(q.key, p)
          /\ req' = [req EXCEPT ![r] =
               [q EXCEPT !.pc = "refund_call", !.target = p, !.row = payment[p],
                         !.amount = AmountToRefund(q.key, payment[p])]]
    BY <1>3 DEF BeginRefund
  <2> DEFINE amount == AmountToRefund(q.key, payment[p])
  <2>2. q.key \in RefundKeys
    BY <1>0, <1>3 DEF BeginRefund, At, RequestFits, KeyFits, RefundPcs
  <2>3. req'[r] = [q EXCEPT !.pc = "refund_call", !.target = p, !.row = payment[p], !.amount = amount]
    BY <2>1 DEF IInv, TypeOK
  <2>4. /\ req'[r].pc = "refund_call" /\ req'[r].key = q.key
        /\ req'[r].target = p /\ req'[r].row = payment[p] /\ req'[r].amount = amount
    BY <1>0, <2>3 DEF Requests
  <2>5. payment[p] \in Rows
    BY <2>1 DEF CanBeginRefund, IsLatest, RowsOf, IInv, TypeOK
  <2>6. RefundedOf(payment[p]) + amount <= Price
    <3>1. amount \in Int
      BY <2>2, <2>5, RefundedOfTyped, AmountsAssumption DEF AmountToRefund, Remaining
    <3> HIDE DEF amount
    <3>2. amount <= Price - RefundedOf(payment[p])
      BY <2>1 DEF CanBeginRefund, ValidRefund, Remaining, amount
    <3>q. QED
      BY <2>5, <3>1, <3>2, RefundedOfTyped, AmountsAssumption
  <2>7. HoldingFits(req[r])'
    BY <1>3, <2>1, <2>4, <2>6, HoldFits DEF CanBeginRefund, BeginRefund, database
  <2>q. QED
    BY <2>2, <2>4, <2>7 DEF RequestFits, KeyFits, OutcomeKnown, CreatePcs, RefundPcs, CancelPcs
<1>4. ASSUME CallRefund(r), ~Return(r)
      PROVE  RequestFits(r)'
  <2>1. PICK status \in RefundStatuses :
          /\ req' = [req EXCEPT ![r] = [q EXCEPT !.pc = "refund_commit", !.outcome = status]]
          /\ UNCHANGED database
    BY <1>4 DEF CallRefund, RollBack
  <2>2. req'[r] = [q EXCEPT !.pc = "refund_commit", !.outcome = status]
    BY <2>1 DEF IInv, TypeOK
  <2>3. /\ req'[r].pc = "refund_commit" /\ req'[r].key = q.key /\ req'[r].outcome = status
        /\ req'[r].target = q.target /\ req'[r].row = q.row /\ req'[r].amount = q.amount
    BY <1>0, <2>2 DEF Requests
  <2>4. q.pc = "refund_call" /\ UNCHANGED payment
    BY <1>4, <2>1 DEF CallRefund, At, database
  <2>q. QED
    BY <1>0, <2>3, <2>4 DEF RequestFits, KeyFits, HoldingFits, HoldsPayment, OutcomeKnown, RowsOf,
      RefundedOf, CreatePcs, RefundPcs, CancelPcs
<1>5. ASSUME CommitRefund(r)
      PROVE  RequestFits(r)'
  BY <1>5, ContinueFits DEF CommitRefund, At
<1>q. QED
  BY <1>1, <1>2, <1>3, <1>4, <1>5 DEF RefundStep, CallRefundFails, CommitRefundFails, FinishRefund, RollBack

LEMMA CancelFits ==
  ASSUME IInv, NEW r \in Reqs, CancelStep(r)
  PROVE  RequestFits(r)'
<1> DEFINE q == req[r]
<1>0. q \in Requests /\ RequestFits(r)
  BY DEF IInv, TypeOK, RequestsFit
<1>1. ASSUME NEW key \in CancelKeys, StartCancel(r, key)
      PROVE  RequestFits(r)'
  <2>1. req'[r] = [Idle EXCEPT !.pc = "cancel_call", !.key = key, !.pay = booking[BookingOf[key]].pay]
    BY <1>1 DEF StartCancel, IInv, TypeOK
  <2>2. req'[r].pc = "cancel_call" /\ req'[r].key = key /\ req'[r].outcome = "none"
    BY <2>1 DEF Idle
  <2>q. QED
    BY <2>2 DEF RequestFits, KeyFits, HoldingFits, HoldsPayment, OutcomeKnown, CreatePcs, RefundPcs, CancelPcs
<1>2. ASSUME Return(r)
      PROVE  RequestFits(r)'
  BY <1>2, IdleFits DEF Return, IInv, TypeOK
<1>3. ASSUME CallAirline(r), ~Continue(r, "cancel_commit")
      PROVE  RequestFits(r)'
  <2>1. PICK refundable \in RefundableAmounts \cup {0}, p \in CreateKeys :
          /\ RefundablePayment(q, p)
          /\ LET amount == Least(refundable, Remaining(payment[p]))
             IN  req' = [req EXCEPT ![r] =
                   [q EXCEPT !.pc = IF amount > 0 THEN "cancel_refund" ELSE "cancel_commit",
                             !.target = p, !.row = payment[p], !.amount = amount,
                             !.outcome = IF amount > 0 THEN "none" ELSE "absorbed"]]
    BY <1>3 DEF CallAirline
  <2> DEFINE amount == Least(refundable, Remaining(payment[p]))
             pc == IF amount > 0 THEN "cancel_refund" ELSE "cancel_commit"
             outcome == IF amount > 0 THEN "none" ELSE "absorbed"
  <2>2. q.key \in CancelKeys
    BY <1>0, <1>3 DEF CallAirline, At, RequestFits, KeyFits, CancelPcs
  <2>3. req' = [req EXCEPT ![r] = [q EXCEPT !.pc = pc, !.target = p, !.row = payment[p],
                                            !.amount = amount, !.outcome = outcome]]
    BY <2>1
  <2>4. payment[p] # Null
    BY <2>1 DEF RefundablePayment, IsLatest, RowsOf
  <2>5. RefundedOf(payment[p]) + amount <= Price
    BY <2>1, <2>4, LeastFits DEF IInv
  <2>6. pc \in {"cancel_refund", "cancel_commit"} /\ (pc = "cancel_refund" => outcome = "none")
    OBVIOUS
  <2> HIDE DEF amount, pc, outcome
  <2>7. req'[r] = [q EXCEPT !.pc = pc, !.target = p, !.row = payment[p],
                            !.amount = amount, !.outcome = outcome]
    BY <2>3 DEF IInv, TypeOK
  <2>8. /\ req'[r].pc = pc /\ req'[r].key = q.key /\ req'[r].outcome = outcome
        /\ req'[r].target = p /\ req'[r].row = payment[p] /\ req'[r].amount = amount
    BY <1>0, <2>7 DEF Requests
  <2>9. HoldingFits(req[r])'
    BY <1>3, <2>1, <2>5, <2>8, HoldFits DEF CallAirline, RefundablePayment, database
  <2>q. QED
    BY <2>2, <2>6, <2>8, <2>9 DEF RequestFits, KeyFits, OutcomeKnown, CreatePcs, RefundPcs, CancelPcs
<1>4. ASSUME NEW outcome, AfterCancelRefund(r, outcome), At(r, "cancel_refund"), UNCHANGED payment
      PROVE  RequestFits(r)'
  <2>1. req'[r] = [q EXCEPT !.pc = "cancel_commit", !.outcome = outcome]
    BY <1>4 DEF AfterCancelRefund, IInv, TypeOK
  <2>2. /\ req'[r].pc = "cancel_commit" /\ req'[r].key = q.key
        /\ req'[r].target = q.target /\ req'[r].row = q.row /\ req'[r].amount = q.amount
    BY <1>0, <2>1 DEF Requests
  <2>3. HoldsPayment(q) /\ q.key \in CancelKeys
    BY <1>0, <1>4 DEF At, HoldsPayment, RequestFits, KeyFits, CancelPcs
  <2>q. QED
    BY <1>0, <1>4, <2>2, <2>3 DEF RequestFits, KeyFits, HoldingFits, OutcomeKnown, RowsOf,
      RefundedOf, CreatePcs, RefundPcs, CancelPcs
<1>5. ASSUME CallCancelRefund(r) \/ CallCancelRefundFails(r)
      PROVE  RequestFits(r)'
  BY <1>4, <1>5 DEF CallCancelRefund, CallCancelRefundFails, database
<1>6. ASSUME CommitCancel(r)
      PROVE  RequestFits(r)'
  BY <1>6, ContinueFits DEF CommitCancel, At, CancelPcs
<1>7. ASSUME CallAirline(r), Continue(r, "cancel_commit")
      PROVE  RequestFits(r)'
  BY <1>7, ContinueFits DEF CallAirline, At
<1>q. QED
  BY <1>1, <1>2, <1>3, <1>5, <1>6, <1>7
  DEF CancelStep, CallAirlineFails, CommitCancelFails, FinishCancel, RollBack

(* A step of one request leaves the others alone.                          *)
LEMMA OthersSame ==
  ASSUME IInv, NEW r \in Reqs, CreateStep(r) \/ RefundStep(r) \/ CancelStep(r)
  PROVE  \A s \in Reqs \ {r} : req'[s] = req[s]
<1>1. \A new : req' = [req EXCEPT ![r] = new] => \A s \in Reqs \ {r} : req'[s] = req[s]
  BY DEF IInv, TypeOK
<1>2. (\E new : req' = [req EXCEPT ![r] = new]) => \A s \in Reqs \ {r} : req'[s] = req[s]
  BY <1>1
<1>3. CASE CreateStep(r)
  BY Zenon, <1>2, <1>3 DEF CreateStep, StartCreate, BeginCreate, CallCheckout, CommitCreate, CallCheckoutFails,
    CommitCreateConflicts, CommitCreateFails, FinishCreate, RollBack, Continue, Return
<1>4. CASE RefundStep(r)
  BY Zenon, <1>2, <1>4 DEF RefundStep, StartRefund, BeginRefund, CallRefund, CommitRefund, CallRefundFails,
    CommitRefundFails, FinishRefund, RollBack, Continue, Return
<1>5. CASE CancelStep(r)
  BY Zenon, <1>2, <1>5 DEF CancelStep, StartCancel, CallAirline, CallAirlineFails, CallCancelRefund,
    CallCancelRefundFails, CommitCancel, CommitCancelFails, FinishCancel, RollBack, Continue,
    Return, AfterCancelRefund
<1>q. QED
  BY <1>3, <1>4, <1>5

LEMMA RequestsFitKept == IInv /\ Next => RequestsFit'
<1> SUFFICES ASSUME IInv, Next, NEW s \in Reqs
             PROVE  RequestFits(s)'
  BY DEF RequestsFit
<1>1. ASSUME NEW r \in Reqs, CreateStep(r) \/ RefundStep(r) \/ CancelStep(r)
      PROVE  RequestFits(s)'
  BY <1>1, CreateFits, RefundFits, CancelFits, OthersSame, SameFits, RowsAlwaysStay
<1>2. CASE HookStep
  BY <1>2, HookFrame, SameFits, RowsAlwaysStay
<1>3. CASE WorldStep
  BY <1>3, WorldFrame, SameFits, IdleFits, RowsAlwaysStay DEF Crash
<1>q. QED
  BY <1>1, <1>2, <1>3 DEF Next

LEMMA RecordedStays ==
  ASSUME IInv, Next, NEW k \in CreateKeys, Recorded(k)
  PROVE  Recorded(k)'
BY RowsAlwaysStay DEF Recorded, RowsStay

(* The statuses, and so what applies, are the same after a request's step. *)
LEMMA AppliesKept ==
  ASSUME IInv, RowsKept, NEW e \in Events, Applies(e)
  PROVE  Applies(e)'
BY EventFacts DEF Applies, RowsKept, RowKept

LEMMA HookFitsKept == IInv /\ Next => HookFits'
<1> SUFFICES ASSUME IInv, Next
             PROVE  HookFits'
  OBVIOUS
<1>0. hook.pc # "idle" => hook.event \in sent /\ hook.event \in Events /\ hook.event.key \in CreateKeys
  BY EventFacts DEF IInv, HookFits, TypeOK
<1>1. ASSUME NEW r \in Reqs, CreateStep(r) \/ RefundStep(r) \/ CancelStep(r)
      PROVE  HookFits'
  <2>1. UNCHANGED <<sent, acked, hook>> /\ RowsKept
    BY <1>1, RequestFrame, RequestRows
  <2>2. hook.pc = "commit" => Applies(hook.event)'
    BY <1>0, <2>1, AppliesKept DEF IInv, HookFits
  <2>3. hook.pc = "ack" /\ hook.event.paid => Recorded(hook.event.key)'
    BY <1>0, <2>1, RecordedStays DEF IInv, HookFits, Recorded
  <2>q. QED
    BY <1>0, <2>1, <2>2, <2>3 DEF HookFits, Applies
<1>2. ASSUME NEW e \in sent, DeliverApplied(e)
      PROVE  HookFits'
  BY <1>2 DEF DeliverApplied, HookFits, Applies, database, provider
<1>3. ASSUME UNCHANGED hook, UNCHANGED <<payment, sent>>
      PROVE  HookFits'
  BY <1>3 DEF IInv, HookFits, Applies, Recorded
<1>4. ASSUME CommitEvent
      PROVE  HookFits'
  <2>1. hook'.pc = "ack" /\ hook'.event = hook.event /\ UNCHANGED sent
    BY <1>4 DEF CommitEvent, provider, IInv, TypeOK
  <2>2. hook.event.paid => Recorded(hook.event.key)'
    BY <1>4, <2>1, EventRow, EventFacts DEF Recorded
  <2>q. QED
    BY <1>4, <2>1, <2>2, EventRow DEF HookFits, Recorded
<1>5. ASSUME hook' = HookIdle
      PROVE  HookFits'
  BY <1>5 DEF HookFits, HookIdle
<1>6. CASE HookStep
  BY <1>2, <1>3, <1>4, <1>5, <1>6 DEF HookStep, Deliver, DeliverDuplicate, DeliverIgnored,
    CommitEventFails, FinishEvent, database, provider
<1>7. CASE WorldStep
  BY <1>5, <1>7, WorldFrame DEF Crash, IInv, HookFits, Applies, Recorded
<1>q. QED
  BY <1>1, <1>6, <1>7 DEF Next

(* What DeliverIgnored drops, if it says the customer was charged, is news *)
(* that is on the row already.                                             *)
LEMMA IgnoredIsRecorded ==
  ASSUME IInv, NEW e \in sent, ~Applies(e), e.paid
  PROVE  Recorded(e.key)
<1>1. e \in Events /\ e.key \in CreateKeys
  BY EventFacts DEF IInv, TypeOK
<1>2. NewStatusForEvent(e.type, e.paid) = "SUCCEEDED" /\ e.type # "expired"
  BY <1>1, EventFacts
<1>3. payment[e.key] # Null /\ session[e.key].state = "paid"
  BY <1>2 DEF IInv, EventsTrue
<1>4. payment[e.key].status \notin {"PENDING", "PROCESSING"}
  BY <1>2, <1>3, EndedIsFinal DEF Applies
<1>5. payment[e.key].status \in PaymentSessionStatuses
  BY <1>1, <1>3 DEF IInv, TypeOK, Rows
<1>q. QED
  BY <1>1, <1>3, <1>4, <1>5 DEF IInv, RowsTrue, Recorded, PaymentSessionStatuses

LEMMA StoreFitsKept == IInv /\ Next => StoreFits'
<1> SUFFICES ASSUME IInv, Next, NEW e \in Events
             PROVE  /\ store'[e] = "in_progress" => hook'.pc # "idle" /\ hook'.event = e
                    /\ store'[e] = "completed" /\ e.paid => Recorded(e.key)'
  BY DEF StoreFits
<1>0. /\ e.key \in CreateKeys
      /\ Recorded(e.key) => Recorded(e.key)'
      /\ store[e] = "in_progress" => hook.pc # "idle" /\ hook.event = e
      /\ store[e] = "completed" /\ e.paid => Recorded(e.key)
  BY EventFacts, RecordedStays DEF IInv, StoreFits
<1>1. ASSUME NEW r \in Reqs, CreateStep(r) \/ RefundStep(r) \/ CancelStep(r)
      PROVE  store'[e] = store[e] /\ UNCHANGED hook
  BY <1>1, RequestFrame, RequestStore
<1>2. ASSUME NEW d \in sent, DeliverIgnored(d)
      PROVE  /\ UNCHANGED hook
             /\ \/ store'[e] = store[e]
                \/ store'[e] = "completed" /\ (e.paid => Recorded(e.key))
  BY <1>2, IgnoredIsRecorded DEF DeliverIgnored, Complete, IInv, TypeOK
<1>3. ASSUME NEW d \in sent, DeliverApplied(d)
      PROVE  /\ store'[e] = "in_progress" => hook'.pc # "idle" /\ hook'.event = e
             /\ store'[e] = "completed" => store[e] = "completed"
  BY <1>0, <1>3 DEF DeliverApplied, Begin, IInv, TypeOK
<1>4. ASSUME NEW d \in sent, DeliverDuplicate(d)
      PROVE  UNCHANGED <<store, hook>>
  BY <1>4 DEF DeliverDuplicate
<1>5. ASSUME CommitEvent
      PROVE  UNCHANGED store /\ hook'.pc = "ack" /\ hook'.event = hook.event
  BY <1>5 DEF CommitEvent, IInv, TypeOK
<1>6. ASSUME CommitEventFails
      PROVE  store'[e] # "in_progress" /\ (store'[e] = "completed" => store[e] = "completed")
  BY <1>0, <1>6 DEF CommitEventFails, Fail, IInv, TypeOK
<1>7. ASSUME FinishEvent
      PROVE  /\ store'[e] # "in_progress"
             /\ store'[e] = "completed" /\ e.paid => Recorded(e.key)
  BY <1>0, <1>7 DEF FinishEvent, Complete, IInv, TypeOK, HookFits
<1>8. ASSUME WorldStep
      PROVE  store'[e] = "absent" \/ UNCHANGED <<store, hook>>
  BY <1>8, WorldFrame DEF Crash
<1>9. CASE HookStep
  BY <1>0, <1>2, <1>3, <1>4, <1>5, <1>6, <1>7, <1>9 DEF HookStep, Deliver
<1>q. QED
  BY <1>0, <1>1, <1>8, <1>9 DEF Next

LEMMA AckedKept == IInv /\ Next => AckedChargeIsRecorded'
<1> SUFFICES ASSUME IInv, Next, NEW e \in acked', e.paid
             PROVE  Recorded(e.key)'
  BY DEF AckedChargeIsRecorded, Recorded
<1>1. e \in Events /\ e.key \in CreateKeys
  <2>1. acked' \subseteq Events
    BY TypeKept DEF TypeOK
  <2>q. QED
    BY <2>1, EventFacts
<1>2. CASE e \in acked
  BY <1>1, <1>2, RecordedStays DEF IInv, AckedChargeIsRecorded, Recorded
<1>3. CASE e \notin acked
  <2>1. HookStep
    BY <1>3, RequestFrame, WorldFrame DEF Next
  <2>2. \/ e \in sent /\ (DeliverDuplicate(e) \/ DeliverIgnored(e))
        \/ FinishEvent /\ e = hook.event
    BY <1>3, <2>1 DEF HookStep, Deliver, DeliverDuplicate, DeliverIgnored, DeliverApplied, Acknowledge,
      CommitEvent, CommitEventFails, FinishEvent
  <2>3. CASE e \in sent /\ DeliverDuplicate(e)
    <3>1. store[e] = "completed"
      BY <1>1, <2>3 DEF DeliverDuplicate, IInv, StoreFits, TypeOK, StoreStates
    <3>q. QED
      BY <1>1, <3>1, RecordedStays DEF IInv, StoreFits
  <2>4. CASE e \in sent /\ DeliverIgnored(e)
    BY <1>1, <2>4, IgnoredIsRecorded, RecordedStays DEF DeliverIgnored
  <2>5. CASE FinishEvent /\ e = hook.event
    <3>1. Recorded(e.key)
      BY <2>5 DEF FinishEvent, IInv, HookFits
    <3>q. QED
      BY <1>1, <3>1, RecordedStays
  <2>q. QED
    BY <2>2, <2>3, <2>4, <2>5
<1>q. QED
  BY <1>2, <1>3

(* What a request may do to the payment status of a booking.               *)
LEMMA RequestPay ==
  ASSUME IInv, NEW r \in Reqs, CreateStep(r) \/ RefundStep(r) \/ CancelStep(r), NEW b \in Bookings
  PROVE  \/ booking'[b].pay = booking[b].pay
         \/ booking'[b].pay = "PENDING"
         \/ \E k \in RowsOf(b) : Recorded(k)
<1> DEFINE q == req[r]
           c == BookingOf[q.key]
<1>1. CASE UNCHANGED booking
  BY <1>1
<1>2. CASE CommitCreate(r)
  <2>1. c \in Bookings
    BY <1>2, RequestTyped DEF CommitCreate, At, CreatePcs, IInv
  <2>2. booking[c] \in BookingRows
    BY <2>1 DEF IInv, TypeOK, BookingRows
  <2>3. booking' = [booking EXCEPT ![c] =
           [booking[c] EXCEPT !.pay = Written(q.pay, "PENDING", booking[c].pay)]]
    BY <1>2, <2>1 DEF CommitCreate, IInv, TypeOK
  <2>q. QED
    BY <2>1, <2>2, <2>3 DEF Written, IInv, TypeOK, BookingRows
<1>3. ASSUME HoldsPayment(q), c \in Bookings, \A d \in Bookings \ {c} : booking'[d] = booking[d]
      PROVE  booking'[b].pay = booking[b].pay \/ \E k \in RowsOf(b) : Recorded(k)
  BY <1>3 DEF IInv, RequestsFit, RequestFits, HoldingFits, RowsOf, Recorded
<1>4. CASE CommitRefund(r)
  <2>1. c \in Bookings /\ HoldsPayment(q)
    BY <1>4, RequestTyped DEF CommitRefund, At, HoldsPayment, RefundPcs, IInv
  <2>2. \A d \in Bookings \ {c} : booking'[d] = booking[d]
    BY <1>4 DEF CommitRefund, IInv, TypeOK
  <2>q. QED
    BY <1>3, <2>1, <2>2
<1>5. CASE CommitCancel(r)
  <2>1. c \in Bookings
    BY <1>5, RequestTyped DEF CommitCancel, At, CancelPcs, IInv
  <2>2. CASE q.outcome = "none"
    BY <1>5, <2>1, <2>2 DEF CommitCancel, IInv, TypeOK
  <2>3. CASE q.outcome # "none"
    <3>1. HoldsPayment(q)
      BY <1>5, <2>3 DEF CommitCancel, At, HoldsPayment
    <3>2. \A d \in Bookings \ {c} : booking'[d] = booking[d]
      BY <1>5, <2>3 DEF CommitCancel, IInv, TypeOK
    <3>q. QED
      BY <1>3, <2>1, <3>1, <3>2
  <2>q. QED
    BY <2>2, <2>3
<1>6. CASE CreateStep(r)
  BY Zenon, <1>1, <1>2, <1>6 DEF CreateStep, StartCreate, BeginCreate, CallCheckout, CallCheckoutFails,
    CommitCreateConflicts, CommitCreateFails, FinishCreate, RollBack, database
<1>7. CASE RefundStep(r)
  BY Zenon, <1>1, <1>4, <1>7 DEF RefundStep, StartRefund, BeginRefund, CallRefund, CallRefundFails,
    CommitRefundFails, FinishRefund, RollBack, database
<1>8. CASE CancelStep(r)
  BY Zenon, <1>1, <1>5, <1>8 DEF CancelStep, StartCancel, CallAirline, CallAirlineFails, CallCancelRefund,
    CallCancelRefundFails, CommitCancelFails, FinishCancel, RollBack, database
<1>q. QED
  BY <1>6, <1>7, <1>8

(* The webhook shows PAID only for the row it has just moved to SUCCEEDED. *)
LEMMA EventPay ==
  ASSUME IInv, CommitEvent, NEW b \in Bookings, booking'[b].pay \in {"PAID", "REFUNDED"}
  PROVE  \/ booking'[b].pay = booking[b].pay
         \/ /\ hook.event.key \in RowsOf(b)
            /\ Recorded(hook.event.key)'
            /\ Charged(hook.event.key)
<1> DEFINE e == hook.event
           c == BookingOf[e.key]
           new == NewStatusForEvent(e.type, e.paid)
           pay == Written(hook.pay, BookingStatusForSession(new), booking[c].pay)
<1>1. e \in sent /\ e \in Events /\ e.key \in CreateKeys
  BY EventRow, EventFacts
<1>2. c \in Bookings
  BY <1>1, KeysAssumption DEF Keys
<1>3. booking[c] \in BookingRows
  BY <1>2 DEF IInv, TypeOK, BookingRows
<1>4. booking' = [booking EXCEPT ![c] = [booking[c] EXCEPT !.pay = pay]]
  BY <1>2 DEF CommitEvent, IInv, TypeOK
<1>5. CASE b # c
  BY <1>4, <1>5 DEF IInv, TypeOK
<1>6. CASE b = c
  <2>1. booking'[b].pay = pay
    <3> HIDE DEF pay
    <3>q. QED
      BY <1>2, <1>3, <1>4, <1>6 DEF IInv, TypeOK, BookingRows
  <2>2. pay = booking[c].pay \/ pay = BookingStatusForSession(new)
    BY DEF Written
  <2>3. CASE pay = booking[c].pay
    BY <1>6, <2>1, <2>3
  <2>4. CASE pay = BookingStatusForSession(new)
    <3>1. new = "SUCCEEDED"
      BY <2>1, <2>4 DEF BookingStatusForSession
    <3>2. Charged(e.key)
      BY <1>1, <3>1, EventFacts DEF IInv, EventsTrue, Charged
    <3>3. payment[e.key] # Null /\ payment'[e.key] # Null /\ payment'[e.key].status = "SUCCEEDED"
      BY <3>1, EventRow
    <3>4. hook'.event = e
      BY DEF CommitEvent, IInv, TypeOK
    <3>q. QED
      BY <1>1, <1>6, <3>2, <3>3, <3>4 DEF RowsOf, Recorded
  <2>q. QED
    BY <2>2, <2>3, <2>4
<1>q. QED
  BY <1>5, <1>6

LEMMA PaidIsChargedKept == IInv /\ Next => PaidIsCharged'
<1> SUFFICES ASSUME IInv, Next, NEW b \in Bookings, booking'[b].pay \in {"PAID", "REFUNDED"}
             PROVE  \E k \in CreateKeys :
                      /\ BookingOf[k] = b
                      /\ payment'[k] # Null
                      /\ payment'[k].status = "SUCCEEDED"
                      /\ session'[k].state = "paid"
  BY DEF PaidIsCharged, RowsOf, Charged
<1>1. ASSUME NEW k \in RowsOf(b), Recorded(k)
      PROVE  /\ BookingOf[k] = b
             /\ payment'[k] # Null
             /\ payment'[k].status = "SUCCEEDED"
             /\ session'[k].state = "paid"
  <2>1. k \in CreateKeys /\ BookingOf[k] = b
    BY DEF RowsOf
  <2>2. session[k].state = "paid"
    BY <1>1, <2>1 DEF Recorded, IInv, RowsTrue
  <2>q. QED
    BY <1>1, <2>1, <2>2, RowsAlwaysStay, SessionsAlwaysStay DEF Recorded, RowsStay, SettledStays
<1>2. CASE booking'[b].pay = booking[b].pay
  BY <1>1, <1>2 DEF IInv, PaidIsCharged, RowsOf, Recorded
<1>3. CASE \E k \in RowsOf(b) : Recorded(k)
  BY <1>1, <1>3 DEF RowsOf
<1>4. CASE CommitEvent /\ booking'[b].pay # booking[b].pay
  <2> DEFINE e == hook.event
  <2>1. hook'.event = e /\ UNCHANGED session
    BY <1>4 DEF CommitEvent, provider, IInv, TypeOK
  <2>2. e.key \in RowsOf(b) /\ Recorded(hook.event.key)' /\ Charged(e.key)
    BY <1>4, EventPay
  <2>q. QED
    BY <2>1, <2>2 DEF RowsOf, Recorded, Charged
<1>5. \/ booking'[b].pay = booking[b].pay
      \/ \E k \in RowsOf(b) : Recorded(k)
      \/ CommitEvent
  BY RequestPay, HookFrame, WorldFrame DEF Next
<1>q. QED
  BY <1>2, <1>3, <1>4, <1>5

-----------------------------------------------------------------------------
(* The theorems.                                                           *)

LEMMA InitInvariant == Init => IInv
<1> SUFFICES ASSUME Init
             PROVE  IInv
  OBVIOUS
<1>1. TypeOK
  BY IdleTyped, FaultsAssumption
  DEF Init, TypeOK, HookIdle, BookingPayStatuses, StoreStates, SessionStates, Amounts
<1>2. RequestsFit
  BY DEF Init, RequestsFit, RequestFits, KeyFits, HoldingFits, HoldsPayment, OutcomeKnown, Idle,
    CreatePcs, RefundPcs, CancelPcs
<1>3. EventsTrue /\ SessionsTrue /\ RowsTrue
  BY DEF Init, EventsTrue, SessionsTrue, RowsTrue
<1>4. HookFits /\ StoreFits
  BY DEF Init, HookFits, StoreFits, HookIdle
<1>5. RefundWithinCharge /\ PaidIsCharged /\ AckedChargeIsRecorded
  BY DEF Init, RefundWithinCharge, PaidIsCharged, AckedChargeIsRecorded
<1>q. QED
  BY <1>1, <1>2, <1>3, <1>4, <1>5 DEF IInv

LEMMA NextInvariant == IInv /\ [Next]_vars => IInv'
<1>1. ASSUME IInv, Next
      PROVE  IInv'
  BY <1>1, TypeKept, RequestsFitKept, EventsTrueKept, SessionsTrueKept, RowsTrueKept, HookFitsKept,
    StoreFitsKept, RefundWithinChargeKept, PaidIsChargedKept, AckedKept DEF IInv
<1>2. ASSUME IInv, UNCHANGED vars
      PROVE  IInv'
  <2>1. TypeOK'
    BY <1>2 DEF vars, IInv, TypeOK
  <2>2. RequestsFit'
    BY <1>2 DEF vars, IInv, RequestsFit, RequestFits, KeyFits, HoldingFits, HoldsPayment, OutcomeKnown, RowsOf
  <2>3. EventsTrue' /\ SessionsTrue' /\ RowsTrue'
    BY <1>2 DEF vars, IInv, EventsTrue, SessionsTrue, RowsTrue
  <2>4. HookFits' /\ StoreFits'
    BY <1>2 DEF vars, IInv, HookFits, Applies, Recorded, StoreFits
  <2>5. RefundWithinCharge' /\ PaidIsCharged' /\ AckedChargeIsRecorded'
    BY <1>2 DEF vars, IInv, RefundWithinCharge, PaidIsCharged, AckedChargeIsRecorded, RowsOf, Charged
  <2>q. QED
    BY <2>1, <2>2, <2>3, <2>4, <2>5 DEF IInv
<1>q. QED
  BY <1>1, <1>2

(* Every behaviour of the payment services keeps the inductive invariant.  *)
THEOREM Invariance == Spec => []IInv
BY InitInvariant, NextInvariant, PTL DEF Spec

(* The rows, requests and stores stay of their types: no amount goes       *)
(* negative, no status leaves its vocabulary, whatever the constants.      *)
THEOREM TypeCorrect == Spec => []TypeOK
<1>1. IInv => TypeOK
  BY DEF IInv
<1>q. QED
  BY <1>1, Invariance, PTL

(* handle_webhook_event and the refunds: for any number of bookings, keys, *)
(* threads and faults, a booking that shows PAID or REFUNDED has a         *)
(* SUCCEEDED row of its own whose session the customer really paid.        *)
THEOREM PaidAlwaysCharged == Spec => []PaidIsCharged
<1>1. IInv => PaidIsCharged
  BY DEF IInv
<1>q. QED
  BY <1>1, Invariance, PTL

(* handle_webhook_event: Stripe is never told to forget a charge that is   *)
(* not yet on its row.                                                     *)
THEOREM AckedAlwaysRecorded == Spec => []AckedChargeIsRecorded
<1>1. IInv => AckedChargeIsRecorded
  BY DEF IInv
<1>q. QED
  BY <1>1, Invariance, PTL

(* refund_payment and cancel: refunds of one payment never add up, on its  *)
(* row, to more than was charged, however many overlap.                    *)
THEOREM RefundAlwaysWithinCharge == Spec => []RefundWithinCharge
<1>1. IInv => RefundWithinCharge
  BY DEF IInv
<1>q. QED
  BY <1>1, Invariance, PTL

-----------------------------------------------------------------------------
(* Refinement: every step is a step of one row's lifecycle, or a stutter.  *)

LEMMA LifecycleInit == Init => Lifecycle!Init
BY DEF Init, Lifecycle!Init, RowStatus, RefundedRows

LEMMA CreateStarts ==
  ASSUME IInv, NEW r \in Reqs, CommitCreate(r)
  PROVE  Lifecycle!Next
<1> DEFINE key == req[r].key
           row == NewRow({k \in CreateKeys : payment[k] # Null})
<1>1. key \in CreateKeys /\ payment[key] = Null
  BY RequestTyped DEF IInv, CommitCreate, At, CreatePcs
<1>2. row \in Rows /\ row.status = "PENDING" /\ row.refunded = Null
  BY DEF NewRow, Rows, PaymentSessionStatuses
<1>3. payment' = [payment EXCEPT ![key] = row]
  BY DEF CommitCreate
<1> HIDE DEF row
<1>4. payment'[key] = row /\ \A k \in CreateKeys \ {key} : payment'[k] = payment[k]
  BY <1>1, <1>3 DEF IInv, TypeOK
<1>5. RowStatus' = [RowStatus EXCEPT ![key] = "PENDING"]
  BY <1>1, <1>2, <1>4, NullAssumption DEF RowStatus
<1>6. RefundedRows' = RefundedRows
  BY <1>1, <1>2, <1>4 DEF RefundedRows
<1>7. RowStatus[key] = "none"
  BY <1>1 DEF RowStatus
<1>8. Lifecycle!Start(key)
  BY <1>5, <1>6, <1>7 DEF Lifecycle!Start, Lifecycle!Move
<1>q. QED
  BY <1>1, <1>8 DEF Lifecycle!Next

LEMMA RefundReimburses ==
  ASSUME IInv, NEW r \in Reqs, HoldsPayment(req[r]),
         req[r].pc \in {"refund_commit", "cancel_commit"},
         payment' = [payment EXCEPT ![req[r].target] = RefundedRow(req[r], payment[req[r].target])]
  PROVE  Lifecycle!Next
<1> DEFINE p == req[r].target
<1>1. /\ p \in CreateKeys
      /\ payment[p] \in Rows
      /\ payment[p].status = "SUCCEEDED"
      /\ req[r].row \in Rows
      /\ req[r].amount \in Nat
      /\ req[r].row.refunded # Null => payment[p].refunded # Null
  BY HoldingTyped DEF IInv
<1>2. RowsKept
  BY RefundKept
<1>3. \A k \in CreateKeys \ {p} : payment'[k] = payment[k]
  BY DEF IInv, TypeOK
<1>4. payment[p] # Null /\ payment'[p] # Null /\ payment'[p].status = payment[p].status
  BY <1>1, <1>2, NullAssumption DEF RowsKept, RowKept
<1>5. payment'[p].refunded # Null
  <2>1. payment'[p].refunded = Written(req[r].row.refunded, RefundedOf(req[r].row) + req[r].amount,
                                       payment[p].refunded)
    BY <1>1 DEF RefundedRow, Rows, IInv, TypeOK
  <2>2. RefundedOf(req[r].row) + req[r].amount # Null
    BY <1>1, RefundedOfTyped, AmountsAssumption
  <2>q. QED
    BY <1>1, <2>1, <2>2 DEF Written
<1>6. RowStatus' = RowStatus
  BY <1>1, <1>3, <1>4 DEF RowStatus
<1>7. RefundedRows' = RefundedRows \cup {p}
  BY <1>1, <1>3, <1>4, <1>5 DEF RefundedRows
<1>8. RowStatus[p] = "SUCCEEDED"
  BY <1>1, <1>4 DEF RowStatus
<1>9. Lifecycle!Reimburse(p)
  BY <1>6, <1>7, <1>8 DEF Lifecycle!Reimburse
<1>q. QED
  BY <1>1, <1>9 DEF Lifecycle!Next

LEMMA EventMoves ==
  ASSUME IInv, CommitEvent
  PROVE  Lifecycle!Next
<1> DEFINE k == hook.event.key
           new == NewStatusForEvent(hook.event.type, hook.event.paid)
<1>1. k \in CreateKeys /\ new \in {"SUCCEEDED", "PROCESSING", "FAILED", "EXPIRED"}
  BY EventRow, EventFacts
<1>2. /\ payment[k] # Null /\ payment'[k] # Null
      /\ CanTransition(payment[k].status, new)
      /\ payment'[k].status = new
      /\ payment'[k].refunded = payment[k].refunded
      /\ \A j \in CreateKeys : j # k => payment'[j] = payment[j]
  BY EventRow
<1> HIDE DEF new
<1>3. RowStatus' = [RowStatus EXCEPT ![k] = new]
  BY <1>1, <1>2 DEF RowStatus
<1>4. RefundedRows' = RefundedRows
  BY <1>1, <1>2 DEF RefundedRows
<1>5. RowStatus[k] = payment[k].status
  BY <1>1, <1>2 DEF RowStatus
<1>6. /\ RowStatus[k] \in {"PENDING", "PROCESSING"}
      /\ new \in {"EXPIRED", "PROCESSING"} => RowStatus[k] = "PENDING"
  BY <1>2, <1>5, TransitionFacts
<1>7. \/ Lifecycle!Settle(k) \/ Lifecycle!Succeed(k)
      \/ Lifecycle!Miscarry(k) \/ Lifecycle!Lapse(k)
  BY Zenon, <1>1, <1>3, <1>4, <1>6
  DEF Lifecycle!Settle, Lifecycle!Succeed, Lifecycle!Miscarry, Lifecycle!Lapse, Lifecycle!Move
<1>q. QED
  BY <1>1, <1>7 DEF Lifecycle!Next

LEMMA LifecycleStep == IInv /\ [Next]_vars => [Lifecycle!Next]_(Lifecycle!lifecycleVars)
<1> SUFFICES ASSUME IInv, [Next]_vars, ~UNCHANGED payment
             PROVE  Lifecycle!Next
  BY DEF Lifecycle!lifecycleVars, RowStatus, RefundedRows
<1>1. Next
  BY DEF vars
<1>2. ASSUME NEW r \in Reqs, CreateStep(r) \/ RefundStep(r) \/ CancelStep(r)
      PROVE  CommitCreate(r) \/ CommitRefund(r) \/ CommitCancel(r)
  BY Zenon, <1>2 DEF CreateStep, StartCreate, BeginCreate, CallCheckout, CallCheckoutFails,
    CommitCreateConflicts, CommitCreateFails, FinishCreate, RefundStep, StartRefund, BeginRefund,
    CallRefund, CallRefundFails, CommitRefundFails, FinishRefund, CancelStep, StartCancel, CallAirline,
    CallAirlineFails, CallCancelRefund, CallCancelRefundFails, CommitCancelFails, FinishCancel,
    RollBack, database
<1>3. ASSUME NEW r \in Reqs, CommitRefund(r)
      PROVE  Lifecycle!Next
  <2>1. HoldsPayment(req[r]) /\ req[r].pc = "refund_commit"
    BY <1>3 DEF CommitRefund, At, HoldsPayment
  <2>2. req[r].target \in CreateKeys
    BY <2>1, HoldingTyped DEF IInv
  <2>q. QED
    BY <1>3, <2>1, <2>2, RefundReimburses DEF CommitRefund, IInv, TypeOK
<1>4. ASSUME NEW r \in Reqs, CommitCancel(r)
      PROVE  Lifecycle!Next
  <2>1. req[r].outcome # "none"
    BY <1>4 DEF CommitCancel
  <2>2. HoldsPayment(req[r]) /\ req[r].pc = "cancel_commit"
    BY <1>4, <2>1 DEF CommitCancel, At, HoldsPayment
  <2>3. req[r].target \in CreateKeys
    BY <2>2, HoldingTyped DEF IInv
  <2>q. QED
    BY <1>4, <2>1, <2>2, <2>3, RefundReimburses DEF CommitCancel, IInv, TypeOK
<1>q. QED
  BY <1>1, <1>2, <1>3, <1>4, CreateStarts, EventMoves, HookFrame, WorldFrame DEF Next

(* The services implement the lifecycle of Payment rows: each row moves    *)
(* only forward, ends once, and is refunded only after it SUCCEEDED.       *)
THEOREM LifecycleImplemented == Spec => ImplementsLifecycle
<1>1. Spec => Lifecycle!Init
  BY LifecycleInit DEF Spec
<1>q. QED
  BY <1>1, Invariance, LifecycleStep, PTL DEF Spec, ImplementsLifecycle, Lifecycle!Spec
-----------------------------------------------------------------------------
(* Cancellations and keys: a second invariant, on top of the first.        *)

(* A request is at work on a key from store.begin to complete or fail.     *)
WorkPcs == {"create_call", "create_commit", "create_finish"} \cup CancelPcs
Working(r, k) == req[r].key = k /\ req[r].pc \in WorkPcs

KeysWorked ==
  \A k \in CreateKeys \cup CancelKeys : store[k] = "in_progress" => \E r \in Reqs : Working(r, k)

(* A cancellation that has its answer is of a booking the airline has      *)
(* cancelled; one about to refund is the first to, within that answer.     *)
CancelTrue(r) ==
  LET b == BookingOf[req[r].key] IN
  /\ req[r].pc \in {"cancel_refund", "cancel_commit"} => airline[b].cancelled
  /\ req[r].pc = "cancel_refund" =>
       /\ req[r].amount <= airline[b].refundable
       /\ \A c \in CancelKeys : BookingOf[c] = b => refund[c] = Null

OneRefunding ==
  \A r, s \in Reqs :
    req[r].pc = "cancel_refund" /\ req[s].pc = "cancel_refund"
    /\ BookingOf[req[r].key] = BookingOf[req[s].key] => r = s

CancelsTrue ==
  /\ \A r \in Reqs : CancelTrue(r)
  /\ OneRefunding
  /\ OneRefundPerCancellation
  /\ CancelledAtAirline

CInv == IInv /\ KeysWorked /\ CancelsTrue

(* The keys.                                                               *)

LEMMA KeyKinds ==
  /\ \A k \in CreateKeys \cup CancelKeys : k \in Keys \cup Events /\ k \notin Events
  /\ \A k \in CreateKeys \cup CancelKeys : k \notin RefundKeys
  /\ \A k \in RefundKeys : k \in Keys /\ k \notin CancelKeys /\ k \notin CreateKeys
  /\ \A k \in CancelKeys : k \notin CreateKeys /\ k \in RefundKeys \cup CancelKeys
BY KeysAssumption DEF Keys

(* What a step of r does to the keys: one it leaves in progress it works   *)
(* on itself, or was in progress before and not its own.                   *)
KeyStep(r, k) ==
  store'[k] = "in_progress" =>
    \/ Working(r, k)'
    \/ store[k] = "in_progress" /\ ~Working(r, k)

(* A request that goes on, starts or ends.                                 *)
LEMMA GoesOn ==
  ASSUME TypeOK, NEW r \in Reqs, NEW pc \in WorkPcs, Continue(r, pc), UNCHANGED store, NEW k
  PROVE  KeyStep(r, k)
<1>1. req[r] \in Requests /\ req'[r] = [req[r] EXCEPT !.pc = pc]
  BY DEF TypeOK, Continue
<1>2. req'[r].pc = pc /\ req'[r].key = req[r].key
  BY <1>1 DEF Requests
<1> QED
  BY <1>2 DEF KeyStep, Working

LEMMA Ends ==
  ASSUME TypeOK, NEW r \in Reqs, Fail(req[r].key) \/ Complete(req[r].key),
         NEW k \in CreateKeys \cup CancelKeys
  PROVE  KeyStep(r, k)
<1>1. k \in Keys \cup Events
  BY KeyKinds
<1>2. req[r].key # k => store'[k] = store[k]
  BY <1>1 DEF TypeOK, Fail, Complete
<1>3. req[r].key = k => store'[k] # "in_progress"
  BY <1>1 DEF TypeOK, Fail, Complete
<1> QED
  BY <1>2, <1>3 DEF KeyStep, Working

LEMMA CreateKeyStep ==
  ASSUME IInv, NEW r \in Reqs, CreateStep(r), NEW k \in CreateKeys \cup CancelKeys
  PROVE  KeyStep(r, k)
<1>1. req[r] \in Requests /\ k \in Keys \cup Events /\ TypeOK
  BY KeyKinds DEF IInv, TypeOK
<1>2. ASSUME NEW key \in CreateKeys, StartCreate(r, key)
      PROVE  KeyStep(r, k)
  BY <1>2 DEF StartCreate, At, KeyStep, Working, WorkPcs, CancelPcs
<1>3. ASSUME BeginCreate(r)
      PROVE  KeyStep(r, k)
  <2>1. ~(req[r].pc \in WorkPcs)
    BY <1>3 DEF BeginCreate, At, WorkPcs, CancelPcs
  <2>2. CASE UNCHANGED store
    BY <2>1, <2>2 DEF KeyStep, Working
  <2>3. CASE Begin(req[r].key) /\ Continue(r, "create_call")
    <3>1. req'[r] = [req[r] EXCEPT !.pc = "create_call"]
      BY <1>1, <2>3 DEF TypeOK, Continue
    <3>2. req'[r].pc = "create_call" /\ req'[r].key = req[r].key
      BY <1>1, <3>1 DEF Requests
    <3>3. k # req[r].key => store'[k] = store[k]
      BY <1>1, <2>3 DEF TypeOK, Begin
    <3> QED
      BY <2>1, <3>2, <3>3 DEF KeyStep, Working, WorkPcs
  <2> QED
    BY <1>3, <2>2, <2>3 DEF BeginCreate
<1>4. CASE CallCheckout(r)
  BY <1>1, <1>4, GoesOn DEF CallCheckout, WorkPcs
<1>5. CASE CommitCreate(r)
  BY <1>1, <1>5, GoesOn DEF CommitCreate, WorkPcs
<1>6. CASE CallCheckoutFails(r) \/ CommitCreateConflicts(r) \/ CommitCreateFails(r) \/ FinishCreate(r)
  BY <1>1, <1>6, Ends DEF CallCheckoutFails, CommitCreateConflicts, CommitCreateFails, FinishCreate, RollBack
<1> QED
  BY <1>2, <1>3, <1>4, <1>5, <1>6 DEF CreateStep

LEMMA RefundKeyStep ==
  ASSUME IInv, NEW r \in Reqs, RefundStep(r), NEW k \in CreateKeys \cup CancelKeys
  PROVE  KeyStep(r, k)
<1>1. k \in Keys \cup Events /\ TypeOK /\ req[r] \in Requests
  BY KeyKinds DEF IInv, TypeOK
<1>2. req[r].pc \in RefundPcs \cup {"idle"}
  BY Zenon DEF RefundStep, StartRefund, BeginRefund, CallRefund, CallRefundFails, CommitRefund,
    CommitRefundFails, FinishRefund, At, RefundPcs
<1>3. ~Working(r, k)
  BY <1>2 DEF Working, WorkPcs, CancelPcs, RefundPcs
<1>4. req[r].pc \in RefundPcs => req[r].key # k
  BY RequestTyped, KeyKinds DEF IInv
<1>5. store'[k] = store[k] \/ store'[k] = "absent"
  <2>1. ASSUME NEW key, key # k, Begin(key) \/ Fail(key) \/ Complete(key)
        PROVE  store'[k] = store[k]
    BY <1>1, <2>1 DEF TypeOK, Begin, Fail, Complete
  <2>2. CASE UNCHANGED store
    BY <2>2
  <2>3. CASE req[r].pc \in RefundPcs /\ (Begin(req[r].key) \/ Fail(req[r].key) \/ Complete(req[r].key))
    BY <1>4, <2>1, <2>3
  <2> QED
    BY Zenon, <2>2, <2>3 DEF RefundStep, StartRefund, BeginRefund, CallRefund, CallRefundFails, CommitRefund,
      CommitRefundFails, FinishRefund, RollBack, At, RefundPcs
<1> QED
  BY <1>3, <1>5 DEF KeyStep

(* What a cancellation has after the airline's answer.                     *)
LEMMA AirlineAnswers ==
  ASSUME IInv, NEW r \in Reqs, CallAirline(r)
  PROVE  \E refundable \in RefundableAmounts \cup {0} :
           /\ AirlineCancels(BookingOf[req[r].key], refundable)
           /\ req'[r].key = req[r].key
           /\ req'[r].pc \in {"cancel_refund", "cancel_commit"}
           /\ req'[r].pc = "cancel_refund" =>
                req'[r].amount > 0 /\ req'[r].amount <= refundable
<1> DEFINE q == req[r]
<1>0. q \in Requests /\ TypeOK
  BY DEF IInv, TypeOK
<1>1. PICK refundable \in RefundableAmounts \cup {0} :
        /\ AirlineCancels(BookingOf[q.key], refundable)
        /\ \/ \E p \in CreateKeys :
                /\ RefundablePayment(q, p)
                /\ LET amount == Least(refundable, Remaining(payment[p]))
                   IN  req' = [req EXCEPT ![r] =
                         [q EXCEPT !.pc = IF amount > 0 THEN "cancel_refund" ELSE "cancel_commit",
                                   !.target = p, !.row = payment[p], !.amount = amount,
                                   !.outcome = IF amount > 0 THEN "none" ELSE "absorbed"]]
           \/ Continue(r, "cancel_commit")
  BY DEF CallAirline
<1>2. CASE Continue(r, "cancel_commit")
  <2>1. req'[r] = [q EXCEPT !.pc = "cancel_commit"]
    BY <1>0, <1>2 DEF Continue, TypeOK
  <2>2. req'[r].pc = "cancel_commit" /\ req'[r].key = q.key
    BY <1>0, <2>1 DEF Requests
  <2> QED
    BY <1>1, <2>2
<1>3. CASE ~Continue(r, "cancel_commit")
  <2>1. PICK p \in CreateKeys :
          /\ RefundablePayment(q, p)
          /\ LET amount == Least(refundable, Remaining(payment[p]))
             IN  req' = [req EXCEPT ![r] =
                   [q EXCEPT !.pc = IF amount > 0 THEN "cancel_refund" ELSE "cancel_commit",
                             !.target = p, !.row = payment[p], !.amount = amount,
                             !.outcome = IF amount > 0 THEN "none" ELSE "absorbed"]]
    BY <1>1, <1>3
  <2> DEFINE amount == Least(refundable, Remaining(payment[p]))
             pc == IF amount > 0 THEN "cancel_refund" ELSE "cancel_commit"
             outcome == IF amount > 0 THEN "none" ELSE "absorbed"
  <2>2. req' = [req EXCEPT ![r] = [q EXCEPT !.pc = pc, !.target = p, !.row = payment[p],
                                            !.amount = amount, !.outcome = outcome]]
    BY <2>1
  <2>3. payment[p] \in Rows
    BY <1>0, <2>1 DEF RefundablePayment, IsLatest, RowsOf, TypeOK
  <2>4. amount <= refundable
    <3>1. refundable \in Nat
      BY AmountsAssumption
    <3>2. Remaining(payment[p]) \in Int
      BY <2>3, RefundedOfTyped, AmountsAssumption DEF Remaining
    <3> QED
      BY <3>1, <3>2 DEF Least
  <2>5. pc \in {"cancel_refund", "cancel_commit"} /\ (pc = "cancel_refund" => amount > 0)
    OBVIOUS
  <2> HIDE DEF amount, pc, outcome
  <2>6. req'[r] = [q EXCEPT !.pc = pc, !.target = p, !.row = payment[p],
                            !.amount = amount, !.outcome = outcome]
    BY <1>0, <2>2 DEF TypeOK
  <2>7. req'[r].pc = pc /\ req'[r].key = q.key /\ req'[r].amount = amount
    BY <1>0, <2>6 DEF Requests
  <2> QED
    BY <1>1, <2>4, <2>5, <2>7
<1> QED
  BY <1>2, <1>3

LEMMA CancelKeyStep ==
  ASSUME IInv, NEW r \in Reqs, CancelStep(r), NEW k \in CreateKeys \cup CancelKeys
  PROVE  KeyStep(r, k)
<1>1. req[r] \in Requests /\ k \in Keys \cup Events /\ TypeOK
  BY KeyKinds DEF IInv, TypeOK
<1>2. ASSUME NEW key \in CancelKeys, StartCancel(r, key)
      PROVE  KeyStep(r, k)
  <2>1. req'[r] = [Idle EXCEPT !.pc = "cancel_call", !.key = key, !.pay = booking[BookingOf[key]].pay]
    BY <1>1, <1>2 DEF StartCancel, TypeOK
  <2>2. req'[r].pc = "cancel_call" /\ req'[r].key = key
    BY <2>1 DEF Idle
  <2>3. k # key => store'[k] = store[k]
    BY <1>1, <1>2 DEF StartCancel, Begin, TypeOK
  <2>4. ~Working(r, k)
    BY <1>2 DEF StartCancel, At, Working, WorkPcs, CancelPcs
  <2> QED
    BY <2>2, <2>3, <2>4 DEF KeyStep, Working, WorkPcs, CancelPcs
<1>3. ASSUME CallAirline(r)
      PROVE  KeyStep(r, k)
  BY <1>3, AirlineAnswers DEF CallAirline, KeyStep, Working, WorkPcs, CancelPcs
<1>4. ASSUME CallCancelRefund(r) \/ CallCancelRefundFails(r)
      PROVE  KeyStep(r, k)
  <2>1. PICK outcome : req' = [req EXCEPT ![r] = [@ EXCEPT !.pc = "cancel_commit", !.outcome = outcome]]
    BY <1>4 DEF CallCancelRefund, CallCancelRefundFails, AfterCancelRefund
  <2>2. req'[r].pc = "cancel_commit" /\ req'[r].key = req[r].key
    BY <1>1, <2>1 DEF TypeOK, Requests
  <2> QED
    BY <1>4, <2>2 DEF CallCancelRefund, CallCancelRefundFails, KeyStep, Working, WorkPcs, CancelPcs
<1>5. CASE CommitCancel(r)
  BY <1>1, <1>5, GoesOn DEF CommitCancel, WorkPcs, CancelPcs
<1>6. CASE CallAirlineFails(r) \/ CommitCancelFails(r) \/ FinishCancel(r)
  BY <1>1, <1>6, Ends DEF CallAirlineFails, CommitCancelFails, FinishCancel, RollBack
<1> QED
  BY <1>2, <1>3, <1>4, <1>5, <1>6 DEF CancelStep

LEMMA HookKeys ==
  ASSUME IInv, HookStep, NEW k \in CreateKeys \cup CancelKeys
  PROVE  store'[k] = store[k]
<1>1. k \in Keys \cup Events /\ k \notin Events
  BY KeyKinds
<1>2. ASSUME NEW e \in Events, Begin(e) \/ Fail(e) \/ Complete(e)
      PROVE  store'[k] = store[k]
  BY <1>1, <1>2 DEF IInv, TypeOK, Begin, Fail, Complete
<1>3. hook.pc # "idle" => hook.event \in Events
  BY DEF IInv, HookFits, TypeOK
<1>4. sent \subseteq Events
  BY DEF IInv, TypeOK
<1>5. CASE UNCHANGED store
  BY <1>5
<1>6. UNCHANGED store \/ \E e \in Events : Begin(e) \/ Fail(e) \/ Complete(e)
  BY <1>3, <1>4 DEF HookStep, Deliver, DeliverDuplicate, DeliverIgnored, DeliverApplied, CommitEvent,
    CommitEventFails, FinishEvent
<1> QED
  BY <1>2, <1>5, <1>6

LEMMA KeysWorkedKept == CInv /\ Next => KeysWorked'
<1> SUFFICES ASSUME CInv, Next, NEW k \in CreateKeys \cup CancelKeys, store'[k] = "in_progress"
             PROVE  \E s \in Reqs : Working(s, k)'
  BY DEF KeysWorked
<1>0. IInv /\ (store[k] = "in_progress" => \E s \in Reqs : Working(s, k))
  BY DEF CInv, KeysWorked
<1>1. ASSUME NEW r \in Reqs, CreateStep(r) \/ RefundStep(r) \/ CancelStep(r)
      PROVE  \E s \in Reqs : Working(s, k)'
  <2>1. KeyStep(r, k)
    BY <1>0, <1>1, CreateKeyStep, RefundKeyStep, CancelKeyStep
  <2>2. CASE store[k] = "in_progress" /\ ~Working(r, k)
    <3>1. PICK s \in Reqs : Working(s, k)
      BY <1>0, <2>2
    <3>2. s \in Reqs \ {r}
      BY <2>2, <3>1
    <3>3. req'[s] = req[s]
      BY <1>0, <1>1, <3>2, OthersSame
    <3> QED
      BY <3>1, <3>3 DEF Working
  <2> QED
    BY <2>1, <2>2 DEF KeyStep
<1>2. CASE HookStep
  BY <1>0, <1>2, HookKeys, HookFrame DEF Working
<1>3. CASE WorldStep
  <2>1. CASE UNCHANGED <<store, req, hook>>
    BY <1>0, <2>1 DEF Working
  <2>2. CASE Crash
    BY <2>2, KeyKinds DEF Crash
  <2> QED
    BY <1>0, <1>3, <2>1, <2>2, WorldFrame
<1> QED
  BY <1>1, <1>2, <1>3 DEF Next

(* The cancellations.                                                      *)

(* A step that no cancellation has to notice.                              *)
Quiet ==
  /\ UNCHANGED airline
  /\ \A c \in CancelKeys : refund'[c] = refund[c]
  /\ \A b \in Bookings : booking'[b].status = booking[b].status
  /\ \A s \in Reqs : req'[s].pc \in {"cancel_refund", "cancel_commit"} => req'[s] = req[s]

LEMMA QuietKept ==
  ASSUME CancelsTrue, Quiet
  PROVE  CancelsTrue'
<1>1. \A r \in Reqs : CancelTrue(r)'
  BY DEF CancelsTrue, CancelTrue, Quiet
<1>2. OneRefunding'
  BY DEF CancelsTrue, OneRefunding, Quiet
<1>3. OneRefundPerCancellation'
  BY DEF CancelsTrue, OneRefundPerCancellation, Quiet
<1>4. CancelledAtAirline'
  BY DEF CancelsTrue, CancelledAtAirline, Quiet
<1> QED
  BY <1>1, <1>2, <1>3, <1>4 DEF CancelsTrue

(* Columns a commit writes beside the status of the booking.               *)
LEMMA StatusKept ==
  ASSUME TypeOK, NEW b \in Bookings, NEW pay, booking' = [booking EXCEPT ![b].pay = pay]
  PROVE  \A d \in Bookings : booking'[d].status = booking[d].status
BY DEF TypeOK

LEMMA NewPc ==
  ASSUME TypeOK, NEW r \in Reqs, NEW pc, Continue(r, pc)
  PROVE  req'[r].pc = pc /\ req'[r].key = req[r].key /\ req'[r].amount = req[r].amount
BY DEF TypeOK, Continue, Requests

LEMMA CreateQuiet ==
  ASSUME IInv, NEW r \in Reqs, CreateStep(r)
  PROVE  Quiet
<1>1. UNCHANGED <<airline, refund>>
  BY Zenon DEF CreateStep, StartCreate, BeginCreate, CallCheckout, CallCheckoutFails, CommitCreate,
    CommitCreateConflicts, CommitCreateFails, FinishCreate, ProviderCreates, provider
<1>2. \A b \in Bookings : booking'[b].status = booking[b].status
  <2>1. CASE CommitCreate(r)
    <3>1. BookingOf[req[r].key] \in Bookings
      BY <2>1, RequestTyped DEF IInv, CommitCreate, At, CreatePcs
    <3> QED
      BY <2>1, <3>1, StatusKept DEF CommitCreate, IInv
  <2>2. CASE UNCHANGED booking
    BY <2>2
  <2> QED
    BY Zenon, <2>1, <2>2 DEF CreateStep, StartCreate, BeginCreate, CallCheckout, CallCheckoutFails,
      CommitCreateConflicts, CommitCreateFails, FinishCreate, RollBack, database
<1>3. req'[r].pc \notin {"cancel_refund", "cancel_commit"}
  <2>1. ASSUME NEW key \in CreateKeys, StartCreate(r, key)
        PROVE  req'[r].pc = "create_begin"
    BY <2>1 DEF StartCreate, IInv, TypeOK, Idle
  <2>2. ASSUME Return(r)
        PROVE  req'[r].pc = "idle"
    BY <2>2 DEF Return, IInv, TypeOK, Idle
  <2> QED
    BY <2>1, <2>2, NewPc DEF IInv, CreateStep, BeginCreate, CallCheckout, CommitCreate,
      CallCheckoutFails, CommitCreateConflicts, CommitCreateFails, FinishCreate, RollBack
<1> QED
  BY <1>1, <1>2, <1>3, OthersSame DEF Quiet

LEMMA RefundQuiet ==
  ASSUME IInv, NEW r \in Reqs, RefundStep(r)
  PROVE  Quiet
<1>1. UNCHANGED airline
  BY Zenon DEF RefundStep, StartRefund, BeginRefund, CallRefund, CallRefundFails, CommitRefund,
    CommitRefundFails, FinishRefund
<1>2. \A c \in CancelKeys : refund'[c] = refund[c]
  <2>1. ASSUME req[r].pc = "refund_call", NEW key, NEW amount, NEW status,
               ProviderRefunds(req[r].key, key, amount, status)
        PROVE  \A c \in CancelKeys : refund'[c] = refund[c]
    <3>1. req[r].key \in RefundKeys
      BY <2>1, RequestTyped DEF IInv, RefundPcs
    <3>2. \A c \in CancelKeys : c # req[r].key
      BY <3>1, KeyKinds
    <3> QED
      BY <2>1, <3>2 DEF ProviderRefunds, IInv, TypeOK
  <2>2. CASE UNCHANGED refund
    BY <2>2
  <2> QED
    BY Zenon, <2>1, <2>2 DEF RefundStep, StartRefund, BeginRefund, CallRefund, CallRefundFails, CommitRefund,
      CommitRefundFails, FinishRefund, provider, At
<1>3. \A b \in Bookings : booking'[b].status = booking[b].status
  <2>1. CASE CommitRefund(r)
    <3>1. BookingOf[req[r].key] \in Bookings
      BY <2>1, RequestTyped DEF IInv, CommitRefund, At, RefundPcs
    <3> QED
      BY <2>1, <3>1, StatusKept DEF CommitRefund, IInv
  <2>2. CASE UNCHANGED booking
    BY <2>2
  <2> QED
    BY Zenon, <2>1, <2>2 DEF RefundStep, StartRefund, BeginRefund, CallRefund, CallRefundFails,
      CommitRefundFails, FinishRefund, RollBack, database
<1>4. req'[r].pc \notin {"cancel_refund", "cancel_commit"}
  <2>2. ASSUME NEW key \in RefundKeys, StartRefund(r, key)
        PROVE  req'[r].pc = "refund_begin"
    BY <2>2 DEF StartRefund, IInv, TypeOK, Idle
  <2>3. ASSUME Return(r)
        PROVE  req'[r].pc = "idle"
    BY <2>3 DEF Return, IInv, TypeOK, Idle
  <2>4. ASSUME BeginRefund(r)
        PROVE  req'[r].pc \in {"refund_call", "idle"}
    <3>1. CASE Return(r)
      BY <2>3, <3>1
    <3>2. CASE ~Return(r)
      <4>1. PICK p \in CreateKeys :
              req' = [req EXCEPT ![r] =
                [req[r] EXCEPT !.pc = "refund_call", !.target = p, !.row = payment[p],
                               !.amount = AmountToRefund(req[r].key, payment[p])]]
        BY <2>4, <3>2 DEF BeginRefund
      <4> DEFINE amount == AmountToRefund(req[r].key, payment[p])
      <4> HIDE DEF amount
      <4>2. req'[r] = [req[r] EXCEPT !.pc = "refund_call", !.target = p, !.row = payment[p],
                                     !.amount = amount]
        BY <4>1 DEF IInv, TypeOK, amount
      <4>3. req[r] \in Requests
        BY DEF IInv, TypeOK
      <4> QED
        BY <4>2, <4>3 DEF Requests
    <3> QED
      BY <3>1, <3>2
  <2>5. ASSUME CallRefund(r)
        PROVE  req'[r].pc \in {"refund_commit", "idle"}
    <3>1. CASE Return(r)
      BY <2>3, <3>1
    <3>2. CASE ~Return(r)
      <4>1. PICK status \in RefundStatuses :
              req' = [req EXCEPT ![r] = [req[r] EXCEPT !.pc = "refund_commit", !.outcome = status]]
        BY <2>5, <3>2 DEF CallRefund, RollBack
      <4>2. req'[r] = [req[r] EXCEPT !.pc = "refund_commit", !.outcome = status]
        BY <4>1 DEF IInv, TypeOK
      <4>3. req[r] \in Requests
        BY DEF IInv, TypeOK
      <4> QED
        BY <4>2, <4>3 DEF Requests
    <3> QED
      BY <3>1, <3>2
  <2> QED
    BY <2>2, <2>3, <2>4, <2>5, NewPc DEF IInv, RefundStep, CallRefundFails, CommitRefund,
      CommitRefundFails, FinishRefund, RollBack
<1> QED
  BY <1>1, <1>2, <1>3, <1>4, OthersSame DEF Quiet

LEMMA HookQuiet ==
  ASSUME IInv, HookStep
  PROVE  Quiet
<1>1. UNCHANGED <<airline, refund, req>>
  BY Zenon DEF HookStep, Deliver, DeliverDuplicate, DeliverIgnored, DeliverApplied, CommitEvent,
    CommitEventFails, FinishEvent, provider
<1>2. \A b \in Bookings : booking'[b].status = booking[b].status
  <2>1. CASE CommitEvent
    <3>1. BookingOf[hook.event.key] \in Bookings
      BY <2>1, EventRow, EventFacts, KeysAssumption DEF Keys
    <3> QED
      BY <2>1, <3>1, StatusKept DEF CommitEvent, IInv
  <2> QED
    BY <2>1, HookFrame
<1> QED
  BY <1>1, <1>2 DEF Quiet

LEMMA WorldQuiet ==
  ASSUME IInv, WorldStep
  PROVE  Quiet
<1>1. UNCHANGED <<airline, refund, booking>>
  BY Zenon DEF WorldStep, CustomerPays, PaymentSettles, SessionExpires, SessionBecomes, Crash,
    database, provider
<1>2. \A s \in Reqs : req'[s] = req[s] \/ req'[s].pc = "idle"
  BY WorldFrame DEF Crash, Idle
<1> QED
  BY <1>1, <1>2 DEF Quiet

(* The airline changes its mind about no booking.                          *)
LEMMA AirlineFacts ==
  ASSUME TypeOK, NEW b \in Bookings, NEW refundable, AirlineCancels(b, refundable)
  PROVE  /\ \A d \in Bookings : airline[d].cancelled \/ d # b => airline'[d] = airline[d]
         /\ airline'[b].cancelled
         /\ ~airline[b].cancelled => airline'[b].refundable = refundable
         /\ airline[b].cancelled => refundable = 0
BY DEF TypeOK, AirlineCancels

(* What its answer leaves as it was.                                       *)
LEMMA AirlineKeeps ==
  ASSUME IInv, CancelsTrue, UNCHANGED <<refund, booking>>,
         \A d \in Bookings : airline[d].cancelled => airline'[d] = airline[d]
  PROVE  /\ \A s \in Reqs : req'[s] = req[s] => CancelTrue(s)'
         /\ OneRefundPerCancellation'
         /\ CancelledAtAirline'
<1>1. ASSUME NEW s \in Reqs, req'[s] = req[s]
      PROVE  CancelTrue(s)'
  <2> DEFINE b == BookingOf[req[s].key]
  <2>1. CancelTrue(s)
    BY DEF CancelsTrue
  <2>2. CASE req[s].pc \in {"cancel_refund", "cancel_commit"}
    <3>1. b \in Bookings /\ airline[b].cancelled
      BY <2>1, <2>2, RequestTyped DEF CancelTrue, CancelPcs, IInv
    <3>2. airline'[b] = airline[b]
      BY <3>1
    <3> QED
      BY <1>1, <2>1, <3>2 DEF CancelTrue
  <2> QED
    BY <1>1, <2>2 DEF CancelTrue
<1>2. OneRefundPerCancellation'
  <2>1. \A c \in CancelKeys : BookingOf[c] \in Bookings
    BY KeysAssumption DEF Keys
  <2>2. \A c \in CancelKeys : refund[c] # Null => airline[BookingOf[c]].cancelled
    BY <2>1 DEF CancelsTrue, CancelledAtAirline
  <2> QED
    BY <2>1, <2>2 DEF CancelsTrue, OneRefundPerCancellation
<1>3. CancelledAtAirline'
  BY DEF CancelsTrue, CancelledAtAirline
<1> QED
  BY <1>1, <1>2, <1>3

LEMMA CallAirlineCancels ==
  ASSUME IInv, CancelsTrue, NEW r \in Reqs, CallAirline(r)
  PROVE  CancelsTrue'
<1> DEFINE b == BookingOf[req[r].key]
<1>0. TypeOK /\ UNCHANGED <<refund, booking>> /\ \A s \in Reqs \ {r} : req'[s] = req[s]
  BY OthersSame DEF IInv, CallAirline, provider, database, CancelStep
<1>1. b \in Bookings
  BY RequestTyped DEF CallAirline, At, CancelPcs, IInv
<1>2. PICK refundable \in RefundableAmounts \cup {0} :
        /\ AirlineCancels(b, refundable)
        /\ req'[r].key = req[r].key
        /\ req'[r].pc \in {"cancel_refund", "cancel_commit"}
        /\ req'[r].pc = "cancel_refund" => req'[r].amount > 0 /\ req'[r].amount <= refundable
  BY AirlineAnswers
<1>3. /\ \A d \in Bookings : airline[d].cancelled \/ d # b => airline'[d] = airline[d]
      /\ airline'[b].cancelled
      /\ ~airline[b].cancelled => airline'[b].refundable = refundable
      /\ airline[b].cancelled => refundable = 0
  BY <1>0, <1>1, <1>2, AirlineFacts
<1>4. /\ \A s \in Reqs \ {r} : CancelTrue(s)'
      /\ OneRefundPerCancellation'
      /\ CancelledAtAirline'
  BY <1>0, <1>3, AirlineKeeps
<1>5. req'[r].pc = "cancel_refund" => ~airline[b].cancelled
  <2> SUFFICES ASSUME req'[r].pc = "cancel_refund", airline[b].cancelled
               PROVE  FALSE
    OBVIOUS
  <2>1. req'[r].amount \in Nat
    BY TypeKept DEF Next, CancelStep, IInv, TypeOK, Requests, Amounts
  <2> QED
    BY <1>2, <1>3, <2>1
<1>6. CancelTrue(r)'
  <2>1. ~airline[b].cancelled => \A c \in CancelKeys : BookingOf[c] = b => refund[c] = Null
    BY <1>1 DEF CancelsTrue, CancelledAtAirline
  <2> QED
    BY <1>0, <1>2, <1>3, <1>5, <2>1 DEF CancelTrue
<1>7. OneRefunding'
  <2>1. \A s \in Reqs \ {r} : req[s].pc = "cancel_refund" => airline[BookingOf[req[s].key]].cancelled
    BY DEF CancelsTrue, CancelTrue
  <2> QED
    BY <1>0, <1>2, <1>5, <2>1 DEF CancelsTrue, OneRefunding
<1> QED
  BY <1>4, <1>6, <1>7 DEF CancelsTrue

LEMMA CallAirlineFailsCancels ==
  ASSUME IInv, CancelsTrue, NEW r \in Reqs, CallAirlineFails(r)
  PROVE  CancelsTrue'
<1> DEFINE b == BookingOf[req[r].key]
<1>0. /\ TypeOK /\ UNCHANGED <<refund, booking>>
      /\ \A s \in Reqs \ {r} : req'[s] = req[s]
      /\ req'[r].pc = "idle"
  BY OthersSame DEF IInv, TypeOK, CallAirlineFails, RollBack, Return, Idle, provider, database, CancelStep
<1>1. b \in Bookings
  BY RequestTyped DEF CallAirlineFails, At, CancelPcs, IInv
<1>2. \A d \in Bookings : airline[d].cancelled => airline'[d] = airline[d]
  BY <1>0, <1>1, AirlineFacts DEF CallAirlineFails
<1>3. /\ \A s \in Reqs \ {r} : CancelTrue(s)'
      /\ OneRefundPerCancellation'
      /\ CancelledAtAirline'
  BY <1>0, <1>2, AirlineKeeps
<1>4. CancelTrue(r)'
  BY <1>0 DEF CancelTrue
<1>5. OneRefunding'
  BY <1>0 DEF CancelsTrue, OneRefunding
<1> QED
  BY <1>3, <1>4, <1>5 DEF CancelsTrue

(* Nobody else is about to refund the booking, and nobody has.             *)
LEMMA CancelRefundCancels ==
  ASSUME IInv, CancelsTrue, NEW r \in Reqs, CallCancelRefund(r) \/ CallCancelRefundFails(r)
  PROVE  CancelsTrue'
<1> DEFINE key == req[r].key
           b == BookingOf[key]
<1>0. /\ TypeOK /\ UNCHANGED <<airline, booking>>
      /\ \A s \in Reqs \ {r} : req'[s] = req[s]
      /\ req[r].pc = "cancel_refund" /\ req[r] \in Requests
  BY OthersSame DEF IInv, TypeOK, CallCancelRefund, CallCancelRefundFails, At, database, CancelStep
<1>1. key \in CancelKeys /\ b \in Bookings
  BY <1>0, RequestTyped DEF CancelPcs, IInv
<1>2. req'[r].pc = "cancel_commit" /\ req'[r].key = key
  <2>1. PICK outcome : req' = [req EXCEPT ![r] = [@ EXCEPT !.pc = "cancel_commit", !.outcome = outcome]]
    BY DEF CallCancelRefund, CallCancelRefundFails, AfterCancelRefund
  <2> QED
    BY <1>0, <2>1 DEF TypeOK, Requests
<1>3. /\ airline[b].cancelled
      /\ req[r].amount <= airline[b].refundable
      /\ \A c \in CancelKeys : BookingOf[c] = b => refund[c] = Null
      /\ \A s \in Reqs \ {r} : req[s].pc = "cancel_refund" => BookingOf[req[s].key] # b
  BY <1>0 DEF CancelsTrue, CancelTrue, OneRefunding
<1>4. /\ \A c \in CancelKeys : c # key => refund'[c] = refund[c]
      /\ refund'[key] = Null \/ refund'[key].amount = req[r].amount
  <2>1. ASSUME NEW target, NEW amount, NEW status, ProviderRefunds(key, target, amount, status)
        PROVE  /\ \A c \in CancelKeys : c # key => refund'[c] = refund[c]
               /\ refund'[key] = Null \/ refund'[key].amount = amount
    <3>1. refund' = [refund EXCEPT ![key] = [amount |-> amount, status |-> status]]
      BY <1>1, <1>3, <2>1 DEF ProviderRefunds
    <3> QED
      BY <1>0, <1>1, <3>1 DEF TypeOK
  <2>2. CASE UNCHANGED refund
    BY <1>1, <1>3, <2>2
  <2> QED
    BY <2>1, <2>2 DEF CallCancelRefund, CallCancelRefundFails, provider
<1>5. \A s \in Reqs : CancelTrue(s)'
  <2> SUFFICES ASSUME NEW s \in Reqs
               PROVE  CancelTrue(s)'
    OBVIOUS
  <2>1. CASE s = r
    BY <1>0, <1>2, <1>3, <2>1 DEF CancelTrue
  <2>2. CASE s # r
    <3>1. req'[s] = req[s] /\ CancelTrue(s)
      BY <1>0, <2>2 DEF CancelsTrue
    <3>2. ASSUME req[s].pc = "cancel_refund", NEW c \in CancelKeys, BookingOf[c] = BookingOf[req[s].key]
          PROVE  refund'[c] = Null
      BY <1>3, <1>4, <2>2, <3>1, <3>2 DEF CancelTrue
    <3> QED
      BY <1>0, <3>1, <3>2 DEF CancelTrue
  <2> QED
    BY <2>1, <2>2
<1>6. OneRefunding'
  BY <1>0, <1>2 DEF CancelsTrue, OneRefunding
<1>7. OneRefundPerCancellation'
  BY <1>0, <1>1, <1>3, <1>4 DEF CancelsTrue, OneRefundPerCancellation
<1>8. CancelledAtAirline'
  BY <1>0, <1>1, <1>3, <1>4 DEF CancelsTrue, CancelledAtAirline
<1> QED
  BY <1>5, <1>6, <1>7, <1>8 DEF CancelsTrue

LEMMA CommitCancelCancels ==
  ASSUME IInv, CancelsTrue, NEW r \in Reqs, CommitCancel(r)
  PROVE  CancelsTrue'
<1> DEFINE b == BookingOf[req[r].key]
<1>0. /\ TypeOK /\ UNCHANGED <<airline, refund>>
      /\ \A s \in Reqs \ {r} : req'[s] = req[s]
      /\ req[r].pc = "cancel_commit"
  BY OthersSame DEF IInv, CommitCancel, At, provider, CancelStep
<1>1. b \in Bookings /\ airline[b].cancelled
  BY <1>0, RequestTyped DEF CancelPcs, IInv, CancelsTrue, CancelTrue
<1>2. req'[r].pc = "cancel_finish"
  BY <1>0, NewPc DEF CommitCancel
<1>3. \A d \in Bookings : d # b => booking'[d] = booking[d]
  BY <1>0, <1>1 DEF CommitCancel, TypeOK
<1>4. \A s \in Reqs : CancelTrue(s)'
  <2>1. CancelTrue(r)'
    BY <1>2 DEF CancelTrue
  <2>2. \A s \in Reqs \ {r} : CancelTrue(s)'
    BY <1>0 DEF CancelsTrue, CancelTrue
  <2> QED
    BY <2>1, <2>2
<1>5. OneRefunding'
  BY <1>0, <1>2 DEF CancelsTrue, OneRefunding
<1>6. OneRefundPerCancellation'
  BY <1>0 DEF CancelsTrue, OneRefundPerCancellation
<1>7. CancelledAtAirline'
  BY <1>0, <1>1, <1>3 DEF CancelsTrue, CancelledAtAirline
<1> QED
  BY <1>4, <1>5, <1>6, <1>7 DEF CancelsTrue

LEMMA CancelQuiet ==
  ASSUME IInv, NEW r \in Reqs,
         (\E key \in CancelKeys : StartCancel(r, key)) \/ CommitCancelFails(r) \/ FinishCancel(r)
  PROVE  Quiet
<1>1. UNCHANGED <<airline, refund, booking>>
  BY DEF StartCancel, CommitCancelFails, FinishCancel, RollBack, provider, database
<1>2. req'[r].pc \in {"cancel_call", "idle"}
  <2>1. ASSUME NEW key \in CancelKeys, StartCancel(r, key)
        PROVE  req'[r].pc = "cancel_call"
    BY <2>1 DEF StartCancel, IInv, TypeOK, Idle
  <2>2. ASSUME Return(r)
        PROVE  req'[r].pc = "idle"
    BY <2>2 DEF Return, IInv, TypeOK, Idle
  <2> QED
    BY <2>1, <2>2 DEF CommitCancelFails, FinishCancel, RollBack
<1>3. \A s \in Reqs \ {r} : req'[s] = req[s]
  BY OthersSame DEF CancelStep
<1> QED
  BY <1>1, <1>2, <1>3 DEF Quiet

LEMMA CancelsTrueKept == CInv /\ Next => CancelsTrue'
<1> SUFFICES ASSUME IInv, CancelsTrue, Next
             PROVE  CancelsTrue'
  BY DEF CInv
<1>1. ASSUME NEW r \in Reqs, CancelStep(r)
      PROVE  CancelsTrue'
  BY <1>1, CallAirlineCancels, CallAirlineFailsCancels, CancelRefundCancels, CommitCancelCancels,
    CancelQuiet, QuietKept DEF CancelStep
<1>2. ASSUME NEW r \in Reqs, CreateStep(r) \/ RefundStep(r)
      PROVE  CancelsTrue'
  BY <1>2, CreateQuiet, RefundQuiet, QuietKept
<1>3. CASE HookStep \/ WorldStep
  BY <1>3, HookQuiet, WorldQuiet, QuietKept
<1> QED
  BY <1>1, <1>2, <1>3 DEF Next

LEMMA InitCancels == Init => CInv
<1> SUFFICES ASSUME Init
             PROVE  KeysWorked /\ CancelsTrue
  BY InitInvariant DEF CInv
<1>1. KeysWorked
  BY KeyKinds DEF Init, KeysWorked
<1>2. \A r \in Reqs : req[r].pc = "idle"
  BY DEF Init, Idle
<1>3. (\A r \in Reqs : CancelTrue(r)) /\ OneRefunding
  BY <1>2 DEF CancelTrue, OneRefunding
<1>4. OneRefundPerCancellation /\ CancelledAtAirline
  BY DEF Init, OneRefundPerCancellation, CancelledAtAirline
<1> QED
  BY <1>1, <1>3, <1>4 DEF CancelsTrue

LEMMA NextCancels == CInv /\ [Next]_vars => CInv'
<1>1. CInv /\ Next => CInv'
  BY NextInvariant, KeysWorkedKept, CancelsTrueKept DEF CInv
<1>2. ASSUME CInv, UNCHANGED vars
      PROVE  CInv'
  <2>1. IInv'
    BY <1>2, NextInvariant DEF CInv
  <2>2. KeysWorked'
    BY <1>2 DEF CInv, KeysWorked, Working, vars
  <2>3. Quiet
    BY <1>2 DEF Quiet, vars
  <2> QED
    BY <1>2, <2>1, <2>2, <2>3, QuietKept DEF CInv
<1> QED
  BY <1>1, <1>2

(* Every behaviour keeps the second invariant too: keys in progress have a *)
(* request at work on them, and cancellations what the airline said.       *)
THEOREM CancelInvariance == Spec => []CInv
BY InitCancels, NextCancels, PTL DEF Spec

(* IdempotencyStore: no create, cancel or event key is ever left in        *)
(* progress with nobody working on it, whatever fails, conflicts or dies.  *)
THEOREM KeysAreReleased == Spec => []NoOrphanedKey
<1>1. CInv => NoOrphanedKey
  BY DEF CInv, IInv, KeysWorked, Working, StoreFits, NoOrphanedKey
<1> QED
  BY <1>1, CancelInvariance, PTL

(* cancel: however many cancellations of a booking overlap, repeat or fail *)
(* midway, they refund at most once, within what the airline returns.      *)
THEOREM OneRefundEach == Spec => []OneRefundPerCancellation
<1>1. CInv => OneRefundPerCancellation
  BY DEF CInv, CancelsTrue
<1> QED
  BY <1>1, CancelInvariance, PTL

(* cancel: a booking is shown CANCELLED, and money goes back for it, only  *)
(* after the airline has cancelled it.                                     *)
THEOREM CancelledForGood == Spec => []CancelledAtAirline
<1>1. CInv => CancelledAtAirline
  BY DEF CInv, CancelsTrue
<1> QED
  BY <1>1, CancelInvariance, PTL

-----------------------------------------------------------------------------
(* While no call fails, a PENDING row is alive, however requests overlap.  *)

(* A session whose row is missing is open, and the request that will write *)
(* the row is at its commit; a row never comes before its session.         *)
RowsFollowSessions ==
  /\ \A k \in CreateKeys : payment[k] = Null /\ session[k].state # "none" =>
       /\ session[k].state = "open"
       /\ \E r \in Reqs : req[r].pc = "create_commit" /\ req[r].key = k
  /\ \A k \in CreateKeys : payment[k] # Null => session[k].state # "none"
  /\ \A r \in Reqs : req[r].pc = "create_commit" => session[req[r].key].state # "none"

(* A session that is no longer open has said so, and no other has.         *)
EndsAnnounced ==
  /\ \A k \in CreateKeys : session[k].state \notin {"none", "open"} => \E e \in sent : e.key = k
  /\ \A e \in sent : session[e.key].state \notin {"none", "open"}

Moved(k) == payment[k] # Null => payment[k].status # "PENDING"

(* An event that was dealt with has moved its row.                         *)
EventsMoveRows ==
  /\ \A e \in Events : e \in acked \/ store[e] = "completed" => e \in sent /\ Moved(e.key)
  /\ hook.pc = "ack" => Moved(hook.event.key)

AliveInv == IInv /\ (faults = 0 => RowsFollowSessions /\ EndsAnnounced /\ EventsMoveRows)

(* A step that adds no fault is none of those that are one.                *)
LEMMA NoFault ==
  ASSUME IInv, Next, faults' = 0
  PROVE  faults = 0 /\ ~Fault
<1>1. faults \in Nat /\ (faults' = faults \/ Fault)
  <2>1. faults \in Nat
    BY FaultsAssumption DEF IInv, TypeOK
  <2>2. ASSUME NEW r \in Reqs, CreateStep(r)
        PROVE  faults' = faults \/ Fault
    BY Zenon, <2>2 DEF CreateStep, StartCreate, BeginCreate, CallCheckout, CommitCreate, CallCheckoutFails,
      CommitCreateConflicts, CommitCreateFails, FinishCreate
  <2>3. ASSUME NEW r \in Reqs, RefundStep(r)
        PROVE  faults' = faults \/ Fault
    BY Zenon, <2>3 DEF RefundStep, StartRefund, BeginRefund, CallRefund, CommitRefund, CallRefundFails,
      CommitRefundFails, FinishRefund
  <2>4. ASSUME NEW r \in Reqs, CancelStep(r)
        PROVE  faults' = faults \/ Fault
    BY Zenon, <2>4 DEF CancelStep, StartCancel, CallAirline, CallAirlineFails, CallCancelRefund,
      CallCancelRefundFails, CommitCancel, CommitCancelFails, FinishCancel
  <2>5. ASSUME HookStep
        PROVE  faults' = faults \/ Fault
    BY Zenon, <2>5 DEF HookStep, Deliver, DeliverDuplicate, DeliverIgnored, DeliverApplied, CommitEvent,
      CommitEventFails, FinishEvent
  <2>6. ASSUME WorldStep
        PROVE  faults' = faults \/ Fault
    BY Zenon, <2>6 DEF WorldStep, CustomerPays, PaymentSettles, SessionExpires, SessionBecomes, Crash
  <2> QED
    BY <2>1, <2>2, <2>3, <2>4, <2>5, <2>6 DEF Next
<1> QED
  BY <1>1 DEF Fault

(* A request opens a session only by asking for it, and adds a row only    *)
(* from its commit.                                                        *)
LEMMA CreateOpens ==
  ASSUME IInv, NEW r \in Reqs, CreateStep(r) \/ RefundStep(r) \/ CancelStep(r), ~Fault,
         NEW k \in CreateKeys
  PROVE  /\ session[k].state # "none" => session'[k].state = session[k].state
         /\ session'[k].state # session[k].state => CallCheckout(r) /\ req[r].key = k
         /\ payment[k] = Null /\ payment'[k] # Null => CommitCreate(r) /\ req[r].key = k
<1> USE DEF IInv
<1>1. CASE CallCheckout(r)
  <2>1. req[r].key \in CreateKeys
    BY <1>1, RequestTyped DEF CallCheckout, At, CreatePcs
  <2>2. session[req[r].key] \in SessionRows
    BY <2>1 DEF TypeOK, SessionRows
  <2>3. session' = [session EXCEPT ![req[r].key] = [session[req[r].key] EXCEPT !.state =
          IF session[req[r].key].state = "none" THEN "open" ELSE session[req[r].key].state]]
    BY <1>1, <2>2 DEF CallCheckout, ProviderCreates
  <2>4. UNCHANGED payment
    BY <1>1 DEF CallCheckout, database
  <2> QED
    BY <1>1, <2>1, <2>2, <2>3, <2>4 DEF TypeOK, SessionRows
<1>2. ASSUME NEW id, NEW p, NEW amount, NEW status, ProviderRefunds(id, p, amount, status)
      PROVE  session'[k].state = session[k].state
  <2>1. session[k] \in SessionRows
    BY DEF TypeOK, SessionRows
  <2>2. \/ UNCHANGED session
        \/ session' = [session EXCEPT ![p] = [session[p] EXCEPT !.returned = session[p].returned + amount]]
    BY <1>2 DEF ProviderRefunds, TypeOK
  <2> QED
    BY <2>1, <2>2 DEF TypeOK, SessionRows
<1>3. CASE CommitCreate(r)
  <2>1. req[r].key \in CreateKeys
    BY <1>3, RequestTyped DEF CommitCreate, At, CreatePcs
  <2> DEFINE row == NewRow({j \in CreateKeys : payment[j] # Null})
  <2>2. payment' = [payment EXCEPT ![req[r].key] = row] /\ UNCHANGED session
    BY <1>3 DEF CommitCreate, provider
  <2> HIDE DEF row
  <2>3. k # req[r].key => payment'[k] = payment[k]
    BY <2>1, <2>2 DEF TypeOK
  <2> QED
    BY <1>3, <2>2, <2>3
<1>4. ASSUME UNCHANGED session
      PROVE  session'[k].state = session[k].state
  BY <1>4
<1>5. ASSUME CreateStep(r), ~CallCheckout(r), ~CommitCreate(r)
      PROVE  UNCHANGED <<session, payment>>
  BY Zenon, <1>5 DEF CreateStep, StartCreate, BeginCreate, CallCheckoutFails, CommitCreateConflicts,
    CommitCreateFails, FinishCreate, RollBack, database, provider
<1>6. ASSUME RefundStep(r)
      PROVE  session'[k].state = session[k].state
  BY Zenon, <1>2, <1>4, <1>6 DEF RefundStep, StartRefund, BeginRefund, CallRefund, CallRefundFails,
    CommitRefund, CommitRefundFails, FinishRefund, provider
<1>7. ASSUME CancelStep(r)
      PROVE  session'[k].state = session[k].state
  BY Zenon, <1>2, <1>4, <1>7 DEF CancelStep, StartCancel, CallAirline, CallAirlineFails, CallCancelRefund,
    CallCancelRefundFails, CommitCancel, CommitCancelFails, FinishCancel, provider
<1>8. ASSUME RefundStep(r) \/ CancelStep(r), payment[k] = Null
      PROVE  payment'[k] = Null
  <2>1. ASSUME HoldsPayment(req[r]), req[r].pc \in {"refund_commit", "cancel_commit"},
               payment' = [payment EXCEPT ![req[r].target] = RefundedRow(req[r], payment[req[r].target])]
        PROVE  payment'[k] = Null
    BY <1>8, <2>1 DEF TypeOK, RequestsFit, RequestFits, HoldingFits, RowsOf
  <2>2. CASE CommitRefund(r)
    <3>1. HoldsPayment(req[r]) /\ req[r].pc = "refund_commit"
      BY <2>2 DEF CommitRefund, At, HoldsPayment
    <3>2. req[r].target \in CreateKeys
      BY <3>1, HoldingTyped
    <3> QED
      BY <2>1, <2>2, <3>1, <3>2 DEF CommitRefund, TypeOK
  <2>3. CASE CommitCancel(r)
    <3>1. CASE req[r].outcome = "none"
      BY <1>8, <2>3, <3>1 DEF CommitCancel
    <3>2. CASE req[r].outcome # "none"
      <4>1. HoldsPayment(req[r]) /\ req[r].pc = "cancel_commit"
        BY <2>3, <3>2 DEF CommitCancel, At, HoldsPayment
      <4>2. req[r].target \in CreateKeys
        BY <4>1, HoldingTyped
      <4> QED
        BY <2>1, <2>3, <3>2, <4>1, <4>2 DEF CommitCancel, TypeOK
    <3> QED
      BY <3>1, <3>2
  <2>4. CASE UNCHANGED payment
    BY <1>8, <2>4
  <2>5. CASE RefundStep(r)
    BY Zenon, <2>2, <2>4, <2>5 DEF RefundStep, StartRefund, BeginRefund, CallRefund, CallRefundFails,
      CommitRefundFails, FinishRefund, RollBack, database
  <2>6. CASE CancelStep(r)
    BY Zenon, <2>3, <2>4, <2>6 DEF CancelStep, StartCancel, CallAirline, CallAirlineFails, CallCancelRefund,
      CallCancelRefundFails, CommitCancelFails, FinishCancel, RollBack, database
  <2> QED
    BY <1>8, <2>5, <2>6
<1> QED
  BY <1>1, <1>3, <1>5, <1>6, <1>7, <1>8

(* The request at create_commit, before and after a step of its own.       *)
LEMMA CommitPcs ==
  ASSUME IInv, NEW r \in Reqs, CreateStep(r) \/ RefundStep(r) \/ CancelStep(r), ~Fault
  PROVE  /\ req[r].pc = "create_commit" => payment'[req[r].key] # Null
         /\ CallCheckout(r) => req'[r].pc = "create_commit" /\ req'[r].key = req[r].key
         /\ req'[r].pc = "create_commit" => CallCheckout(r)
<1>0. req[r] \in Requests /\ req[r].pc \in Pcs
  BY DEF IInv, TypeOK, Requests
<1>1. ASSUME req[r].pc = "create_commit"
      PROVE  payment'[req[r].key] # Null
  <2>1. CommitCreate(r) \/ CommitCreateConflicts(r)
    BY Zenon, <1>1 DEF CreateStep, StartCreate, BeginCreate, CallCheckout, CallCheckoutFails,
      CommitCreateFails, FinishCreate, RefundStep, StartRefund, BeginRefund, CallRefund, CallRefundFails,
      CommitRefund, CommitRefundFails, FinishRefund, CancelStep, StartCancel, CallAirline, CallAirlineFails,
      CallCancelRefund, CallCancelRefundFails, CommitCancel, CommitCancelFails, FinishCancel, At
  <2>2. req[r].key \in CreateKeys
    BY <1>1, RequestTyped DEF CreatePcs, IInv
  <2>3. CASE CommitCreate(r)
    <3> DEFINE row == NewRow({j \in CreateKeys : payment[j] # Null})
    <3>1. row \in Rows
      BY DEF NewRow, Rows, PaymentSessionStatuses
    <3>2. payment' = [payment EXCEPT ![req[r].key] = row]
      BY <2>3 DEF CommitCreate
    <3> HIDE DEF row
    <3> QED
      BY <2>2, <3>1, <3>2, NullAssumption DEF IInv, TypeOK
  <2>4. CASE CommitCreateConflicts(r)
    BY <2>4 DEF CommitCreateConflicts, RollBack, database
  <2> QED
    BY <2>1, <2>3, <2>4
<1>2. ASSUME CallCheckout(r)
      PROVE  req'[r].pc = "create_commit" /\ req'[r].key = req[r].key
  <2>1. req'[r] = [req[r] EXCEPT !.pc = "create_commit"]
    BY <1>2 DEF CallCheckout, Continue, IInv, TypeOK
  <2> QED
    BY <1>0, <2>1 DEF Requests
<1>3. ASSUME ~CallCheckout(r)
      PROVE  req'[r].pc # "create_commit"
  <2>1. ASSUME NEW pc \in Pcs \ {"create_commit"}, Continue(r, pc)
        PROVE  req'[r].pc # "create_commit"
    <3>1. req'[r] = [req[r] EXCEPT !.pc = pc]
      BY <2>1 DEF Continue, IInv, TypeOK
    <3> QED
      BY <1>0, <3>1 DEF Requests
  <2>2. ASSUME Return(r)
        PROVE  req'[r].pc # "create_commit"
    BY <2>2 DEF Return, Idle, IInv, TypeOK
  <2>3. CASE CreateStep(r)
    <3>1. ASSUME NEW key, StartCreate(r, key)
          PROVE  req'[r].pc # "create_commit"
      <4>1. req'[r] = [Idle EXCEPT !.pc = "create_begin", !.key = key, !.pay = booking[BookingOf[key]].pay]
        BY <3>1 DEF StartCreate, IInv, TypeOK
      <4> QED
        BY <4>1 DEF Idle
    <3> QED
      BY <1>3, <2>1, <2>2, <2>3, <3>1 DEF CreateStep, BeginCreate, CallCheckoutFails, CommitCreate,
        CommitCreateConflicts, CommitCreateFails, FinishCreate, RollBack, Pcs
  <2>4. ASSUME RefundStep(r) \/ CancelStep(r)
        PROVE  req'[r].pc # "create_commit"
    <3>1. ASSUME NEW pc \in {"refund_begin", "cancel_call"}, NEW key, NEW pay,
                 req' = [req EXCEPT ![r] = [Idle EXCEPT !.pc = pc, !.key = key, !.pay = pay]]
          PROVE  req'[r].pc # "create_commit"
      <4>1. req'[r] = [Idle EXCEPT !.pc = pc, !.key = key, !.pay = pay]
        BY <3>1 DEF IInv, TypeOK
      <4> QED
        BY <4>1 DEF Idle
    <3>2. ASSUME BeginRefund(r), ~Return(r)
          PROVE  req'[r].pc # "create_commit"
      <4>1. PICK p \in CreateKeys :
              req' = [req EXCEPT ![r] =
                [req[r] EXCEPT !.pc = "refund_call", !.target = p, !.row = payment[p],
                               !.amount = AmountToRefund(req[r].key, payment[p])]]
        BY <3>2 DEF BeginRefund
      <4>2. req'[r] = [req[r] EXCEPT !.pc = "refund_call", !.target = p, !.row = payment[p],
                                     !.amount = AmountToRefund(req[r].key, payment[p])]
        BY <4>1 DEF IInv, TypeOK
      <4> QED
        BY <1>0, <4>2 DEF Requests
    <3>3. ASSUME NEW pc \in {"refund_commit", "cancel_commit"}, NEW outcome,
                 req' = [req EXCEPT ![r] = [req[r] EXCEPT !.pc = pc, !.outcome = outcome]]
          PROVE  req'[r].pc # "create_commit"
      <4>1. req'[r] = [req[r] EXCEPT !.pc = pc, !.outcome = outcome]
        BY <3>3 DEF IInv, TypeOK
      <4> QED
        BY <1>0, <4>1 DEF Requests
    <3>4. CASE CallRefund(r)
      BY <2>2, <3>3, <3>4 DEF CallRefund, RollBack
    <3>5. CASE CallAirline(r)
      BY <3>5, AirlineAnswers
    <3>6. CASE CallCancelRefund(r) \/ CallCancelRefundFails(r)
      BY <3>3, <3>6 DEF CallCancelRefund, CallCancelRefundFails, AfterCancelRefund
    <3> QED
      BY <2>1, <2>2, <2>4, <3>1, <3>2, <3>4, <3>5, <3>6 DEF RefundStep, StartRefund, CallRefundFails,
        CommitRefund, CommitRefundFails, FinishRefund, CancelStep, StartCancel, CallAirlineFails,
        CommitCancel, CommitCancelFails, FinishCancel, RollBack, Pcs
  <2> QED
    BY <2>3, <2>4
<1> QED
  BY <1>1, <1>2, <1>3

(* While nothing fails, no event is sent of a row that is still missing.   *)
LEMMA SentHasRow ==
  ASSUME RowsFollowSessions, EndsAnnounced, sent \subseteq Events, NEW e \in sent
  PROVE  payment[e.key] # Null
BY EventFacts DEF RowsFollowSessions, EndsAnnounced

LEMMA RequestAlive ==
  ASSUME AliveInv, NEW r \in Reqs, CreateStep(r) \/ RefundStep(r) \/ CancelStep(r),
         faults = 0, ~Fault
  PROVE  RowsFollowSessions' /\ EndsAnnounced' /\ EventsMoveRows'
<1> DEFINE Acts == CreateStep(r) \/ RefundStep(r) \/ CancelStep(r)
<1>0. IInv /\ RowsFollowSessions /\ EndsAnnounced /\ EventsMoveRows
  BY DEF AliveInv
<1>1. /\ UNCHANGED <<sent, acked, hook>>
      /\ \A e \in Events : store'[e] = store[e]
      /\ \A s \in Reqs \ {r} : req'[s] = req[s]
      /\ RowsKept
  BY <1>0, RequestFrame, RequestStore, RequestRows, OthersSame
<1>2. \A k \in CreateKeys :
        /\ session[k].state # "none" => session'[k].state = session[k].state
        /\ session'[k].state # session[k].state => CallCheckout(r) /\ req[r].key = k
        /\ payment[k] = Null /\ payment'[k] # Null => CommitCreate(r) /\ req[r].key = k
  BY <1>0, CreateOpens
<1>3. /\ req[r].pc = "create_commit" => payment'[req[r].key] # Null
      /\ CallCheckout(r) => req'[r].pc = "create_commit" /\ req'[r].key = req[r].key
      /\ req'[r].pc = "create_commit" => CallCheckout(r)
  BY <1>0, CommitPcs
<1>4. \A k \in CreateKeys : payment'[k] = Null => payment[k] = Null
  BY <1>1 DEF RowsKept, RowKept
<1>5. \A k \in CreateKeys :
        session'[k].state # session[k].state => session[k].state = "none" /\ session'[k].state = "open"
  BY <1>0, <1>2, RequestSessions DEF SessionsKept
<1>6. ASSUME NEW k \in CreateKeys, payment'[k] = Null, session'[k].state # "none"
      PROVE  /\ session'[k].state = "open"
             /\ \E s \in Reqs : req'[s].pc = "create_commit" /\ req'[s].key = k
  <2>1. CASE session'[k].state # session[k].state
    BY <1>2, <1>3, <1>5, <2>1
  <2>2. CASE session'[k].state = session[k].state
    <3>1. /\ payment[k] = Null
          /\ session[k].state = "open"
          /\ \E s \in Reqs : req[s].pc = "create_commit" /\ req[s].key = k
      BY <1>0, <1>4, <1>6, <2>2 DEF RowsFollowSessions
    <3> QED
      BY <1>1, <1>3, <1>6, <2>2, <3>1
  <2> QED
    BY <2>1, <2>2
<1>7. ASSUME NEW k \in CreateKeys, payment'[k] # Null
      PROVE  session'[k].state # "none"
  <2>1. CASE payment[k] # Null
    BY <1>0, <1>2, <2>1 DEF RowsFollowSessions
  <2>2. CASE payment[k] = Null
    <3>1. req[r].pc = "create_commit" /\ req[r].key = k
      BY <1>2, <1>7, <2>2 DEF CommitCreate, At
    <3> QED
      BY <1>0, <1>2, <3>1 DEF RowsFollowSessions
  <2> QED
    BY <2>1, <2>2
<1>8. ASSUME NEW s \in Reqs, req'[s].pc = "create_commit"
      PROVE  session'[req'[s].key].state # "none"
  <2>1. req[s].pc = "create_commit" => req[s].key \in CreateKeys
    BY <1>0, RequestTyped DEF IInv, CreatePcs
  <2>2. CASE s # r
    BY <1>0, <1>1, <1>2, <1>8, <2>1, <2>2 DEF RowsFollowSessions
  <2>3. CASE s = r
    <3>1. CallCheckout(r) /\ req'[r].key = req[r].key
      BY <1>3, <1>8, <2>3
    <3>2. req[r].key \in CreateKeys
      BY <1>0, <3>1, RequestTyped DEF IInv, CreatePcs, CallCheckout, At
    <3>3. session[req[r].key] \in SessionRows
      BY <1>0, <3>2 DEF IInv, TypeOK, SessionRows
    <3>4. session' = [session EXCEPT ![req[r].key] = [session[req[r].key] EXCEPT !.state =
            IF session[req[r].key].state = "none" THEN "open" ELSE session[req[r].key].state]]
      BY <3>1, <3>3 DEF CallCheckout, ProviderCreates
    <3> QED
      BY <1>0, <2>3, <3>1, <3>2, <3>3, <3>4 DEF IInv, TypeOK, SessionRows
  <2> QED
    BY <2>2, <2>3
<1>9. RowsFollowSessions'
  BY <1>6, <1>7, <1>8 DEF RowsFollowSessions
<1>10. EndsAnnounced'
  <2>1. \A e \in sent : e.key \in CreateKeys
    BY <1>0, EventFacts DEF IInv, TypeOK
  <2> QED
    BY <1>0, <1>1, <1>2, <1>5, <2>1 DEF EndsAnnounced
<1>11. ASSUME NEW e \in sent, Moved(e.key)
       PROVE  Moved(e.key)'
  <2>1. e.key \in CreateKeys /\ payment[e.key] # Null
    BY <1>0, EventFacts, SentHasRow DEF IInv, TypeOK
  <2> QED
    BY <1>1, <1>11, <2>1 DEF RowsKept, RowKept, Moved
<1>12. EventsMoveRows'
  <2>1. ASSUME NEW e \in Events, e \in acked' \/ store'[e] = "completed"
        PROVE  e \in sent' /\ Moved(e.key)'
    BY <1>0, <1>1, <1>11, <2>1 DEF EventsMoveRows
  <2>2. ASSUME hook'.pc = "ack"
        PROVE  Moved(hook.event.key)'
    <3>1. hook.event \in sent /\ Moved(hook.event.key)
      BY <1>0, <1>1, <2>2 DEF IInv, HookFits, EventsMoveRows
    <3> QED
      BY <1>1, <1>11, <3>1
  <2> QED
    BY <1>1, <2>1, <2>2 DEF EventsMoveRows, Moved
<1> QED
  BY <1>9, <1>10, <1>12

LEMMA HookAlive ==
  ASSUME AliveInv, HookStep, faults = 0, ~Fault
  PROVE  RowsFollowSessions' /\ EndsAnnounced' /\ EventsMoveRows'
<1>0. IInv /\ RowsFollowSessions /\ EndsAnnounced /\ EventsMoveRows
  BY DEF AliveInv
<1>1. UNCHANGED <<session, sent, req>> /\ (~CommitEvent => UNCHANGED payment)
  BY HookFrame
<1>2. \A k \in CreateKeys : payment'[k] = Null <=> payment[k] = Null
  BY <1>0, <1>1, EventRow
<1>3. RowsFollowSessions' /\ EndsAnnounced'
  BY <1>0, <1>1, <1>2 DEF RowsFollowSessions, EndsAnnounced
<1>4. ASSUME NEW k \in CreateKeys, Moved(k)
      PROVE  Moved(k)'
  <2>1. CASE CommitEvent /\ k = hook.event.key
    <3>1. payment'[k].status = NewStatusForEvent(hook.event.type, hook.event.paid) /\ hook.event \in Events
      BY <1>0, <2>1, EventRow
    <3> QED
      BY <3>1, EventFacts DEF Moved
  <2>2. CASE ~(CommitEvent /\ k = hook.event.key)
    <3>1. payment'[k] = payment[k]
      BY <1>0, <1>1, <2>2, EventRow
    <3> QED
      BY <1>4, <3>1 DEF Moved
  <2> QED
    BY <2>1, <2>2
<1>5. \A e \in sent : e \in Events /\ e.key \in CreateKeys
  BY <1>0, EventFacts DEF IInv, TypeOK
<1>6. ASSUME NEW e \in sent, DeliverDuplicate(e) \/ DeliverIgnored(e)
      PROVE  Moved(e.key)
  <2>1. CASE DeliverDuplicate(e)
    BY <1>0, <1>5, <2>1 DEF DeliverDuplicate, IInv, StoreFits, TypeOK, StoreStates, EventsMoveRows
  <2>2. CASE DeliverIgnored(e)
    <3>1. ~CanTransition(payment[e.key].status, NewStatusForEvent(e.type, e.paid)) \/ payment[e.key] = Null
      BY <2>2 DEF DeliverIgnored, Applies
    <3> QED
      BY <1>5, <3>1, EventFacts
      DEF CanTransition, AllowedTransitions, PaymentSessionStatuses, Moved
  <2> QED
    BY <1>6, <2>1, <2>2
<1>7. ASSUME NEW e \in Events, e \in acked' \/ store'[e] = "completed"
      PROVE  e \in sent /\ Moved(e.key)
  <2>1. CASE e \in acked \/ store[e] = "completed"
    BY <1>0, <2>1 DEF EventsMoveRows
  <2>2. CASE ~(e \in acked \/ store[e] = "completed")
    <3>1. ASSUME NEW d \in sent, Deliver(d)
          PROVE  e = d /\ (DeliverDuplicate(d) \/ DeliverIgnored(d))
      BY <1>0, <1>5, <1>7, <2>2, <3>1 DEF Deliver, DeliverDuplicate, DeliverIgnored, DeliverApplied,
        Acknowledge, Complete, Begin, IInv, TypeOK
    <3>2. ASSUME FinishEvent
          PROVE  e = hook.event /\ hook.event \in sent /\ Moved(hook.event.key)
      BY <1>0, <1>7, <2>2, <3>2 DEF FinishEvent, Acknowledge, Complete, IInv, TypeOK, HookFits, EventsMoveRows
    <3>3. ~CommitEvent
      BY <1>7, <2>2 DEF CommitEvent
    <3>4. ~CommitEventFails
      BY DEF CommitEventFails
    <3> QED
      BY <1>6, <3>1, <3>2, <3>3, <3>4 DEF HookStep
  <2> QED
    BY <2>1, <2>2
<1>8. ASSUME hook'.pc = "ack"
      PROVE  Moved(hook.event.key)'
  <2>1. CASE CommitEvent
    <3>1. hook'.event = hook.event
      BY <1>0, <2>1 DEF CommitEvent, IInv, TypeOK
    <3>2. /\ payment'[hook.event.key].status = NewStatusForEvent(hook.event.type, hook.event.paid)
          /\ hook.event \in Events
      BY <1>0, <2>1, EventRow
    <3> QED
      BY <3>1, <3>2, EventFacts DEF Moved
  <2>2. CASE ~CommitEvent
    <3>1. UNCHANGED hook
      BY <1>8, <2>2 DEF HookStep, Deliver, DeliverDuplicate, DeliverIgnored, DeliverApplied,
        CommitEventFails, FinishEvent, HookIdle
    <3>2. hook.event \in sent /\ Moved(hook.event.key)
      BY <1>0, <1>8, <3>1 DEF IInv, HookFits, EventsMoveRows
    <3> QED
      BY <1>4, <1>5, <3>1, <3>2
  <2> QED
    BY <2>1, <2>2
<1>9. EventsMoveRows'
  <2>1. ASSUME NEW e \in Events, e \in acked' \/ store'[e] = "completed"
        PROVE  e \in sent' /\ Moved(e.key)'
    BY <1>1, <1>4, <1>5, <1>7, <2>1
  <2> QED
    BY <1>8, <2>1 DEF EventsMoveRows, Moved
<1> QED
  BY <1>3, <1>9

LEMMA WorldAlive ==
  ASSUME AliveInv, WorldStep, faults = 0, ~Fault
  PROVE  RowsFollowSessions' /\ EndsAnnounced' /\ EventsMoveRows'
<1>0. IInv /\ RowsFollowSessions /\ EndsAnnounced /\ EventsMoveRows
  BY DEF AliveInv
<1>1. PICK k \in CreateKeys : CustomerPays(k) \/ PaymentSettles(k) \/ SessionExpires(k)
  BY DEF WorldStep, Crash
<1>2. payment[k] # Null
  BY <1>0, <1>1 DEF CustomerPays, PaymentSettles, SessionExpires, IInv, SessionsTrue, RowsFollowSessions
<1>3. \E state \in SessionStates \ {"none", "open"}, kind \in EventKinds : SessionBecomes(k, state, kind)
  BY <1>1 DEF CustomerPays, PaymentSettles, SessionExpires, SessionStates, EventKinds
<1>4. PICK state \in SessionStates \ {"none", "open"} :
        \E kind \in EventKinds : SessionBecomes(k, state, kind)
  BY <1>3
<1>5. PICK kind \in EventKinds : SessionBecomes(k, state, kind)
  BY <1>4
<1>6. Event(k, kind) \in Events /\ Event(k, kind).key = k
  BY EventIn DEF Event
<1>7. session[k] \in SessionRows
  BY <1>0 DEF IInv, TypeOK, SessionRows
<1>8. session' = [session EXCEPT ![k] = [session[k] EXCEPT !.state = state]]
  BY <1>5, <1>7 DEF SessionBecomes
<1>9. session'[k].state = state /\ \A j \in CreateKeys \ {k} : session'[j] = session[j]
  BY <1>0, <1>7, <1>8 DEF IInv, TypeOK, SessionRows
<1>10. sent' = sent \cup {Event(k, kind)} /\ UNCHANGED <<payment, store, acked, req, hook>>
  BY <1>5 DEF SessionBecomes, database
<1>11. \A r \in Reqs : req[r].pc = "create_commit" => req[r].key \in CreateKeys
  BY <1>0, RequestTyped DEF IInv, CreatePcs
<1>12. RowsFollowSessions'
  BY <1>0, <1>2, <1>9, <1>10, <1>11 DEF RowsFollowSessions
<1>13. EndsAnnounced'
  <2>1. \A e \in sent : e.key \in CreateKeys
    BY <1>0, EventFacts DEF IInv, TypeOK
  <2> QED
    BY <1>0, <1>6, <1>9, <1>10, <2>1 DEF EndsAnnounced
<1>14. EventsMoveRows'
  BY <1>0, <1>10 DEF EventsMoveRows, Moved
<1> QED
  BY <1>12, <1>13, <1>14

LEMMA NextAlive == AliveInv /\ [Next]_vars => AliveInv'
<1>1. ASSUME AliveInv, Next
      PROVE  AliveInv'
  <2>1. IInv'
    BY <1>1, NextInvariant DEF AliveInv
  <2>2. ASSUME faults' = 0
        PROVE  RowsFollowSessions' /\ EndsAnnounced' /\ EventsMoveRows'
    <3>1. faults = 0 /\ ~Fault
      BY <1>1, <2>2, NoFault DEF AliveInv
    <3> QED
      BY <1>1, <3>1, RequestAlive, HookAlive, WorldAlive DEF Next
  <2> QED
    BY <2>1, <2>2 DEF AliveInv
<1>2. ASSUME AliveInv, UNCHANGED vars
      PROVE  AliveInv'
  <2>1. IInv'
    BY <1>2, NextInvariant DEF AliveInv
  <2> QED
    BY <1>2, <2>1 DEF AliveInv, vars, RowsFollowSessions, EndsAnnounced, EventsMoveRows, Moved
<1> QED
  BY <1>1, <1>2

LEMMA InitAlive == Init => AliveInv
<1> SUFFICES ASSUME Init
             PROVE  RowsFollowSessions /\ EndsAnnounced /\ EventsMoveRows
  BY InitInvariant DEF AliveInv
<1> QED
  BY DEF Init, RowsFollowSessions, EndsAnnounced, EventsMoveRows, Idle, HookIdle

(* create_payment_session and handle_webhook_event: while no call fails, a *)
(* PENDING row is never the row of a dead session whose last event has     *)
(* already been answered, however requests and events interleave.          *)
THEOREM PendingIsAliveUnlessFault == Spec => []PendingIsAlive
<1>1. AliveInv => PendingIsAlive
  <2> SUFFICES ASSUME AliveInv, faults = 0,
                      NEW k \in CreateKeys, payment[k] # Null, payment[k].status = "PENDING",
                      session[k].state # "open"
               PROVE  \E e \in sent \ acked : e.key = k
    BY DEF PendingIsAlive
  <2>1. PICK e \in sent : e.key = k
    BY DEF AliveInv, RowsFollowSessions, EndsAnnounced
  <2>2. e \in Events
    BY DEF AliveInv, IInv, TypeOK
  <2> QED
    BY <2>1, <2>2 DEF AliveInv, EventsMoveRows, Moved
<1> QED
  BY <1>1, InitAlive, NextAlive, PTL DEF Spec

-----------------------------------------------------------------------------
(* While the refunds and cancellations of a booking do not overlap and no  *)
(* call fails, the books cover the money returned.                         *)

(* A request that has its refund, or the fee, and is about to record it.   *)
Recording(q) == HoldsPayment(q) /\ q.pc \in {"refund_commit", "cancel_commit"}

(* What was returned is on the row, or about to be.                        *)
ReturnedIsBooked ==
  \A k \in CreateKeys : session[k].returned > 0 =>
    /\ payment[k] # Null
    /\ \/ session[k].returned <= RefundedOf(payment[k])
       \/ \E r \in Reqs : /\ Recording(req[r])
                          /\ req[r].target = k
                          /\ session[k].returned <= RefundedOf(payment[k]) + req[r].amount

(* The total a request has read is still the row's.                        *)
RowsFresh ==
  \A r \in Reqs : HoldsPayment(req[r]) => req[r].row.refunded = payment[req[r].target].refunded

BooksInv == IInv /\ ReturnedIsBooked /\ RowsFresh

(* The three kinds of step a request takes: one that touches no refund, the*)
(* provider's answer, and the commit that records it.                      *)
LeavesRefunds(r) ==
  /\ ~Recording(req[r])
  /\ \A k \in CreateKeys : session'[k].returned = session[k].returned
  /\ \A k \in CreateKeys : payment[k] # Null =>
       payment'[k] # Null /\ payment'[k].refunded = payment[k].refunded
  /\ HoldsPayment(req'[r]) => req'[r].row.refunded = payment'[req'[r].target].refunded

Refunds(r) ==
  LET p == req[r].target IN
  /\ HoldsPayment(req[r]) /\ ~Recording(req[r])
  /\ Recording(req'[r])
  /\ req'[r].target = p /\ req'[r].row = req[r].row /\ req'[r].amount = req[r].amount
  /\ UNCHANGED payment
  /\ \A k \in CreateKeys \ {p} : session'[k].returned = session[k].returned
  /\ session'[p].returned \in {session[p].returned, session[p].returned + req[r].amount}

Records(r) ==
  LET p == req[r].target IN
  /\ Recording(req[r])
  /\ ~HoldsPayment(req'[r])
  /\ UNCHANGED session
  /\ payment'[p] # Null
  /\ payment'[p].refunded =
       Written(req[r].row.refunded, RefundedOf(req[r].row) + req[r].amount, payment[p].refunded)
  /\ \A k \in CreateKeys \ {p} : payment'[k] = payment[k]

LEMMA CreateLeaves ==
  ASSUME IInv, NEW r \in Reqs, CreateStep(r)
  PROVE  LeavesRefunds(r)
<1>1. req[r].pc \notin {"refund_call", "refund_commit", "cancel_refund", "cancel_commit"}
  BY Zenon DEF CreateStep, StartCreate, BeginCreate, CallCheckout, CallCheckoutFails, CommitCreate,
    CommitCreateConflicts, CommitCreateFails, FinishCreate, At
<1>2. ~HoldsPayment(req[r])
  BY <1>1 DEF HoldsPayment
<1>3. ~HoldsPayment(req'[r])
  <2>1. ASSUME NEW key \in CreateKeys, StartCreate(r, key)
        PROVE  req'[r].pc = "create_begin"
    BY <2>1 DEF StartCreate, IInv, TypeOK, Idle
  <2>2. ASSUME Return(r)
        PROVE  req'[r].pc = "idle"
    BY <2>2 DEF Return, IInv, TypeOK, Idle
  <2>3. req'[r].pc \in CreatePcs \cup {"idle"}
    BY <2>1, <2>2, NewPc DEF IInv, CreateStep, BeginCreate, CallCheckout, CommitCreate, CreatePcs,
      CallCheckoutFails, CommitCreateConflicts, CommitCreateFails, FinishCreate, RollBack
  <2> QED
    BY <2>3 DEF HoldsPayment, CreatePcs
<1>4. \A k \in CreateKeys : session'[k].returned = session[k].returned
  <2>1. ASSUME NEW j \in CreateKeys, ProviderCreates(j)
        PROVE  \A k \in CreateKeys : session'[k].returned = session[k].returned
    <3>1. session[j] \in SessionRows
      BY DEF IInv, TypeOK, SessionRows
    <3>2. session' = [session EXCEPT ![j] = [session[j] EXCEPT !.state =
            IF session[j].state = "none" THEN "open" ELSE session[j].state]]
      BY <2>1, <3>1 DEF ProviderCreates
    <3> QED
      BY <3>1, <3>2 DEF IInv, TypeOK, SessionRows
  <2>2. CASE CallCheckout(r) \/ CallCheckoutFails(r)
    <3>1. req[r].key \in CreateKeys
      BY <2>2, RequestTyped DEF CallCheckout, CallCheckoutFails, At, CreatePcs, IInv
    <3> QED
      BY <2>1, <2>2, <3>1 DEF CallCheckout, CallCheckoutFails, provider
  <2>3. CASE UNCHANGED session
    BY <2>3
  <2> QED
    BY Zenon, <2>2, <2>3 DEF CreateStep, StartCreate, BeginCreate, CommitCreate, CommitCreateConflicts,
      CommitCreateFails, FinishCreate, provider
<1>5. \A k \in CreateKeys : payment[k] # Null =>
        payment'[k] # Null /\ payment'[k].refunded = payment[k].refunded
  <2>1. CASE CommitCreate(r)
    <3> DEFINE row == NewRow({j \in CreateKeys : payment[j] # Null})
    <3>1. payment' = [payment EXCEPT ![req[r].key] = row] /\ payment[req[r].key] = Null
      BY <2>1 DEF CommitCreate
    <3> HIDE DEF row
    <3> QED
      BY <3>1 DEF IInv, TypeOK
  <2>2. CASE UNCHANGED payment
    BY <2>2
  <2> QED
    BY Zenon, <2>1, <2>2 DEF CreateStep, StartCreate, BeginCreate, CallCheckout, CallCheckoutFails,
      CommitCreateConflicts, CommitCreateFails, FinishCreate, RollBack, database
<1> QED
  BY <1>2, <1>3, <1>4, <1>5 DEF LeavesRefunds, Recording

(* A request that ends, starts or waits leaves the refunds alone.          *)
LEMMA PlainLeaves ==
  ASSUME IInv, NEW r \in Reqs, ~Recording(req[r]), UNCHANGED <<session, payment>>,
         ~HoldsPayment(req'[r])
  PROVE  LeavesRefunds(r)
BY DEF LeavesRefunds

LEMMA ReturnHolds ==
  ASSUME IInv, NEW r \in Reqs, Return(r)
  PROVE  ~HoldsPayment(req'[r])
BY DEF Return, IInv, TypeOK, Idle, HoldsPayment

(* A request moves on with what it has learned.                            *)
MovesOn(r, pc, outcome) ==
  req' = [req EXCEPT ![r] = [req[r] EXCEPT !.pc = pc, !.outcome = outcome]]

(* The provider's answer adds at most the amount asked.                    *)
LEMMA ProviderReturns ==
  ASSUME IInv, NEW r \in Reqs, req[r].pc \in {"refund_call", "cancel_refund"},
         NEW status \in RefundStatuses, ProviderRefunds(req[r].key, req[r].target, req[r].amount, status),
         UNCHANGED payment, NEW pc \in {"refund_commit", "cancel_commit"},
         MovesOn(r, pc, status)
  PROVE  Refunds(r)
<1> DEFINE p == req[r].target
<1>1. HoldsPayment(req[r]) /\ ~Recording(req[r])
  BY DEF HoldsPayment, Recording
<1>2. req[r] \in Requests /\ p \in CreateKeys
  BY <1>1, HoldingTyped DEF IInv, TypeOK
<1>3. req'[r] = [req[r] EXCEPT !.pc = pc, !.outcome = status]
  BY DEF IInv, TypeOK, MovesOn
<1>4. /\ req'[r].pc = pc /\ req'[r].outcome = status
      /\ req'[r].target = p /\ req'[r].row = req[r].row /\ req'[r].amount = req[r].amount
  BY <1>2, <1>3 DEF Requests
<1>5. Recording(req'[r])
  BY <1>4 DEF Recording, HoldsPayment, RefundStatuses
<1>6. session[p] \in SessionRows
  BY <1>2 DEF IInv, TypeOK, SessionRows
<1>7. \/ UNCHANGED session
      \/ session' = [session EXCEPT ![p] = [session[p] EXCEPT !.returned = session[p].returned + req[r].amount]]
  BY <1>6 DEF ProviderRefunds
<1>8. /\ \A k \in CreateKeys \ {p} : session'[k].returned = session[k].returned
      /\ session'[p].returned \in {session[p].returned, session[p].returned + req[r].amount}
  BY <1>2, <1>6, <1>7 DEF IInv, TypeOK, SessionRows
<1> QED
  BY <1>1, <1>4, <1>5, <1>8 DEF Refunds

(* apply_refund_outcome's commit.                                          *)
LEMMA CommitRecords ==
  ASSUME IInv, NEW r \in Reqs, Recording(req[r]), UNCHANGED session, ~HoldsPayment(req'[r]),
         payment' = [payment EXCEPT ![req[r].target] = RefundedRow(req[r], payment[req[r].target])]
  PROVE  Records(r)
<1> DEFINE p == req[r].target
           row == RefundedRow(req[r], payment[p])
<1>1. p \in CreateKeys /\ payment[p] \in Rows
  BY HoldingTyped DEF IInv, Recording
<1>2. row.refunded = Written(req[r].row.refunded, RefundedOf(req[r].row) + req[r].amount, payment[p].refunded)
  BY <1>1 DEF RefundedRow, Rows
<1>3. payment'[p] = row
  <2> HIDE DEF row
  <2> QED
    BY <1>1 DEF IInv, TypeOK, row
<1>4. \A k \in CreateKeys \ {p} : payment'[k] = payment[k]
  BY <1>1 DEF IInv, TypeOK
<1>5. payment'[p] # Null
  BY <1>1, RefundKept DEF Recording, RowsKept, RowKept, IInv, RequestsFit, RequestFits, HoldingFits, RowsOf
<1> HIDE DEF row
<1> QED
  BY <1>2, <1>3, <1>4, <1>5 DEF Records

LEMMA RefundKinds ==
  ASSUME IInv, NEW r \in Reqs, RefundStep(r), ~Fault
  PROVE  LeavesRefunds(r) \/ Refunds(r) \/ Records(r)
<1>0. req[r] \in Requests /\ RequestFits(r)
  BY DEF IInv, TypeOK, RequestsFit
<1>1. ASSUME NEW key \in RefundKeys, StartRefund(r, key)
      PROVE  LeavesRefunds(r)
  <2>1. req'[r].pc = "refund_begin"
    BY <1>1 DEF StartRefund, IInv, TypeOK, Idle
  <2> QED
    BY <1>1, <2>1, PlainLeaves DEF StartRefund, At, HoldsPayment, Recording, database, provider
<1>2. ASSUME BeginRefund(r)
      PROVE  LeavesRefunds(r)
  <2>0. ~Recording(req[r]) /\ UNCHANGED <<session, payment>>
    BY <1>2 DEF BeginRefund, At, Recording, database, provider
  <2>1. CASE Return(r)
    BY <2>0, <2>1, ReturnHolds, PlainLeaves
  <2>2. CASE ~Return(r)
    <3>1. PICK p \in CreateKeys :
            req' = [req EXCEPT ![r] =
              [req[r] EXCEPT !.pc = "refund_call", !.target = p, !.row = payment[p],
                             !.amount = AmountToRefund(req[r].key, payment[p])]]
      BY <1>2, <2>2 DEF BeginRefund
    <3>2. req'[r] = [req[r] EXCEPT !.pc = "refund_call", !.target = p, !.row = payment[p],
                                   !.amount = AmountToRefund(req[r].key, payment[p])]
      BY <3>1 DEF IInv, TypeOK
    <3>3. req'[r].target = p /\ req'[r].row = payment[p]
      BY <1>0, <3>2 DEF Requests
    <3> QED
      BY <2>0, <3>3 DEF LeavesRefunds
  <2> QED
    BY <2>1, <2>2
<1>3. ASSUME CallRefund(r)
      PROVE  LeavesRefunds(r) \/ Refunds(r)
  <2>0. req[r].pc = "refund_call" /\ ~Recording(req[r])
    BY <1>3 DEF CallRefund, At, Recording
  <2>1. CASE RollBack(r) /\ UNCHANGED provider
    BY <2>0, <2>1, ReturnHolds, PlainLeaves DEF RollBack, database, provider
  <2>2. CASE ~(RollBack(r) /\ UNCHANGED provider)
    <3>1. PICK status \in RefundStatuses :
            /\ ProviderRefunds(req[r].key, req[r].target, req[r].amount, status)
            /\ req' = [req EXCEPT ![r] = [req[r] EXCEPT !.pc = "refund_commit", !.outcome = status]]
            /\ UNCHANGED <<database, store>>
      BY <1>3, <2>2 DEF CallRefund
    <3> QED
      BY <2>0, <3>1, ProviderReturns DEF database, MovesOn
  <2> QED
    BY <2>1, <2>2
<1>4. ASSUME CommitRefund(r)
      PROVE  Records(r)
  <2>1. Recording(req[r]) /\ UNCHANGED session
    BY <1>4 DEF CommitRefund, At, Recording, HoldsPayment, provider
  <2>2. req'[r].pc = "refund_finish"
    BY <1>4, NewPc DEF CommitRefund, IInv
  <2>3. req[r].target \in CreateKeys
    BY <2>1, HoldingTyped DEF Recording, IInv
  <2>4. payment' = [payment EXCEPT ![req[r].target] = RefundedRow(req[r], payment[req[r].target])]
    BY <1>4, <2>3 DEF CommitRefund, IInv, TypeOK
  <2> QED
    BY <2>1, <2>2, <2>4, CommitRecords DEF HoldsPayment
<1>5. ASSUME FinishRefund(r)
      PROVE  LeavesRefunds(r)
  BY <1>5, ReturnHolds, PlainLeaves DEF FinishRefund, At, Recording, database, provider
<1> QED
  BY <1>1, <1>2, <1>3, <1>4, <1>5 DEF RefundStep, CallRefundFails, CommitRefundFails

LEMMA CancelKinds ==
  ASSUME IInv, NEW r \in Reqs, CancelStep(r), ~Fault
  PROVE  LeavesRefunds(r) \/ Refunds(r) \/ Records(r)
<1>0. req[r] \in Requests /\ RequestFits(r)
  BY DEF IInv, TypeOK, RequestsFit
<1>1. ASSUME NEW key \in CancelKeys, StartCancel(r, key)
      PROVE  LeavesRefunds(r)
  <2>1. req'[r].pc = "cancel_call"
    BY <1>1 DEF StartCancel, IInv, TypeOK, Idle
  <2> QED
    BY <1>1, <2>1, PlainLeaves DEF StartCancel, At, HoldsPayment, Recording, database, provider
<1>2. ASSUME CallAirline(r)
      PROVE  LeavesRefunds(r)
  <2>0. /\ ~Recording(req[r])
        /\ UNCHANGED <<session, payment>>
        /\ req[r].pc = "cancel_call" /\ req[r].outcome = "none"
    BY <1>0, <1>2 DEF CallAirline, At, Recording, database, provider, RequestFits, OutcomeKnown
  <2>1. CASE Continue(r, "cancel_commit")
    <3>1. req'[r].pc = "cancel_commit" /\ req'[r].outcome = "none"
      BY <1>0, <2>0, <2>1 DEF Continue, IInv, TypeOK, Requests
    <3> QED
      BY <2>0, <3>1, PlainLeaves DEF HoldsPayment
  <2>2. CASE ~Continue(r, "cancel_commit")
    <3>1. PICK refundable \in RefundableAmounts \cup {0}, p \in CreateKeys :
            LET amount == Least(refundable, Remaining(payment[p]))
            IN  req' = [req EXCEPT ![r] =
                  [req[r] EXCEPT !.pc = IF amount > 0 THEN "cancel_refund" ELSE "cancel_commit",
                                 !.target = p, !.row = payment[p], !.amount = amount,
                                 !.outcome = IF amount > 0 THEN "none" ELSE "absorbed"]]
      BY <1>2, <2>2 DEF CallAirline
    <3> DEFINE amount == Least(refundable, Remaining(payment[p]))
               pc == IF amount > 0 THEN "cancel_refund" ELSE "cancel_commit"
               outcome == IF amount > 0 THEN "none" ELSE "absorbed"
    <3>2. req' = [req EXCEPT ![r] = [req[r] EXCEPT !.pc = pc, !.target = p, !.row = payment[p],
                                                   !.amount = amount, !.outcome = outcome]]
      BY <3>1
    <3> HIDE DEF amount, pc, outcome
    <3>3. req'[r] = [req[r] EXCEPT !.pc = pc, !.target = p, !.row = payment[p],
                                   !.amount = amount, !.outcome = outcome]
      BY <3>2 DEF IInv, TypeOK
    <3>4. req'[r].target = p /\ req'[r].row = payment[p]
      BY <1>0, <3>3 DEF Requests
    <3> QED
      BY <2>0, <3>4 DEF LeavesRefunds
  <2> QED
    BY <2>1, <2>2
<1>3. ASSUME CallCancelRefund(r)
      PROVE  LeavesRefunds(r) \/ Refunds(r)
  <2>0. req[r].pc = "cancel_refund" /\ ~Recording(req[r]) /\ UNCHANGED payment
    BY <1>3 DEF CallCancelRefund, At, Recording, database
  <2>1. CASE AfterCancelRefund(r, "none") /\ UNCHANGED provider
    <3>1. req'[r] = [req[r] EXCEPT !.pc = "cancel_commit", !.outcome = "none"]
      BY <2>1 DEF AfterCancelRefund, IInv, TypeOK
    <3>2. ~HoldsPayment(req'[r])
      BY <1>0, <3>1 DEF HoldsPayment, Requests
    <3> QED
      BY <2>0, <2>1, <3>2, PlainLeaves DEF provider
  <2>2. CASE ~(AfterCancelRefund(r, "none") /\ UNCHANGED provider)
    <3>1. PICK status \in RefundStatuses :
            /\ ProviderRefunds(req[r].key, req[r].target, req[r].amount, status)
            /\ AfterCancelRefund(r, status)
      BY <1>3, <2>2 DEF CallCancelRefund
    <3>2. MovesOn(r, "cancel_commit", status)
      BY <3>1 DEF AfterCancelRefund, MovesOn, IInv, TypeOK
    <3> QED
      BY <2>0, <3>1, <3>2, ProviderReturns
  <2> QED
    BY <2>1, <2>2
<1>4. ASSUME CommitCancel(r)
      PROVE  LeavesRefunds(r) \/ Records(r)
  <2>1. req'[r].pc = "cancel_finish"
    BY <1>4, NewPc DEF CommitCancel, IInv
  <2>2. ~HoldsPayment(req'[r]) /\ UNCHANGED session
    BY <1>4, <2>1 DEF HoldsPayment, CommitCancel, provider
  <2>3. CASE req[r].outcome = "none"
    <3>1. ~Recording(req[r]) /\ UNCHANGED payment
      BY <1>4, <2>3 DEF CommitCancel, At, Recording, HoldsPayment
    <3> QED
      BY <2>2, <3>1, PlainLeaves
  <2>4. CASE req[r].outcome # "none"
    <3>1. Recording(req[r])
      BY <1>4, <2>4 DEF CommitCancel, At, Recording, HoldsPayment
    <3>2. req[r].target \in CreateKeys
      BY <3>1, HoldingTyped DEF Recording, IInv
    <3>3. payment' = [payment EXCEPT ![req[r].target] = RefundedRow(req[r], payment[req[r].target])]
      BY <1>4, <2>4, <3>2 DEF CommitCancel, IInv, TypeOK
    <3> QED
      BY <2>2, <3>1, <3>3, CommitRecords
  <2> QED
    BY <2>3, <2>4
<1>5. ASSUME FinishCancel(r)
      PROVE  LeavesRefunds(r)
  BY <1>5, ReturnHolds, PlainLeaves DEF FinishCancel, At, Recording, database, provider
<1> QED
  BY <1>1, <1>2, <1>3, <1>4, <1>5 DEF CancelStep, CallAirlineFails, CallCancelRefundFails, CommitCancelFails

(* A request that holds a payment of the same booking is the only one.     *)
LEMMA OneHolds ==
  ASSUME IInv, Undisturbed, NEW r \in Reqs, NEW s \in Reqs,
         HoldsPayment(req[r]), HoldsPayment(req[s]), req[r].target = req[s].target
  PROVE  r = s
<1>1. BookingOf[req[r].key] = BookingOf[req[s].key]
  BY DEF IInv, RequestsFit, RequestFits, HoldingFits, RowsOf
<1>2. Returning(req[r]) /\ Returning(req[s])
  BY DEF HoldsPayment, Returning, RefundPcs, CancelPcs
<1> QED
  BY <1>1, <1>2 DEF Undisturbed

LEMMA RequestBooks ==
  ASSUME BooksInv, Undisturbed, NEW r \in Reqs, LeavesRefunds(r) \/ Refunds(r) \/ Records(r),
         \A s \in Reqs \ {r} : req'[s] = req[s]
  PROVE  ReturnedIsBooked' /\ RowsFresh'
<1> DEFINE p == req[r].target
<1>0. IInv /\ ReturnedIsBooked /\ RowsFresh
  BY DEF BooksInv
<1>1. \A s \in Reqs : HoldsPayment(req[s]) =>
        /\ req[s].target \in CreateKeys
        /\ payment[req[s].target] # Null
        /\ payment[req[s].target] \in Rows
        /\ req[s].row \in Rows
        /\ req[s].amount \in Nat
        /\ req[s].row.refunded = payment[req[s].target].refunded
  BY <1>0, HoldingTyped DEF IInv, RequestsFit, RequestFits, HoldingFits, RowsOf, RowsFresh
<1>2. \A k \in CreateKeys : /\ session[k].returned \in Nat
                            /\ payment[k] # Null => RefundedOf(payment[k]) \in Nat
  BY <1>0, RefundedOfTyped DEF IInv, TypeOK, Amounts
<1>3. CASE LeavesRefunds(r)
  <2>1. \A k \in CreateKeys : payment[k] # Null =>
          payment'[k] # Null /\ RefundedOf(payment'[k]) = RefundedOf(payment[k])
    BY <1>3 DEF LeavesRefunds, RefundedOf
  <2>2. ReturnedIsBooked'
    <3> SUFFICES ASSUME NEW k \in CreateKeys, session'[k].returned > 0
                 PROVE  /\ payment'[k] # Null
                        /\ \/ session'[k].returned <= RefundedOf(payment'[k])
                           \/ \E s \in Reqs :
                                /\ Recording(req'[s])
                                /\ req'[s].target = k
                                /\ session'[k].returned <= RefundedOf(payment'[k]) + req'[s].amount
      BY DEF ReturnedIsBooked, Recording, HoldsPayment, RefundedOf
    <3>1. session'[k].returned = session[k].returned /\ payment[k] # Null
      BY <1>0, <1>3 DEF LeavesRefunds, ReturnedIsBooked
    <3>2. CASE session[k].returned <= RefundedOf(payment[k])
      BY <2>1, <3>1, <3>2
    <3>3. CASE ~(session[k].returned <= RefundedOf(payment[k]))
      <4>1. PICK s \in Reqs : /\ Recording(req[s])
                              /\ req[s].target = k
                              /\ session[k].returned <= RefundedOf(payment[k]) + req[s].amount
        BY <1>0, <3>1, <3>3 DEF LeavesRefunds, ReturnedIsBooked
      <4>2. s # r
        BY <1>3, <4>1 DEF LeavesRefunds
      <4> QED
        BY <2>1, <3>1, <4>1, <4>2
    <3> QED
      BY <3>2, <3>3
  <2>3. RowsFresh'
    BY <1>1, <1>3 DEF RowsFresh, LeavesRefunds, HoldsPayment
  <2> QED
    BY <2>2, <2>3
<1>4. CASE Refunds(r)
  <2>1. \A s \in Reqs : req'[s].target = req[s].target /\ req'[s].row = req[s].row
                        /\ req'[s].amount = req[s].amount
    BY <1>4 DEF Refunds
  <2>2. \A s \in Reqs : HoldsPayment(req'[s]) => HoldsPayment(req[s])
    BY <1>4 DEF Refunds
  <2>3. RowsFresh'
    BY <1>1, <1>4, <2>1, <2>2 DEF RowsFresh, Refunds, HoldsPayment
  <2>4. ReturnedIsBooked'
    <3> SUFFICES ASSUME NEW k \in CreateKeys, session'[k].returned > 0
                 PROVE  /\ payment'[k] # Null
                        /\ \/ session'[k].returned <= RefundedOf(payment'[k])
                           \/ \E s \in Reqs :
                                /\ Recording(req'[s])
                                /\ req'[s].target = k
                                /\ session'[k].returned <= RefundedOf(payment'[k]) + req'[s].amount
      BY DEF ReturnedIsBooked, Recording, HoldsPayment, RefundedOf
    <3>0. payment'[k] = payment[k]
      BY <1>4 DEF Refunds
    <3>1. CASE k # p
      <4>1. session'[k].returned = session[k].returned
        BY <1>4, <3>1 DEF Refunds
      <4>2. \A s \in Reqs : Recording(req[s]) /\ req[s].target = k => s # r /\ req'[s] = req[s]
        BY <3>1
      <4> QED
        BY <1>0, <3>0, <4>1, <4>2 DEF ReturnedIsBooked
    <3>2. CASE k = p
      <4>1. HoldsPayment(req[r]) /\ ~Recording(req[r]) /\ Recording(req'[r])
        BY <1>4 DEF Refunds
      <4>2. \A s \in Reqs : Recording(req[s]) => req[s].target # k
        BY <1>0, <3>2, <4>1, OneHolds DEF Recording
      <4>3. payment[k] # Null /\ req[r].amount \in Nat
        BY <1>1, <3>2, <4>1
      <4>4. session[k].returned <= RefundedOf(payment[k])
        BY <1>0, <1>2, <4>2, <4>3 DEF ReturnedIsBooked
      <4>5. session'[k].returned <= RefundedOf(payment[k]) + req[r].amount
        <5>1. session'[k].returned \in {session[k].returned, session[k].returned + req[r].amount}
          BY <1>4, <3>2 DEF Refunds
        <5> QED
          BY <1>2, <4>3, <4>4, <5>1
      <4> QED
        BY <2>1, <3>0, <3>2, <4>1, <4>3, <4>5
    <3> QED
      BY <3>1, <3>2
  <2> QED
    BY <2>3, <2>4
<1>5. CASE Records(r)
  <2>1. /\ Recording(req[r]) /\ HoldsPayment(req[r]) /\ ~HoldsPayment(req'[r])
        /\ UNCHANGED session
        /\ payment'[p] # Null
        /\ \A k \in CreateKeys \ {p} : payment'[k] = payment[k]
    BY <1>5 DEF Records, Recording
  <2>2. RefundedOf(payment'[p]) = RefundedOf(payment[p]) + req[r].amount
    <3>1. payment'[p].refunded =
            Written(payment[p].refunded, RefundedOf(payment[p]) + req[r].amount, payment[p].refunded)
      <4>1. req[r].row.refunded = payment[p].refunded
        BY <1>1, <2>1
      <4> QED
        BY <1>5, <4>1 DEF Records, RefundedOf
    <3>2. RefundedOf(payment[p]) \in Nat /\ req[r].amount \in Nat
      BY <1>1, <1>2, <2>1
    <3>3. payment'[p].refunded = RefundedOf(payment[p]) + req[r].amount
      BY <3>1 DEF Written
    <3> QED
      BY <3>2, <3>3, AmountsAssumption DEF RefundedOf
  <2>3. \A s \in Reqs : HoldsPayment(req'[s]) =>
          s # r /\ req'[s] = req[s] /\ HoldsPayment(req[s]) /\ req[s].target # p
    BY <1>0, <2>1, OneHolds
  <2>4. RowsFresh'
    BY <1>1, <2>1, <2>3 DEF RowsFresh, HoldsPayment
  <2>5. ReturnedIsBooked'
    <3> SUFFICES ASSUME NEW k \in CreateKeys, session'[k].returned > 0
                 PROVE  /\ payment'[k] # Null
                        /\ \/ session'[k].returned <= RefundedOf(payment'[k])
                           \/ \E s \in Reqs :
                                /\ Recording(req'[s])
                                /\ req'[s].target = k
                                /\ session'[k].returned <= RefundedOf(payment'[k]) + req'[s].amount
      BY DEF ReturnedIsBooked, Recording, HoldsPayment, RefundedOf
    <3>1. CASE k # p
      <4>1. payment'[k] = payment[k] /\ session'[k] = session[k]
        BY <2>1, <3>1
      <4>2. \A s \in Reqs : Recording(req[s]) /\ req[s].target = k => s # r /\ req'[s] = req[s]
        BY <3>1
      <4> QED
        BY <1>0, <4>1, <4>2 DEF ReturnedIsBooked
    <3>2. CASE k = p
      <4>1. \A s \in Reqs : Recording(req[s]) /\ req[s].target = k => s = r
        BY <1>0, <2>1, <3>2, OneHolds DEF Recording
      <4>2. session[k].returned <= RefundedOf(payment[k]) + req[r].amount
        <5>1. req[r].amount \in Nat /\ payment[k] # Null
          BY <1>1, <2>1, <3>2
        <5> QED
          BY <1>0, <1>2, <2>1, <4>1, <5>1 DEF ReturnedIsBooked
      <4> QED
        BY <2>1, <2>2, <3>2, <4>2
    <3> QED
      BY <3>1, <3>2
  <2> QED
    BY <2>4, <2>5
<1> QED
  BY <1>3, <1>4, <1>5

(* Nobody else touches a refund.                                           *)
LEMMA OthersBooks ==
  ASSUME BooksInv, HookStep \/ WorldStep, ~Fault
  PROVE  ReturnedIsBooked' /\ RowsFresh'
<1>0. IInv /\ ReturnedIsBooked /\ RowsFresh
  BY DEF BooksInv
<1>1. UNCHANGED req
  BY HookFrame, <1>0, WorldFrame DEF Crash
<1>2. \A k \in CreateKeys : payment[k] # Null =>
        payment'[k] # Null /\ payment'[k].refunded = payment[k].refunded
  <2>1. CASE CommitEvent
    BY <1>0, <2>1, EventRow
  <2>2. CASE UNCHANGED payment
    BY <2>2
  <2> QED
    BY <1>0, <2>1, <2>2, HookFrame, WorldFrame
<1>3. \A k \in CreateKeys : session'[k].returned = session[k].returned
  <2>1. ASSUME NEW j \in CreateKeys, NEW state, NEW kind, SessionBecomes(j, state, kind)
        PROVE  \A k \in CreateKeys : session'[k].returned = session[k].returned
    <3>1. session[j] \in SessionRows
      BY <1>0 DEF IInv, TypeOK, SessionRows
    <3>2. session' = [session EXCEPT ![j] = [session[j] EXCEPT !.state = state]]
      BY <2>1, <3>1 DEF SessionBecomes
    <3> QED
      BY <1>0, <3>1, <3>2 DEF IInv, TypeOK, SessionRows
  <2>2. CASE UNCHANGED session
    BY <2>2
  <2>3. ASSUME NEW k \in CreateKeys, CustomerPays(k) \/ PaymentSettles(k) \/ SessionExpires(k)
        PROVE  \A j \in CreateKeys : session'[j].returned = session[j].returned
    BY <2>1, <2>3 DEF CustomerPays, PaymentSettles, SessionExpires
  <2> QED
    BY <2>2, <2>3, HookFrame DEF WorldStep, Crash
<1>4. \A s \in Reqs : HoldsPayment(req[s]) =>
        req[s].target \in CreateKeys /\ payment[req[s].target] # Null
  BY <1>0 DEF IInv, RequestsFit, RequestFits, HoldingFits, RowsOf
<1>5. RowsFresh'
  BY <1>0, <1>1, <1>2, <1>4 DEF RowsFresh, HoldsPayment
<1>6. ReturnedIsBooked'
  BY <1>0, <1>1, <1>2, <1>3 DEF ReturnedIsBooked, Recording, HoldsPayment, RefundedOf
<1> QED
  BY <1>5, <1>6

LEMMA NextBooks == BooksInv /\ Undisturbed /\ (faults = 0)' /\ [Next]_vars => BooksInv'
<1>1. ASSUME BooksInv, Undisturbed, faults' = 0, Next
      PROVE  BooksInv'
  <2>1. IInv' /\ IInv
    BY <1>1, NextInvariant DEF BooksInv
  <2>2. ~Fault
    BY <1>1, <2>1, NoFault
  <2>3. ASSUME NEW r \in Reqs, CreateStep(r) \/ RefundStep(r) \/ CancelStep(r)
        PROVE  ReturnedIsBooked' /\ RowsFresh'
    BY <1>1, <2>1, <2>2, <2>3, CreateLeaves, RefundKinds, CancelKinds, OthersSame, RequestBooks
  <2> QED
    BY <1>1, <2>1, <2>2, <2>3, OthersBooks DEF Next, BooksInv
<1>2. ASSUME BooksInv, UNCHANGED vars
      PROVE  BooksInv'
  <2>1. IInv'
    BY <1>2, NextInvariant DEF BooksInv
  <2> QED
    BY <1>2, <2>1 DEF BooksInv, vars, ReturnedIsBooked, RowsFresh, Recording, HoldsPayment
<1> QED
  BY <1>1, <1>2

LEMMA InitBooks == Init => BooksInv
<1> SUFFICES ASSUME Init
             PROVE  ReturnedIsBooked /\ RowsFresh
  BY InitInvariant DEF BooksInv
<1> QED
  BY DEF Init, ReturnedIsBooked, RowsFresh, HoldsPayment, Idle

(* refund_payment, cancel, apply_refund_outcome: in every run in which no  *)
(* call fails and the refunds and cancellations of one booking never       *)
(* overlap, whatever creates, events and other bookings do meanwhile, no   *)
(* money is returned that the row does not count.                          *)
THEOREM BooksCoverWhileUndisturbed == Spec /\ []Undisturbed => []BooksCoverRefunds
<1>1. BooksInv => BooksCoverRefunds
  BY DEF BooksInv, ReturnedIsBooked, BooksCoverRefunds, Recording
<1>2. Undisturbed => (faults = 0)
  BY DEF Undisturbed
<1> QED
  BY <1>1, <1>2, InitBooks, NextBooks, PTL DEF Spec
=============================================================================
