--------------------------- MODULE PaymentStates ---------------------------
(***************************************************************************)
(* The pure payment-session state machine of                               *)
(* app/core/payments/state_machine.py: the statuses a Payment row may      *)
(* have, which transitions between them are legal, what a Stripe Checkout  *)
(* event says about a session, and how a session's status shows on the     *)
(* booking.  No state here; Payments.tla puts it to work.                  *)
(***************************************************************************)

PaymentSessionStatuses ==
  {"PENDING", "PROCESSING", "SUCCEEDED", "FAILED", "EXPIRED", "CANCELED"}

TerminalStatuses == {"SUCCEEDED", "FAILED", "EXPIRED", "CANCELED"}

IsTerminal(status) == status \in TerminalStatuses

(* Mutant: a session that expires leaves its row PENDING.                  *)
AllowedTransitionsUnexpiring(status) ==
  CASE status = "PENDING"    -> {"PROCESSING", "SUCCEEDED", "FAILED", "CANCELED"}
    [] status = "PROCESSING" -> {"SUCCEEDED", "FAILED"}
    [] OTHER                 -> {}

(* The destinations a row may move to, given where it is.                  *)
AllowedTransitions(status) ==
  CASE status = "PENDING"    -> PaymentSessionStatuses \ {"PENDING"}
    [] status = "PROCESSING" -> {"SUCCEEDED", "FAILED"}
    [] OTHER                 -> {}

(* Mutant of CanTransition: it only guards against a repeat.               *)
CanTransitionUnlessSame(current, new) == current # new

CanTransition(current, new) ==
  /\ new \in PaymentSessionStatuses
  /\ new \in AllowedTransitions(current)

(***************************************************************************)
(* Booking.payment_status, and the value a session's status gives it.      *)
(***************************************************************************)
BookingPayStatuses == {"UNPAID", "PENDING", "PAID", "REFUNDED", "FAILED"}

(* Mutants: an async payment still settling already counts as paid; the    *)
(* session's own status is written to the booking.                         *)
BookingStatusSettlingIsPaid(status) ==
  CASE status = "PENDING"                     -> "PENDING"
    [] status \in {"SUCCEEDED", "PROCESSING"} -> "PAID"
    [] status = "FAILED"                      -> "FAILED"
    [] OTHER                                  -> "UNPAID"
BookingStatusUntranslated(status) == status

BookingStatusForSession(status) ==
  CASE status \in {"PENDING", "PROCESSING"} -> "PENDING"
    [] status = "SUCCEEDED"                 -> "PAID"
    [] status = "FAILED"                    -> "FAILED"
    [] OTHER                                -> "UNPAID"

(* create_payment_session starts no new session from these.                *)
BlockingNewSession == {"PENDING", "PAID", "REFUNDED"}

(* The status a Checkout Session event implies; the types are named        *)
(* without their common prefix "checkout.session.".                        *)
NewStatusForEvent(type, paid) ==
  CASE type = "completed"               -> IF paid THEN "SUCCEEDED" ELSE "PROCESSING"
    [] type = "async_payment_succeeded" -> "SUCCEEDED"
    [] type = "async_payment_failed"    -> "FAILED"
    [] type = "expired"                 -> "EXPIRED"

(* RefundStatus of providers/payments/base.py.  No code tells              *)
(* "requires_action" from "pending", nor "canceled" from "failed": one     *)
(* value stands for each pair.                                             *)
RefundStatuses == {"pending", "succeeded", "failed"}

TerminalFailedRefunds == {"failed"}
=============================================================================
