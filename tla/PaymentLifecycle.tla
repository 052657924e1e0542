-------------------------- MODULE PaymentLifecycle --------------------------
(***************************************************************************)
(* What the payment records promise, with no service, provider or webhook  *)
(* in sight: the life of each Payment row as the docstring of              *)
(* app/core/payments/state_machine.py tells it.  A row appears PENDING,    *)
(* may settle for a while, ends once, and its end is final; "each attempt  *)
(* is its own audit trail", so no row is deleted.  Money goes back only    *)
(* from a row that SUCCEEDED.                                              *)
(***************************************************************************)
CONSTANT Attempts

VARIABLES status, touched   \* attempt -> status; attempts with a refund on record

lifecycleVars == <<status, touched>>

Init == /\ status = [a \in Attempts |-> "none"]
        /\ touched = {}

Move(a, from, to) ==
  /\ status[a] \in from
  /\ status' = [status EXCEPT ![a] = to]
  /\ UNCHANGED touched

Start(a) == Move(a, {"none"}, "PENDING")
Settle(a) == Move(a, {"PENDING"}, "PROCESSING")
Succeed(a) == Move(a, {"PENDING", "PROCESSING"}, "SUCCEEDED")
Miscarry(a) == Move(a, {"PENDING", "PROCESSING"}, "FAILED")
Lapse(a) == Move(a, {"PENDING"}, "EXPIRED")

Reimburse(a) ==
  /\ status[a] = "SUCCEEDED"
  /\ touched' = touched \cup {a}
  /\ UNCHANGED status

Next == \E a \in Attempts :
  Start(a) \/ Settle(a) \/ Succeed(a) \/ Miscarry(a) \/ Lapse(a) \/ Reimburse(a)

Spec == Init /\ [][Next]_lifecycleVars
=============================================================================
