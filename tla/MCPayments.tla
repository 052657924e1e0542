----------------------------- MODULE MCPayments -----------------------------
(* Small instances of Payments: one booking, so every key names it.        *)
EXTENDS Payments, TLC

CONSTANTS b1, f1

MCBookingOf == [k \in Keys |-> b1]

(* f1 asks for whatever remains, any other key for a part of the price.    *)
MCAskedAmount == [k \in RefundKeys |-> IF k = f1 THEN Null ELSE 1]

MCSymmetry == Permutations(Reqs) \cup Permutations(CreateKeys) \cup Permutations(CancelKeys)
=============================================================================
