------------------------------ MODULE MCAccess ------------------------------
(* A small instance of Access: two bookings, one of them with an account.  *)
EXTENDS Access, TLC

CONSTANTS b1, b2, customer, t1, t2, k1, k2

MCOwner == [b \in Bookings |-> IF b = b1 THEN customer ELSE Nobody]
=============================================================================
