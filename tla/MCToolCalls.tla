---------------------------- MODULE MCToolCalls ----------------------------
(* Small instances of ToolCalls: one batch redelivered to two threads, or  *)
(* two batches and the end-of-call report, one delivery at a time.         *)
EXTENDS ToolCalls, TLC

CONSTANTS c1, c2, c3, c4, c5, k1, m1, m2

(* Every "create" call asks for the same booking.                          *)
MCKeyOf == [c \in Calls |-> k1]

(* A call, and one whose rollback may take the first call's row with it.   *)
OneCall == [b \in Batches |-> <<c1>>]
TwoCalls == [b \in Batches |-> <<c1, c2>>]

AddThenCreate == [c \in Calls |-> IF c = c1 THEN "add" ELSE "create"]
VerifyThenCreate == [c \in Calls |-> IF c = c1 THEN "verify" ELSE "create"]

(* Every kind; a rollback takes nothing but a "read" with it.              *)
TwoBatches == [b \in Batches |-> IF b = m1 THEN <<c1, c2>> ELSE <<c3, c4, c5>>]
EveryKind == [c \in Calls |->
  CASE c = c1 -> "add" [] c = c2 -> "verify" [] c = c3 -> "read" [] OTHER -> "create"]
=============================================================================
