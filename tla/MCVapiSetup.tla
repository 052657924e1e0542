---------------------------- MODULE MCVapiSetup ----------------------------
(* A small instance of VapiSetup: two function tools and the transferCall  *)
(* tool, which one of two configurations has.                              *)
EXTENDS VapiSetup, TLC

CONSTANTS i1, i2, i3, i4, i5, i6, i7, a1, a2, a3, a4, old, new, r1, r2

RunnersAreAlike == Permutations(Runners)

MCSchemas == <<"get_booking", "cancel_booking">>
=============================================================================
