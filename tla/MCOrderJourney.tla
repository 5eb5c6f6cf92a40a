---------------------------- MODULE MCOrderJourney ----------------------------
(* Instances of OrderJourney for TLC.                                      *)
EXTENDS OrderJourney

(* Below and at half a cent, a cent, a fraction above it, half the column's *)
(* bound, just under it (it rounds up to the bound), and what the DTO       *)
(* refuses.                                                                 *)
SomePrices == {NaN, -10, 0, 4, 5, 10, 15, 40, 96}

(* No quantity, no number, negative, 0.5, whole numbers, a fraction, and    *)
(* numbers beyond int32 that wrap to a negative and to a positive one.      *)
SomeQuantities == {None, NaN, -2, 0, 1, 2, 4, 5, 6, 8, 18}
=============================================================================
