-------------------------- MODULE MCCreateOrderSaga --------------------------
(* Instances of CreateOrderSaga for TLC.                                   *)
EXTENDS CreateOrderSaga

CONSTANT s1
=============================================================================
