---------------------------- MODULE MCOrderService ----------------------------
(* Instances of OrderService for TLC.                                      *)
EXTENDS OrderService

CONSTANT s1
=============================================================================
