------------------------------- MODULE MCGateway -------------------------------
(* Instances of Gateway for TLC.                                           *)
EXTENDS Gateway

CONSTANTS q1, q2
=============================================================================
