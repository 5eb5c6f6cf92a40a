------------------------- MODULE MCAnalyticsConsumer -------------------------
(* Instances of AnalyticsConsumer for TLC.                                 *)
EXTENDS AnalyticsConsumer

CONSTANTS e1, e2, e3, e4, p1, p2

(* p1 takes the event that can be handled and the poison one. *)
MCPartitionOf == [e \in Events |-> IF e \in {e1, e2} THEN p1 ELSE p2]
=============================================================================
