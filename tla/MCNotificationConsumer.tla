------------------------ MODULE MCNotificationConsumer ------------------------
(* Instances of NotificationConsumer for TLC.                              *)
EXTENDS NotificationConsumer

CONSTANTS m1, m2
=============================================================================
