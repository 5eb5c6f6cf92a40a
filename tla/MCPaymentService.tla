--------------------------- MODULE MCPaymentService ---------------------------
(* Instances of PaymentService for TLC.                                    *)
EXTENDS PaymentService, TLC

CONSTANTS o1, o2, c1, c2, r1, r2, p1, p2, k1

OneKey == {k1}

(* hashtext may collide: every order takes the same advisory lock. *)
Collide == [o \in Orders |-> k1]

(* Order o1 is charged by c1 and refunded by r1 and r2, o2 is charged by c2. *)
ByOrder == ((c1 :> o1) @@ (c2 :> o2) @@ (r1 :> o1) @@ (r2 :> o1))
OrderOfCall == [c \in TxnCalls |-> ByOrder[c]]
=============================================================================
