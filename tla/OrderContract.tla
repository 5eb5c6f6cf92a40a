----------------------------- MODULE OrderContract -----------------------------
(***************************************************************************)
(* What CreateOrder of order-service promises of an order, whatever the    *)
(* saga does to keep it.  As long as its caller has no answer the order    *)
(* and its money may change, but an order that reads CONFIRMED is paid.    *)
(* The answer is the last word: an order told placed stays placed, one     *)
(* told failed costs nothing, then or later.  Only with an alarm, raised   *)
(* where an operator has to step in, is nothing promised but that a placed *)
(* order stands.                                                           *)
(***************************************************************************)
CONSTANT Orders

VARIABLES
  told,    \* what the caller of each order was answered
  status,  \* the row of the order
  paid,    \* whether payment-service keeps money for it
  alarm    \* whether an operator has to look at it

vars == <<told, status, paid, alarm>>

Init ==
  /\ told = [o \in Orders |-> "nothing"]
  /\ status = [o \in Orders |-> "none"]
  /\ paid = [o \in Orders |-> FALSE]
  /\ alarm = [o \in Orders |-> FALSE]

Placed(o) == status[o] = "CONFIRMED" /\ paid[o]
Gone(o) == status[o] # "CONFIRMED" /\ ~paid[o]

(* The saga works on the order; a cancelled order is not revived.          *)
Work(o) ==
  /\ told[o] = "nothing"
  /\ \E st \in {"none", "CONFIRMED", "CANCELLED"}, money, raised \in BOOLEAN :
       /\ st = status[o] \/ (status[o] = "none" /\ st = "CONFIRMED") \/ st = "CANCELLED"
       /\ alarm[o] => raised
       /\ st = "CONFIRMED" => money \/ raised
       /\ status' = [status EXCEPT ![o] = st]
       /\ paid' = [paid EXCEPT ![o] = money]
       /\ alarm' = [alarm EXCEPT ![o] = raised]
  /\ UNCHANGED told

Place(o) ==
  /\ told[o] = "nothing" /\ Placed(o)
  /\ told' = [told EXCEPT ![o] = "placed"]
  /\ UNCHANGED <<status, paid, alarm>>

Fail(o) ==
  /\ told[o] = "nothing"
  /\ Gone(o) \/ alarm[o]
  /\ told' = [told EXCEPT ![o] = "failed"]
  /\ UNCHANGED <<status, paid, alarm>>

(* What was left behind takes effect after the answer.                     *)
Late(o) ==
  /\ told[o] = "failed" /\ alarm[o]
  /\ \E st \in {"none", "CONFIRMED", "CANCELLED"}, money \in BOOLEAN :
       /\ status' = [status EXCEPT ![o] = st]
       /\ paid' = [paid EXCEPT ![o] = money]
  /\ UNCHANGED <<told, alarm>>

(* The process dies over the orders it works on.                           *)
Die ==
  /\ \E dead \in SUBSET {o \in Orders : told[o] = "nothing"} :
       alarm' = [o \in Orders |-> alarm[o] \/ o \in dead]
  /\ UNCHANGED <<told, status, paid>>

Next == Die \/ \E o \in Orders : Work(o) \/ Place(o) \/ Fail(o) \/ Late(o)

Spec == Init /\ [][Next]_vars
=============================================================================
