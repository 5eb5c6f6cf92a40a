---------------------------- MODULE PaymentLedger ----------------------------
(***************************************************************************)
(* What payment-service promises its callers, with no process, connection, *)
(* transaction or lock in sight.  A charge that went through is either in  *)
(* effect (the money is kept) or returned.  An order can be cancelled, once *)
(* and for all: from then on none of its charges is in effect, whether it  *)
(* was taken before the cancellation or arrives after it.                  *)
(***************************************************************************)
CONSTANTS
  Charges,      \* every charge that can ever be recorded
  Orders,
  ChargeOrder   \* [Charges -> Orders]: the order a charge was made for

VARIABLES
  kept,         \* the charges in effect
  returned,     \* the charges given back
  cancelled     \* the orders whose refund has been requested

vars == <<kept, returned, cancelled>>

TypeOK ==
  /\ kept \subseteq Charges
  /\ returned \subseteq Charges
  /\ cancelled \subseteq Orders

ChargesOf(S, o) == {r \in S : ChargeOrder[r] = o}

Init ==
  /\ kept = {}
  /\ returned = {}
  /\ cancelled = {}

(* A charge of an order nobody cancelled is recorded and stays in effect. *)
Take(r) ==
  /\ r \notin kept \cup returned
  /\ ChargeOrder[r] \notin cancelled
  /\ kept' = kept \cup {r}
  /\ UNCHANGED <<returned, cancelled>>

(* A charge that arrives after the cancellation is given back at once. *)
TakeCancelled(r) ==
  /\ r \notin kept \cup returned
  /\ ChargeOrder[r] \in cancelled
  /\ returned' = returned \cup {r}
  /\ UNCHANGED <<kept, cancelled>>

(* Cancelling an order gives back, atomically, whatever it was charged. *)
Cancel(o) ==
  /\ cancelled' = cancelled \cup {o}
  /\ kept' = kept \ ChargesOf(kept, o)
  /\ returned' = returned \cup ChargesOf(kept, o)

(* One charge is given back on its own, the order is not cancelled. *)
Return(r) ==
  /\ r \in kept
  /\ kept' = kept \ {r}
  /\ returned' = returned \cup {r}
  /\ UNCHANGED cancelled

Next ==
  \/ \E r \in Charges : Take(r) \/ TakeCancelled(r) \/ Return(r)
  \/ \E o \in Orders : Cancel(o)

Spec == Init /\ [][Next]_vars
=============================================================================
