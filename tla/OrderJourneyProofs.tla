-------------------------- MODULE OrderJourneyProofs --------------------------
(***************************************************************************)
(* Proofs about OrderJourney for every price, every quantity of a request  *)
(* and every width of the columns and of int32: one amount, one quantity   *)
(* and one correlation id per order.                                       *)
(***************************************************************************)
EXTENDS OrderJourney, TLAPS

-----------------------------------------------------------------------------
(* The conversions. *)

(* A column of two decimals holds whole cents, less than its bound.        *)
LEMMA NumericType ==
  ASSUME NEW x \in Nat, Numeric(x) # None
  PROVE  Numeric(x) \in Amounts /\ Numeric(x) % 10 = 0
<1>1. Numeric(x) = 10 * ((x + 5) \div 10) /\ Numeric(x) < NumericBound
  BY DEF Numeric, Round
<1>2. (x + 5) \div 10 \in Nat
  OBVIOUS
<1> QED
  BY <1>1, <1>2, JourneyAssumption DEF Amounts

(* ... so what was whole cents before is kept as it is.                    *)
LEMMA WholeCents ==
  ASSUME NEW x \in Nat, x % 10 = 0
  PROVE  /\ Numeric(x) \in {x, None}
         /\ Numeric(x) # None => x \in Amounts
<1>1. Round(x) = x
  BY DEF Round
<1> QED
  BY <1>1, JourneyAssumption DEF Numeric, Amounts

(* A price in whole cents has totals in whole cents.                       *)
LEMMA MultipleOfTen ==
  ASSUME NEW p \in Nat, NEW q \in Nat, p % 10 = 0
  PROVE  p * q \in Nat /\ (p * q) % 10 = 0
<1>1. PICK m \in Nat : p = 10 * m
  <2>1. p = 10 * (p \div 10) /\ p \div 10 \in Nat
    OBVIOUS
  <2> QED
    BY <2>1
<1>2. m * q \in Nat /\ p * q = 10 * (m * q)
  BY <1>1
<1>3. \A k \in Nat : 10 * k \in Nat /\ (10 * k) % 10 = 0
  OBVIOUS
<1> QED
  BY <1>2, <1>3

(* A price in whole cents has a total in whole cents.                      *)
LEMMA TotalType ==
  ASSUME product \in Amounts, product % 10 = 0, quantity \in Counts
  PROVE  Total \in Nat /\ Total % 10 = 0
<1>1. product \in Nat /\ quantity \in Nat
  BY JourneyAssumption DEF Amounts, Counts
<1> QED
  BY <1>1, MultipleOfTen DEF Total

(* A remainder is below its divisor, and what is below it is its own.      *)
LEMMA Remainder ==
  ASSUME NEW n \in Int, NEW m \in Nat \ {0}
  PROVE  n % m \in 0 .. m - 1 /\ (n \in 0 .. m - 1 => n % m = n)
OBVIOUS

(* int32 wraps around, and keeps the whole numbers it can hold.            *)
LEMMA Int32 ==
  ASSUME NEW q \in Int \cup {NaN}
  PROVE  /\ ToInt32(q) \in -IntBound .. IntBound - 1
         /\ Representable(q) => 2 * ToInt32(q) = q
<1>1. IntBound \in Nat \ {0} /\ 2 * IntBound \in Nat \ {0}
  BY JourneyAssumption
<1>2. CASE q = NaN
  BY <1>1, <1>2 DEF ToInt32, Representable
<1>3. CASE q # NaN
  <2>1. Truncate(q) \in Int /\ (q % 2 = 0 => Truncate(q) = q \div 2 /\ 2 * (q \div 2) = q)
    BY <1>3 DEF Truncate
  <2> DEFINE n == Truncate(q) + IntBound
  <2>2. n \in Int
    BY <1>1, <2>1
  <2>3. n % (2 * IntBound) \in 0 .. 2 * IntBound - 1
    BY <1>1, <2>2, Remainder
  <2>4. n \in 0 .. 2 * IntBound - 1 => n % (2 * IntBound) = n
    BY <1>1, <2>2, Remainder
  <2>5. ToInt32(q) = (n % (2 * IntBound)) - IntBound
    BY <1>3 DEF ToInt32
  <2>6. ToInt32(q) \in -IntBound .. IntBound - 1
    BY <1>1, <2>3, <2>5
  <2>7. ASSUME Representable(q) PROVE 2 * ToInt32(q) = q
    <3>1. q % 2 = 0 /\ Truncate(q) \in -IntBound .. IntBound - 1
      BY <2>1, <2>7 DEF Representable
    <3>2. n \in 0 .. 2 * IntBound - 1
      BY <1>1, <3>1
    <3>3. ToInt32(q) = Truncate(q)
      BY <1>1, <2>1, <2>4, <2>5, <3>2
    <3> QED
      BY <2>1, <3>1, <3>3
  <2> QED
    BY <2>6, <2>7
<1> QED
  BY <1>2, <1>3

(* A log line has the id its service was given, or the service's own.      *)
LEMMA LineType ==
  ASSUME lines \subseteq (Ids \cup {"rabbitmq.publisher"}) \X Maybe(Ids),
         NEW service \in Ids, NEW id \in Maybe(Ids), Log(service, id)
  PROVE  lines' \subseteq (Ids \cup {"rabbitmq.publisher"}) \X Maybe(Ids)
BY DEF Log, Given, Maybe

(* A line under the id of the journey leaves it whole.                     *)
LEMMA LineId ==
  ASSUME TraceIsWhole, header \in Ids, header' = header, NEW service, Log(service, header)
  PROVE  TraceIsWhole'
<1>1. header # None
  BY NoneAssumption
<1> QED
  BY <1>1 DEF TraceIsWhole, Log, Given

-----------------------------------------------------------------------------
(* The product's price is stored in whole cents.                           *)
LEMMA CreateProductInv ==
  ASSUME IInv, NEW price \in Prices, CreateProduct(price)
  PROVE  IInv'
<1> USE JourneyAssumption, NoneAssumption DEF IInv, CreateProduct, Ordering, numbers, tables, outputs, Maybe, ProductPrice
<1>0. product' \in Amounts /\ product' % 10 = 0
  BY NumericType
<1>1. TypeOK'
  BY <1>0 DEF TypeOK, Maybe
<1>2. NothingYet'
  BY <1>0 DEF NothingYet
<1>3. Accepted'
  BY <1>0 DEF Accepted, Underway, NothingYet
<1>4. AmountIsTotal'
  BY <1>0 DEF AmountIsTotal, Total, NothingYet
<1>5. QuantityIsStored'
  BY <1>0 DEF QuantityIsStored, NothingYet
<1>6. IdsAreHandedOn'
  BY <1>0 DEF IdsAreHandedOn, TraceIsWhole, NothingYet, Accepted, Underway
<1> QED
  BY <1>1, <1>2, <1>3, <1>4, <1>5, <1>6

(* The request has an id from here on.                                     *)
LEMMA PostInv ==
  ASSUME IInv, NEW q \in Quantities, NEW id \in {ClientId, None}, Post(q, id)
  PROVE  IInv'
<1> USE JourneyAssumption, NoneAssumption DEF IInv, Post, Ordering, numbers, tables, outputs, Given, Refused
<1>0. header' \in Ids
  BY DEF Ids
<1>1. TypeOK'
  <2>1. answer' \in Maybe([code : {201, 400, 500}, amount : Maybe(Amounts), quantity : Maybe(Counts)])
    BY DEF TypeOK, Maybe
  <2>2. asked' \in Maybe(Quantities) /\ header' \in Maybe(Ids)
    BY <1>0 DEF Maybe
  <2> QED
    BY <2>1, <2>2 DEF TypeOK
<1>2. NothingYet'
  BY <1>0 DEF NothingYet
<1>3. Accepted'
  BY <1>0 DEF Accepted, Underway, NothingYet
<1>4. AmountIsTotal'
  BY <1>0 DEF AmountIsTotal, Total, NothingYet
<1>5. QuantityIsStored'
  BY <1>0 DEF QuantityIsStored, NothingYet
<1>6. IdsAreHandedOn'
  BY <1>0 DEF IdsAreHandedOn, TraceIsWhole, NothingYet, Accepted, Underway
<1> QED
  BY <1>1, <1>2, <1>3, <1>4, <1>5, <1>6

(* The quantity is an int32 now, and positive if the saga starts.          *)
LEMMA CreateOrderInv ==
  ASSUME IInv, CreateOrder
  PROVE  IInv'
<1> USE JourneyAssumption, NoneAssumption DEF IInv, CreateOrder, Ordering, numbers, tables, outputs, Given, Refused, Acceptable
<1>0. /\ asked \in Int \cup {NaN} /\ header \in Ids
      /\ quantity' \in -IntBound .. IntBound - 1
      /\ ctx' = header
  BY Int32 DEF NothingYet, Accepted, TypeOK, Maybe
<1>1. TypeOK'
  <2>1. /\ header \in Maybe(Ids) /\ "order-service" \in Ids
        /\ lines \subseteq (Ids \cup {"rabbitmq.publisher"}) \X Maybe(Ids)
    BY DEF TypeOK, Accepted, Underway, IdsAreHandedOn, Maybe, Ids
  <2>2. lines' \subseteq (Ids \cup {"rabbitmq.publisher"}) \X Maybe(Ids)
    BY <2>1, LineType
  <2>3. answer' \in Maybe([code : {201, 400, 500}, amount : Maybe(Amounts), quantity : Maybe(Counts)])
    BY DEF TypeOK, Maybe
  <2>4. quantity' \in Maybe(-IntBound .. IntBound - 1) /\ ctx' \in Maybe(Ids)
    BY <1>0 DEF Maybe
  <2>5. stage' \in {"getUser", "respond"}
    OBVIOUS
  <2> QED
    BY <2>2, <2>3, <2>4, <2>5 DEF TypeOK, Maybe
<1>2. NothingYet'
  BY <1>0 DEF NothingYet
<1>3. Accepted'
  <2>1. stage' = "getUser" => quantity' \in Counts
    BY <1>0 DEF Counts
  <2>2. stage' \in {"getUser", "respond"} /\ event' = None /\ notice' = None
    BY DEF NothingYet
  <2>3. product \in Amounts /\ product % 10 = 0
    BY DEF Accepted
  <2> QED
    BY <2>1, <2>2, <2>3, <1>0 DEF Accepted, Underway
<1>4. AmountIsTotal'
  BY <1>0 DEF AmountIsTotal, Total, NothingYet
<1>5. QuantityIsStored'
  BY <1>0 DEF QuantityIsStored, NothingYet
<1>6. IdsAreHandedOn'
  <2>1. header \in Ids /\ header = header
    BY DEF Accepted, Underway, IdsAreHandedOn, NothingYet
  <2>2. TraceIsWhole'
    BY <2>1, LineId DEF IdsAreHandedOn
  <2> QED
    BY <2>2 DEF IdsAreHandedOn
<1> QED
  BY <1>1, <1>2, <1>3, <1>4, <1>5, <1>6

(* user-service writes a line, under the id it was sent.                   *)
LEMMA GetUserInv ==
  ASSUME IInv, GetUser
  PROVE  IInv'
<1> USE JourneyAssumption, NoneAssumption DEF IInv, GetUser, Ordering, numbers, tables, outputs
<1>1. TypeOK'
  <2>1. /\ ctx \in Maybe(Ids) /\ "user-service" \in Ids
        /\ lines \subseteq (Ids \cup {"rabbitmq.publisher"}) \X Maybe(Ids)
    BY DEF TypeOK, Accepted, Underway, IdsAreHandedOn, Maybe, Ids
  <2>2. lines' \subseteq (Ids \cup {"rabbitmq.publisher"}) \X Maybe(Ids)
    BY <2>1, LineType
  <2> QED
    BY <2>2 DEF TypeOK, Maybe
<1>2. NothingYet'
  BY DEF NothingYet
<1>3. Accepted'
  BY DEF Accepted, Underway, NothingYet
<1>4. AmountIsTotal'
  BY DEF AmountIsTotal, Total, NothingYet
<1>5. QuantityIsStored'
  BY DEF QuantityIsStored, NothingYet
<1>6. IdsAreHandedOn'
  <2>1. header \in Ids /\ ctx = header
    BY DEF Accepted, Underway, IdsAreHandedOn, NothingYet
  <2>2. TraceIsWhole'
    BY <2>1, LineId DEF IdsAreHandedOn
  <2> QED
    BY <2>2 DEF IdsAreHandedOn
<1> QED
  BY <1>1, <1>2, <1>3, <1>4, <1>5, <1>6

(* So does product-service, in its interceptor.                            *)
LEMMA GetProductInv ==
  ASSUME IInv, GetProduct
  PROVE  IInv'
<1> USE JourneyAssumption, NoneAssumption DEF IInv, GetProduct, Ordering, numbers, tables, outputs
<1>1. TypeOK'
  <2>1. /\ ctx \in Maybe(Ids) /\ "product-service" \in Ids
        /\ lines \subseteq (Ids \cup {"rabbitmq.publisher"}) \X Maybe(Ids)
    BY DEF TypeOK, Accepted, Underway, IdsAreHandedOn, Maybe, Ids
  <2>2. lines' \subseteq (Ids \cup {"rabbitmq.publisher"}) \X Maybe(Ids)
    BY <2>1, LineType
  <2> QED
    BY <2>2 DEF TypeOK, Maybe
<1>2. NothingYet'
  BY DEF NothingYet
<1>3. Accepted'
  BY DEF Accepted, Underway, NothingYet
<1>4. AmountIsTotal'
  BY DEF AmountIsTotal, Total, NothingYet
<1>5. QuantityIsStored'
  BY DEF QuantityIsStored, NothingYet
<1>6. IdsAreHandedOn'
  <2>1. header \in Ids /\ ctx = header
    BY DEF Accepted, Underway, IdsAreHandedOn, NothingYet
  <2>2. TraceIsWhole'
    BY <2>1, LineId DEF IdsAreHandedOn
  <2> QED
    BY <2>2 DEF IdsAreHandedOn
<1> QED
  BY <1>1, <1>2, <1>3, <1>4, <1>5, <1>6

(* The total is captured, and booked if its column can hold it.            *)
LEMMA ProcessPaymentInv ==
  ASSUME IInv, ProcessPayment
  PROVE  IInv'
<1> USE JourneyAssumption, NoneAssumption DEF IInv, ProcessPayment, Ordering, numbers, tables, outputs, Row, PaymentAmount
<1>0. Total \in Nat /\ Total % 10 = 0
  BY TotalType DEF Accepted, Underway, NothingYet
<1>a. Numeric(Total) \in {Total, None} /\ (Numeric(Total) # None => Total \in Amounts)
  BY <1>0, WholeCents
<1>1. TypeOK'
  <2>1. /\ ctx \in Maybe(Ids) /\ "payment-service" \in Ids
        /\ lines \subseteq (Ids \cup {"rabbitmq.publisher"}) \X Maybe(Ids)
    BY DEF TypeOK, Accepted, Underway, IdsAreHandedOn, Maybe, Ids
  <2>2. lines' \subseteq (Ids \cup {"rabbitmq.publisher"}) \X Maybe(Ids)
    BY <2>1, LineType
  <2>3. captured' \in Maybe(Nat)
    BY <1>0 DEF Maybe
  <2>4. payment' \in Maybe([amount : Amounts, status : {"SUCCESS", "FAILED", "REFUNDED"}])
    BY <1>a DEF Maybe
  <2>5. stage' \in {"insert", "compensate"}
    OBVIOUS
  <2> QED
    BY <2>2, <2>3, <2>4, <2>5 DEF TypeOK, Maybe
<1>2. NothingYet'
  BY <1>0, <1>a DEF NothingYet
<1>3. Accepted'
  BY <1>0, <1>a DEF Accepted, Underway, NothingYet
<1>4. AmountIsTotal'
  BY <1>0, <1>a DEF AmountIsTotal, Total, NothingYet
<1>5. QuantityIsStored'
  BY <1>0, <1>a DEF QuantityIsStored, NothingYet
<1>6. IdsAreHandedOn'
  <2>1. header \in Ids /\ ctx = header
    BY DEF Accepted, Underway, IdsAreHandedOn, NothingYet
  <2>2. TraceIsWhole'
    BY <2>1, LineId DEF IdsAreHandedOn
  <2> QED
    BY <2>2 DEF IdsAreHandedOn
<1> QED
  BY <1>1, <1>2, <1>3, <1>4, <1>5, <1>6

(* The row has the total and the quantity.                                 *)
LEMMA InsertOrderInv ==
  ASSUME IInv, InsertOrder
  PROVE  IInv'
<1> USE JourneyAssumption, NoneAssumption DEF IInv, InsertOrder, Ordering, numbers, tables, outputs, OrderTotal
<1>0. Total \in Nat /\ Total % 10 = 0
  BY TotalType DEF Accepted, Underway, NothingYet
<1>a. Numeric(Total) \in {Total, None} /\ (Numeric(Total) # None => Total \in Amounts)
  BY <1>0, WholeCents
<1>1. TypeOK'
  <2>1. order' \in Maybe([amount : Amounts, quantity : Counts])
    BY <1>a DEF TypeOK, Maybe, Accepted, Underway
  <2> QED
    BY <2>1 DEF TypeOK
<1>2. NothingYet'
  BY <1>0, <1>a DEF NothingYet
<1>3. Accepted'
  BY <1>0, <1>a DEF Accepted, Underway, NothingYet
<1>4. AmountIsTotal'
  BY <1>0, <1>a DEF AmountIsTotal, Total, NothingYet
<1>5. QuantityIsStored'
  <2>1. quantity \in Counts /\ quantity > 0
    BY DEF Accepted, Underway, Counts
  <2>2. /\ order = None /\ notice = None /\ mail = None /\ answer = None
        /\ quantity = ToInt32(asked)
    BY DEF QuantityIsStored
  <2>3. UNCHANGED <<product, asked, quantity, notice, mail, answer>>
    OBVIOUS
  <2>4. CASE order' = [amount |-> Total, quantity |-> quantity] /\ stage' = "publish" /\ Total \in Amounts
    <3> HIDE DEF InsertOrder
    <3> QED
      BY <2>1, <2>2, <2>3, <2>4 DEF QuantityIsStored, Total
  <2>5. CASE order' = order /\ stage' = "compensate"
    <3> HIDE DEF InsertOrder
    <3> QED
      BY <2>1, <2>2, <2>3, <2>5 DEF QuantityIsStored, Total
  <2> QED
    BY <2>4, <2>5, <1>a
<1>6. IdsAreHandedOn'
  BY <1>0, <1>a DEF IdsAreHandedOn, TraceIsWhole, NothingYet, Accepted, Underway
<1> QED
  BY <1>1, <1>2, <1>3, <1>4, <1>5, <1>6

(* The refund leaves the amount.                                           *)
LEMMA RunCompensationsInv ==
  ASSUME IInv, RunCompensations
  PROVE  IInv'
<1> USE JourneyAssumption, NoneAssumption DEF IInv, RunCompensations, Ordering, numbers, tables, outputs, Metadata
<1>0. /\ payment' \in Maybe([amount : Amounts, status : {"SUCCESS", "FAILED", "REFUNDED"}])
      /\ payment' # None => payment # None /\ payment'.amount = payment.amount
  BY DEF TypeOK, Maybe
<1>1. TypeOK'
  <2>1. /\ ctx \in Maybe(Ids) /\ "payment-service" \in Ids
        /\ lines \subseteq (Ids \cup {"rabbitmq.publisher"}) \X Maybe(Ids)
    BY DEF TypeOK, Accepted, Underway, IdsAreHandedOn, Maybe, Ids
  <2>2. lines' \subseteq (Ids \cup {"rabbitmq.publisher"}) \X Maybe(Ids)
    BY <2>1, LineType
  <2> QED
    BY <2>2, <1>0 DEF TypeOK, Maybe
<1>2. NothingYet'
  BY <1>0 DEF NothingYet
<1>3. Accepted'
  BY <1>0 DEF Accepted, Underway, NothingYet
<1>4. AmountIsTotal'
  BY <1>0 DEF AmountIsTotal, Total, NothingYet
<1>5. QuantityIsStored'
  BY <1>0 DEF QuantityIsStored, NothingYet
<1>6. IdsAreHandedOn'
  <2>1. header \in Ids /\ ctx = header
    BY DEF Accepted, Underway, IdsAreHandedOn, NothingYet
  <2>2. TraceIsWhole'
    BY <2>1, LineId DEF IdsAreHandedOn
  <2> QED
    BY <2>2 DEF IdsAreHandedOn
<1> QED
  BY <1>1, <1>2, <1>3, <1>4, <1>5, <1>6

(* The caller is told of the failure, without an amount.                   *)
LEMMA PublishFailedInv ==
  ASSUME IInv, PublishFailed
  PROVE  IInv'
<1> USE JourneyAssumption, NoneAssumption DEF IInv, PublishFailed, Ordering, numbers, tables, outputs, Refused
<1>0. event' # None => event'.amount = None /\ event'.id = ctx
  BY DEF Maybe
<1>a. event' \in Maybe([amount : Maybe(Amounts), id : Maybe(Ids)])
  BY DEF TypeOK, Maybe
<1>1. TypeOK'
  BY <1>0, <1>a DEF TypeOK, Maybe
<1>2. NothingYet'
  BY <1>0, <1>a DEF NothingYet
<1>3. Accepted'
  BY <1>0, <1>a DEF Accepted, Underway, NothingYet
<1>4. AmountIsTotal'
  BY <1>0, <1>a DEF AmountIsTotal, Total, NothingYet
<1>5. QuantityIsStored'
  BY <1>0, <1>a DEF QuantityIsStored, NothingYet
<1>6. IdsAreHandedOn'
  BY <1>0, <1>a DEF IdsAreHandedOn, TraceIsWhole, NothingYet, Accepted, Underway
<1> QED
  BY <1>1, <1>2, <1>3, <1>4, <1>5, <1>6

(* Both messages and the answer are made of the row.                       *)
LEMMA PublishInv ==
  ASSUME IInv, Publish
  PROVE  IInv'
<1> USE JourneyAssumption, NoneAssumption DEF IInv, Publish, Ordering, numbers, tables, outputs
<1>0. /\ order.amount = Total /\ order.quantity = quantity
      /\ Total \in Amounts /\ quantity \in Counts /\ quantity > 0 /\ ctx = header /\ header \in Ids
  BY DEF QuantityIsStored, Accepted, Underway, Counts
<1>a. event' # None => event' = [amount |-> Total, id |-> header]
  BY <1>0 DEF Maybe
<1>b. notice' # None => notice' = [amount |-> Total, quantity |-> quantity, id |-> header, retries |-> 0]
  BY <1>0 DEF Maybe
<1>c. answer' = [code |-> 201, amount |-> Total, quantity |-> quantity]
  BY <1>0
<1> HIDE DEF Total
<1>1. TypeOK'
  BY <1>0, <1>a, <1>b, <1>c DEF TypeOK, Maybe
<1>2. NothingYet'
  BY <1>0, <1>a, <1>b, <1>c DEF NothingYet
<1>3. Accepted'
  BY <1>0, <1>a, <1>b, <1>c DEF Accepted, Underway, NothingYet
<1>4. AmountIsTotal'
  <2>1. Total' = Total
    BY DEF Total
  <2> QED
    BY <2>1, <1>0, <1>a, <1>b, <1>c DEF AmountIsTotal
<1>5. QuantityIsStored'
  <2>1. order # None => order.quantity = quantity /\ quantity = ToInt32(asked)
    BY DEF QuantityIsStored
  <2>2. mail = None \/ mail.quantity = quantity
    BY DEF QuantityIsStored
  <2>3. stage' = "respond" /\ quantity' = quantity /\ asked' = asked /\ order' = order /\ mail' = mail
    OBVIOUS
  <2>4. order # None
    BY <1>0 DEF QuantityIsStored, Amounts, Counts
  <2> QED
    BY <2>1, <2>2, <2>3, <2>4, <1>0, <1>b, <1>c DEF QuantityIsStored
<1>6. IdsAreHandedOn'
  BY <1>0, <1>a, <1>b, <1>c DEF IdsAreHandedOn, TraceIsWhole, NothingYet, Accepted, Underway
<1> QED
  BY <1>1, <1>2, <1>3, <1>4, <1>5, <1>6

(* The gateway logs the request when its answer is out.                    *)
LEMMA RespondInv ==
  ASSUME IInv, Respond
  PROVE  IInv'
<1> USE JourneyAssumption, NoneAssumption DEF IInv, Respond, Ordering, numbers, tables, outputs
<1>1. TypeOK'
  <2>1. /\ header \in Maybe(Ids) /\ "api-gateway" \in Ids
        /\ lines \subseteq (Ids \cup {"rabbitmq.publisher"}) \X Maybe(Ids)
    BY DEF TypeOK, Accepted, Underway, IdsAreHandedOn, Maybe, Ids
  <2>2. lines' \subseteq (Ids \cup {"rabbitmq.publisher"}) \X Maybe(Ids)
    BY <2>1, LineType
  <2> QED
    BY <2>2 DEF TypeOK, Maybe
<1>2. NothingYet'
  BY DEF NothingYet
<1>3. Accepted'
  BY DEF Accepted, Underway, NothingYet
<1>4. AmountIsTotal'
  BY DEF AmountIsTotal, Total, NothingYet
<1>5. QuantityIsStored'
  BY DEF QuantityIsStored, NothingYet
<1>6. IdsAreHandedOn'
  <2>1. header \in Ids /\ header = header
    BY DEF Accepted, Underway, IdsAreHandedOn, NothingYet
  <2>2. TraceIsWhole'
    BY <2>1, LineId DEF IdsAreHandedOn
  <2> QED
    BY <2>2 DEF IdsAreHandedOn
<1> QED
  BY <1>1, <1>2, <1>3, <1>4, <1>5, <1>6

(* The metrics have the amount of the event.                               *)
LEMMA HandleEventInv ==
  ASSUME IInv, HandleEvent
  PROVE  IInv'
<1> USE JourneyAssumption, NoneAssumption DEF IInv, HandleEvent, Ordering, numbers, tables, outputs, Row, MetricsTotal
<1>0. Total \in Nat /\ Total % 10 = 0
  BY TotalType DEF Accepted, Underway, NothingYet
<1>a. Numeric(Total) \in {Total, None} /\ (Numeric(Total) # None => Total \in Amounts)
  BY <1>0, WholeCents
<1>1. TypeOK'
  <2>1. /\ event.id \in Maybe(Ids) /\ "analytics-service" \in Ids
        /\ lines \subseteq (Ids \cup {"rabbitmq.publisher"}) \X Maybe(Ids)
    BY DEF TypeOK, Accepted, Underway, IdsAreHandedOn, Maybe, Ids
  <2>2. lines' \subseteq (Ids \cup {"rabbitmq.publisher"}) \X Maybe(Ids)
    BY <2>1, LineType
  <2>3. metrics' \in Maybe([amount : Amounts, status : {"CREATED", "FAILED"}])
    BY <1>a DEF TypeOK, Maybe, AmountIsTotal, Amounts
  <2> QED
    BY <2>2, <2>3 DEF TypeOK, Maybe
<1>2. NothingYet'
  BY <1>0, <1>a DEF NothingYet
<1>3. Accepted'
  BY <1>0, <1>a DEF Accepted, Underway, NothingYet
<1>4. AmountIsTotal'
  BY <1>0, <1>a DEF AmountIsTotal, Total, NothingYet
<1>5. QuantityIsStored'
  <2>1. UNCHANGED <<stage, product, asked, quantity, order, notice, mail, answer>>
    OBVIOUS
  <2> HIDE DEF HandleEvent
  <2> QED
    BY <2>1 DEF QuantityIsStored, Total
<1>6. IdsAreHandedOn'
  <2>1. header \in Ids /\ event.id = header
    BY DEF Accepted, Underway, IdsAreHandedOn, NothingYet
  <2>2. TraceIsWhole'
    BY <2>1, LineId DEF IdsAreHandedOn
  <2> QED
    BY <2>2 DEF IdsAreHandedOn
<1> QED
  BY <1>1, <1>2, <1>3, <1>4, <1>5, <1>6

(* The email has what the message has, after however many retries.         *)
LEMMA HandleMessageInv ==
  ASSUME IInv, HandleMessage
  PROVE  IInv'
<1> USE JourneyAssumption, NoneAssumption DEF IInv, HandleMessage, Ordering, numbers, tables, outputs, Retried
<1>0. /\ notice \in [amount : Amounts, quantity : Counts, id : Maybe(Ids), retries : 0 .. MaxRetries]
      /\ notice.amount = Total /\ notice.id = header
  BY DEF TypeOK, Maybe, AmountIsTotal, IdsAreHandedOn
<1>a. /\ notice' \in Maybe([amount : Amounts, quantity : Counts, id : Maybe(Ids), retries : 0 .. MaxRetries])
      /\ notice' # None =>
           notice'.amount = notice.amount /\ notice'.quantity = notice.quantity /\ notice'.id = notice.id
  BY <1>0 DEF Maybe
<1>b. /\ mail' \in Maybe([amount : Amounts, quantity : Counts])
      /\ mail' = mail \/ (mail'.amount = notice.amount /\ mail'.quantity = notice.quantity)
  BY <1>0 DEF Maybe, TypeOK
<1>1. TypeOK'
  <2>1. /\ notice.id \in Maybe(Ids) /\ "notification-service" \in Ids
        /\ lines \subseteq (Ids \cup {"rabbitmq.publisher"}) \X Maybe(Ids)
    BY DEF TypeOK, Accepted, Underway, IdsAreHandedOn, Maybe, Ids
  <2>2. lines' \subseteq (Ids \cup {"rabbitmq.publisher"}) \X Maybe(Ids)
    BY <2>1, LineType
  <2> QED
    BY <2>2, <1>a, <1>b DEF TypeOK, Maybe
<1>2. NothingYet'
  BY <1>0, <1>a, <1>b DEF NothingYet
<1>3. Accepted'
  BY <1>0, <1>a, <1>b DEF Accepted, Underway, NothingYet
<1>4. AmountIsTotal'
  BY <1>0, <1>a, <1>b DEF AmountIsTotal, Total, NothingYet
<1>5. QuantityIsStored'
  BY <1>0, <1>a, <1>b DEF QuantityIsStored, NothingYet
<1>6. IdsAreHandedOn'
  <2>1. header \in Ids /\ notice.id = header
    BY DEF Accepted, Underway, IdsAreHandedOn, NothingYet
  <2>2. TraceIsWhole'
    BY <2>1, LineId DEF IdsAreHandedOn
  <2> QED
    BY <2>1, <2>2, <1>a, <1>0 DEF IdsAreHandedOn
<1> QED
  BY <1>1, <1>2, <1>3, <1>4, <1>5, <1>6

-----------------------------------------------------------------------------
(* Nothing has been asked for, stored or written.                          *)
LEMMA InitInv ==
  ASSUME Init
  PROVE  IInv
BY DEF Init, IInv, TypeOK, NothingYet, Accepted, Underway, Ordering, AmountIsTotal, QuantityIsStored,
       IdsAreHandedOn, TraceIsWhole, Maybe

(* Every step of the journey.                                              *)
LEMMA NextInv ==
  ASSUME IInv, [Next]_vars
  PROVE  IInv'
<1>1. CASE UNCHANGED vars
  <2>1. UNCHANGED <<stage, product, asked, quantity, captured, payment, order, metrics, event, notice,
                    mail, answer, header, ctx, lines>>
    BY <1>1 DEF vars, numbers, tables, outputs
  <2>2. TypeOK'
    BY <2>1 DEF IInv, TypeOK
  <2>3. NothingYet' /\ Accepted'
    BY <2>1 DEF IInv, NothingYet, Accepted, Underway
  <2>4. AmountIsTotal' /\ QuantityIsStored'
    BY <2>1 DEF IInv, AmountIsTotal, QuantityIsStored, Total
  <2>5. IdsAreHandedOn'
    BY <2>1 DEF IInv, IdsAreHandedOn, TraceIsWhole
  <2> QED
    BY <2>2, <2>3, <2>4, <2>5 DEF IInv
<1>2. CASE Next
  BY <1>1, <1>2, CreateProductInv, PostInv, CreateOrderInv, GetUserInv, GetProductInv,
     ProcessPaymentInv, InsertOrderInv, RunCompensationsInv, PublishFailedInv, PublishInv,
     RespondInv, HandleEventInv, HandleMessageInv
     DEF Next, Finished
<1> QED
  BY <1>1, <1>2

(* The inductive invariant of the journey. *)
THEOREM Invariant == Spec => []IInv
  BY InitInv, NextInv, PTL DEF Spec

(* The conversions keep every number in its column, message or int32.      *)
THEOREM TypeCorrect == Spec => []TypeOK
  BY Invariant, PTL DEF IInv

(* Every service that writes a line about the order writes it under the id *)
(* of the response's header (src/*/src/context/index.js), in failures,     *)
(* compensations and retries too, save for the line of the broker's        *)
(* confirm.                                                                *)
THEOREM OneTrace == Spec => []TraceIsWhole
  BY Invariant, PTL DEF IInv, IdsAreHandedOn

(* Whatever the price, the quantity and the columns' bounds: the amounts   *)
(* charged, booked, published, mailed and answered are one amount, since a *)
(* stored price has whole cents (WholeCents, MultipleOfTen).               *)
THEOREM OneAmount == Spec => []AmountsAgree
<1>1. ASSUME IInv PROVE AmountsAgree
  <2> DEFINE told == {r.amount : r \in {payment, order, event, notice, mail, answer} \ {None}}
             booked == {r.amount : r \in {metrics} \ {None, [amount |-> 0, status |-> "FAILED"]}}
  <2>1. AmountIsTotal
    BY <1>1 DEF IInv
  <2>2. ASSUME NEW a \in told, a # None PROVE a = Total
    <3>1. PICK r \in {payment, order, event, notice, mail, answer} \ {None} : a = r.amount
      BY <2>2
    <3>2. r \in {payment, order, notice, mail} \ {None} \/ r \in {event, answer} \ {None}
      BY <3>1
    <3> QED
      BY <2>1, <2>2, <3>1, <3>2 DEF AmountIsTotal
  <2>3. ASSUME NEW a \in booked PROVE a = Total
    <3>1. /\ metrics \notin {None, [amount |-> 0, status |-> "FAILED"]}
          /\ a = metrics.amount
      BY <2>3
    <3> QED
      BY <2>1, <3>1 DEF AmountIsTotal
  <2>4. captured # None => captured = Total
    BY <2>1 DEF AmountIsTotal
  <2> HIDE DEF told, booked
  <2>5. \A a, b \in ({captured} \cup told \cup booked) \ {None} : a = b
    BY <2>2, <2>3, <2>4
  <2> QED
    BY <2>5 DEF AmountsAgree, told, booked
<1> QED
  BY <1>1, Invariant, PTL

(* Whatever the client sends and however wide int32 is: the stored         *)
(* quantity is positive, the client's if int32 can hold it (Int32), and    *)
(* what answer, email and message say.                                     *)
THEOREM OneQuantity == Spec => []QuantityKept
<1>1. ASSUME IInv PROVE QuantityKept
  <2> SUFFICES ASSUME order # None
               PROVE  /\ order.quantity > 0
                      /\ Representable(asked) => 2 * order.quantity = asked
                      /\ \A r \in {notice, mail, answer} \ {None} : r.quantity = order.quantity
    BY DEF QuantityKept
  <2>1. /\ order.quantity = quantity /\ quantity > 0 /\ quantity = ToInt32(asked)
        /\ \A r \in {notice, mail, answer} \ {None} : r.quantity = quantity
    BY <1>1 DEF IInv, QuantityIsStored
  <2>2. asked \in Int \cup {NaN}
    <3>1. asked # None
      BY <1>1 DEF IInv, NothingYet
    <3> QED
      BY <1>1, <3>1, JourneyAssumption DEF IInv, TypeOK, Maybe
  <2>3. Representable(asked) => 2 * ToInt32(asked) = asked
    BY <2>2, Int32
  <2> QED
    BY <2>1, <2>3
<1> QED
  BY <1>1, Invariant, PTL
=============================================================================
