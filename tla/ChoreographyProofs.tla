------------------------- MODULE ChoreographyProofs -------------------------
(***************************************************************************)
(* Proofs about Choreography, for any sets of orders, users, products and  *)
(* carts, and any number of repeated messages.                             *)
(*                                                                         *)
(* The invariant Agreement says, order by order, what each service's own   *)
(* record must have to do with the others' and with the messages in        *)
(* flight.  A message in flight is only ever a hypothesis in it, so        *)
(* delivering one again, or never, cannot break it.                        *)
(***************************************************************************)
EXTENDS Choreography, Sums

Held == {"Reserved", "AlreadyReleased"}

\* What a message about o in flight proves.
MessagesAgree(o) ==
  /\ \A x \in Channels : InFlight(<<x, o>>) => status[o] # "Absent"
  /\ \A x \in StockReserved : InFlight(<<x, o>>) => reservations[o] \in Held
  /\ \A x \in StockRejected : InFlight(<<x, o>>) => reservations[o] = "Rejected"
  /\ \A x \in PaymentCharged : InFlight(<<x, o>>) => charges[o] = "Charged"
  /\ \A x \in PaymentDeclined : InFlight(<<x, o>>) => charges[o] = "Declined"
  /\ \A x \in StockReleased : InFlight(<<x, o>>) => reservations[o] = "AlreadyReleased"

\* What the ledgers of inventory and payments have to do with each other: a
\* charge needs a reservation, and a release needs a declined charge.
LedgersAgree(o) ==
  /\ status[o] = "Absent" => reservations[o] = "None"
  /\ o \in parked => reservations[o] \in Held
  /\ \A t \in Tasks : charging[t] = o => reservations[o] \in Held
  /\ charges[o] # "None" => reservations[o] \in Held
  /\ reservations[o] = "AlreadyReleased" => charges[o] = "Declined"

\* What the tracker has concluded.
TrackerAgrees(o) ==
  /\ status[o] = "AwaitingPayment" => reservations[o] \in Held
  /\ status[o] = "Confirmed" => charges[o] = "Charged"
  /\ status[o] = "Compensating" => charges[o] = "Declined"
  /\ status[o] = "Failed" => reservations[o] \in {"Rejected", "AlreadyReleased"}

\* Grounds for telling the buyer of o that it ended so.
Grounds(o, ending) ==
  \/ ending = "confirmed" /\ charges[o] = "Charged"
  \/ ending = "failed" /\ (charges[o] = "Declined" \/ reservations[o] = "Rejected")

\* What notifications-service has concluded.
EmailsAgree(o) ==
  /\ awaiting[o] # "none" => Grounds(o, awaiting[o])
  /\ \A e \in Endings : emails[<<o, e>>] > 0 => Grounds(o, e)
  /\ emails[<<o, "confirmed">>] + emails[<<o, "failed">>] = IF o \in notified THEN 1 ELSE 0

Agreement(o) ==
  /\ MessagesAgree(o) /\ LedgersAgree(o) /\ TrackerAgrees(o) /\ EmailsAgree(o)

Inv == TypeOK /\ \A o \in Orders : Agreement(o)

USE InventoryAssumption, PaymentsAssumption, CartsAssumption

-----------------------------------------------------------------------------
(* The bus *)

\* Nothing is in flight after the step that was not before, but for fact about o.
NothingNewBut(fact, o) ==
  \A x \in Channels, q \in Orders :
    InFlight(<<x, q>>)' => InFlight(<<x, q>>) \/ (x \in fact /\ q = o)

LEMMA MessagesOfOrders == \A x \in Channels, q \in Orders : <<x, q>> \in Messages
BY DEF Messages

\* Consuming a message puts nothing in flight.
LEMMA ConsumeStep ==
  ASSUME NEW m \in Messages, BusTypeOK, Consume(m)
  PROVE  BusTypeOK' /\ InFlight(m) /\ \A o \in Orders : NothingNewBut({}, o)
<1>1. bus' = [bus EXCEPT ![m] = @ - 1] /\ bus[m] > 0 /\ bus \in [Messages -> Nat]
  BY DEF Consume, InFlight, BusTypeOK
<1>2. bus' \in [Messages -> Nat] /\ \A n \in Messages : bus'[n] > 0 => bus[n] > 0
  BY <1>1
<1> QED
  BY <1>1, <1>2, MessagesOfOrders DEF BusTypeOK, InFlight, Consume, NothingNewBut

\* Publishing a fact puts nothing but this fact in flight.
LEMMA PublishStep ==
  ASSUME NEW fact, NEW o \in Orders, BusTypeOK, Publish(fact, o)
  PROVE  BusTypeOK' /\ NothingNewBut(fact, o)
<1>1. bus' = [m \in Messages |-> IF m \in fact \X {o} THEN bus[m] + 1 ELSE bus[m]]
  BY DEF Publish
<1>2. bus \in [Messages -> Nat]
  BY DEF BusTypeOK
<1>3. bus' \in [Messages -> Nat]
  BY <1>1, <1>2
<1>4. \A m \in Messages : bus'[m] > 0 => bus[m] > 0 \/ m \in fact \X {o}
  BY <1>1, <1>2
<1>5. NothingNewBut(fact, o)
  BY <1>4, MessagesOfOrders DEF NothingNewBut, InFlight
<1> QED
  BY <1>3, <1>5 DEF BusTypeOK, Publish

\* A reaction puts nothing but its fact in flight.
LEMMA ReactStep ==
  ASSUME NEW x \in Channels, NEW fact, NEW o \in Orders, BusTypeOK, React(<<x, o>>, fact)
  PROVE  BusTypeOK' /\ InFlight(<<x, o>>) /\ NothingNewBut(fact, o)
<1> DEFINE m == <<x, o>>
<1>1. /\ bus' = [n \in Messages |-> IF n = m THEN bus[n] - 1
                                    ELSE IF n \in fact \X {o} THEN bus[n] + 1 ELSE bus[n]]
      /\ bus[m] > 0
  BY DEF React, InFlight
<1>2. bus \in [Messages -> Nat] /\ m \in Messages
  BY MessagesOfOrders DEF BusTypeOK
<1> HIDE DEF m
<1>3. bus' \in [Messages -> Nat]
  BY <1>1, <1>2
<1>4. \A n \in Messages : bus'[n] > 0 => bus[n] > 0 \/ n \in fact \X {o}
  BY <1>1, <1>2
<1>5. NothingNewBut(fact, o)
  BY <1>4, MessagesOfOrders DEF NothingNewBut, InFlight
<1> QED
  BY <1>1, <1>3, <1>5 DEF BusTypeOK, React, InFlight, m

\* A repeated message was in flight before.
LEMMA RedeliverStep ==
  ASSUME NEW m \in Messages, BusTypeOK, Redeliver(m)
  PROVE  BusTypeOK' /\ \A o \in Orders : NothingNewBut({}, o)
<1>1. bus' = [bus EXCEPT ![m] = @ + 1] /\ bus[m] > 0 /\ bus \in [Messages -> Nat]
  BY DEF Redeliver, InFlight, BusTypeOK
<1>2. bus' \in [Messages -> Nat] /\ \A n \in Messages : bus'[n] > 0 => bus[n] > 0
  BY <1>1
<1>3. redelivered' \in Nat
  BY DEF Redeliver, BusTypeOK
<1> QED
  BY <1>2, <1>3, MessagesOfOrders DEF BusTypeOK, InFlight, NothingNewBut

-----------------------------------------------------------------------------
(* The invariant *)

THEOREM InitInv == Init => Inv
<1> SUFFICES ASSUME Init PROVE Inv
  OBVIOUS
<1> USE DEF Init, BusInit, OrdersInit, InventoryInit, PaymentsInit, NotificationsInit
<1>1. BusTypeOK
  BY DEF BusTypeOK
<1>2. ASSUME NEW x \in Channels, NEW o \in Orders PROVE ~InFlight(<<x, o>>)
  <2>1. <<x, o>> \in Messages /\ <<x, o>> \notin Announcements
    BY DEF Messages, Announcements, Channels, OrderPlaced, StockReserved, StockRejected,
       PaymentCharged, PaymentDeclined, StockReleased
  <2>2. bus[<<x, o>>] = 0
    BY <2>1
  <2> QED
    BY <2>2 DEF InFlight
<1>3. TypeOK
  BY <1>1 DEF TypeOK, OrdersTypeOK, InventoryTypeOK, PaymentsTypeOK, NotificationsTypeOK,
     Outcomes, Statuses, Tasks, Endings
<1>4. ASSUME NEW o \in Orders PROVE Agreement(o)
  <2>1. MessagesAgree(o)
    BY <1>2 DEF MessagesAgree, Channels
  <2>2. LedgersAgree(o) /\ TrackerAgrees(o)
    BY DEF LedgersAgree, TrackerAgrees, Tasks
  <2>3. EmailsAgree(o)
    BY DEF EmailsAgree, Endings
  <2> QED
    BY <2>1, <2>2, <2>3 DEF Agreement
<1> QED
  BY <1>3, <1>4 DEF Inv

\* A step that is not about order q and changes no record of it leaves the
\* agreement on q alone.
LEMMA OthersUndisturbed ==
  ASSUME NEW q \in Orders, Agreement(q),
         status'[q] = status[q], reservations'[q] = reservations[q], charges'[q] = charges[q],
         q \in parked' => q \in parked,
         \A t \in Tasks : charging'[t] = q => charging[t] = q,
         awaiting'[q] = awaiting[q], q \in notified' <=> q \in notified,
         emails'[<<q, "confirmed">>] = emails[<<q, "confirmed">>],
         emails'[<<q, "failed">>] = emails[<<q, "failed">>],
         \A x \in Channels : InFlight(<<x, q>>)' => InFlight(<<x, q>>)
  PROVE  Agreement(q)'
<1> USE DEF Agreement
<1>1. MessagesAgree(q)'
  BY DEF MessagesAgree, Channels
<1>2. LedgersAgree(q)'
  BY DEF LedgersAgree
<1>3. TrackerAgrees(q)'
  BY DEF TrackerAgrees
<1>4. EmailsAgree(q)'
  BY DEF EmailsAgree, Grounds, Endings
<1> QED
  BY <1>1, <1>2, <1>3, <1>4

LEMMA PlaceInv ==
  ASSUME Inv, NEW o \in Orders, NEW u \in Users, NEW c \in Carts, Place(o, u, c),
         UNCHANGED <<inventoryVars, paymentsVars, notificationsVars>>
  PROVE  Inv'
<1> USE DEF Inv, TypeOK, inventoryVars, paymentsVars, joinVars, notificationsVars
<1>1. BusTypeOK' /\ NothingNewBut(OrderPlaced, o)
  BY PublishStep DEF Place
<1>2. status[o] = "Absent" /\ status' = [status EXCEPT ![o] = "Pending"]
  BY DEF Place
<1>3. OrdersTypeOK'
  BY DEF Place, OrdersTypeOK, Statuses
<1>4. TypeOK'
  BY <1>1, <1>3 DEF InventoryTypeOK, PaymentsTypeOK, NotificationsTypeOK
<1>5. ASSUME NEW q \in Orders, q # o PROVE Agreement(q)'
  BY <1>1, <1>2, <1>5, OthersUndisturbed DEF OrdersTypeOK, NothingNewBut
<1>6. Agreement(o)'
  <2> USE DEF Agreement
  <2>1. status'[o] = "Pending"
    BY <1>2 DEF OrdersTypeOK
  <2>2. MessagesAgree(o)'
    BY <1>1, <2>1 DEF MessagesAgree, NothingNewBut, Channels, OrderPlaced, StockReserved,
       StockRejected, PaymentCharged, PaymentDeclined, StockReleased
  <2>3. LedgersAgree(o)' /\ TrackerAgrees(o)'
    BY <2>1 DEF LedgersAgree, TrackerAgrees
  <2>4. EmailsAgree(o)'
    BY DEF EmailsAgree, Grounds
  <2> QED
    BY <2>2, <2>3, <2>4
<1> QED
  BY <1>4, <1>5, <1>6

\* A handler of the tracker: hearing of a fact changes at most the status, and
\* only as far as the fact goes.
LEMMA TrackInv ==
  ASSUME Inv, NEW o \in Orders, NEW x \in Channels, NEW from, NEW to,
         Track(x, o, from, to),
         \/ x \in StockReserved /\ from = "Pending" /\ to = "AwaitingPayment"
         \/ x \in StockRejected /\ from = "Pending" /\ to = "Failed"
         \/ x \in PaymentCharged /\ from = "AwaitingPayment" /\ to = "Confirmed"
         \/ x \in PaymentDeclined /\ from = "AwaitingPayment" /\ to = "Compensating"
         \/ x \in StockReleased /\ from = "Compensating" /\ to = "Failed",
         UNCHANGED <<inventoryVars, paymentsVars, notificationsVars>>
  PROVE  Inv'
<1> USE DEF Inv, TypeOK, inventoryVars, paymentsVars, joinVars, notificationsVars
<1>1. BusTypeOK' /\ InFlight(<<x, o>>) /\ NothingNewBut({}, o)
  BY ConsumeStep, MessagesOfOrders DEF Track
<1>2. \/ status[o] = from /\ status' = [status EXCEPT ![o] = to]
      \/ UNCHANGED status
  BY DEF Track
<1>3. status[o] # "Absent"
  BY <1>1 DEF Agreement, MessagesAgree
<1>4. OrdersTypeOK'
  BY <1>2, <1>3 DEF Track, OrdersTypeOK, Statuses
<1>5. TypeOK'
  BY <1>1, <1>4 DEF InventoryTypeOK, PaymentsTypeOK, NotificationsTypeOK
<1>6. ASSUME NEW q \in Orders, q # o PROVE Agreement(q)'
  BY <1>1, <1>2, <1>6, OthersUndisturbed DEF OrdersTypeOK, NothingNewBut
<1>7. Agreement(o)'
  <2> USE DEF Agreement
  <2>1. status'[o] # "Absent" /\ (status'[o] = status[o] \/ status'[o] = to)
    BY <1>2, <1>3 DEF OrdersTypeOK
  <2>2. MessagesAgree(o)'
    BY <1>1, <2>1 DEF MessagesAgree, NothingNewBut, Channels
  <2>3. LedgersAgree(o)'
    BY <2>1 DEF LedgersAgree
  <2>4. TrackerAgrees(o)'
    BY <1>1, <2>1 DEF TrackerAgrees, MessagesAgree
  <2>5. EmailsAgree(o)'
    BY DEF EmailsAgree, Grounds
  <2> QED
    BY <2>2, <2>3, <2>4, <2>5
<1> QED
  BY <1>5, <1>6, <1>7

LEMMA TrackerInv ==
  ASSUME Inv, NEW o \in Orders, Tracker(o),
         UNCHANGED <<inventoryVars, paymentsVars, notificationsVars>>
  PROVE  Inv'
<1> USE TrackInv DEF Channels, StockReserved, StockRejected, PaymentCharged,
        PaymentDeclined, StockReleased
<1>1. CASE OnStockReserved(o)
  BY <1>1 DEF OnStockReserved
<1>2. CASE OnStockRejected(o)
  BY <1>2 DEF OnStockRejected
<1>3. CASE OnPaymentCharged(o)
  BY <1>3 DEF OnPaymentCharged
<1>4. CASE OnPaymentDeclined(o)
  BY <1>4 DEF OnPaymentDeclined
<1>5. CASE OnStockReleased(o)
  BY <1>5 DEF OnStockReleased
<1> QED
  BY <1>1, <1>2, <1>3, <1>4, <1>5 DEF Tracker

THEOREM OrdersInv ==
  ASSUME Inv, NEW o \in Orders, OrdersStep(o)
  PROVE  Inv'
BY PlaceInv, TrackerInv DEF OrdersStep

THEOREM InventoryInv ==
  ASSUME Inv, NEW o \in Orders, InventoryStep(o)
  PROVE  Inv'
<1> USE DEF Inv, TypeOK, InventoryStep, ordersVars, paymentsVars, joinVars, notificationsVars
<1>1. ASSUME NEW fact, BusTypeOK', NothingNewBut(fact, o), InventoryTypeOK',
             \A q \in Orders \ {o} : reservations'[q] = reservations[q],
             Agreement(o)'
      PROVE  Inv'
  <2>1. TypeOK'
    BY <1>1 DEF OrdersTypeOK, PaymentsTypeOK, NotificationsTypeOK
  <2>2. ASSUME NEW q \in Orders, q # o PROVE Agreement(q)'
    BY <1>1, <2>2, OthersUndisturbed DEF NothingNewBut
  <2> QED
    BY <1>1, <2>1, <2>2
<1>2. CASE Reserve(o, cart[o])
  <2>1. "placed/inventory" \in Channels /\ <<"placed/inventory", o>> \in Messages
    BY MessagesOfOrders DEF Channels, OrderPlaced
  <2>2. PICK fact \in {StockReserved, StockRejected, {}} :
          /\ BusTypeOK' /\ InFlight(<<"placed/inventory", o>>) /\ NothingNewBut(fact, o)
          /\ fact = StockReserved => reservations'[o] = "Reserved"
          /\ fact = StockRejected => reservations'[o] = "Rejected"
    <3>1. CASE Consume(<<"placed/inventory", o>>)
      <4>1. BusTypeOK' /\ InFlight(<<"placed/inventory", o>>) /\ NothingNewBut({}, o)
        BY <2>1, <3>1, ConsumeStep
      <4> QED
        BY <4>1 DEF StockReserved, StockRejected
    <3>2. CASE React(<<"placed/inventory", o>>, StockReserved) /\ reservations'[o] = "Reserved"
      <4>1. BusTypeOK' /\ InFlight(<<"placed/inventory", o>>) /\ NothingNewBut(StockReserved, o)
        BY <2>1, <3>2, ReactStep
      <4> QED
        BY <3>2, <4>1 DEF StockReserved, StockRejected
    <3>3. CASE React(<<"placed/inventory", o>>, StockRejected) /\ reservations'[o] = "Rejected"
      <4>1. BusTypeOK' /\ InFlight(<<"placed/inventory", o>>) /\ NothingNewBut(StockRejected, o)
        BY <2>1, <3>3, ReactStep
      <4> QED
        BY <3>3, <4>1 DEF StockReserved, StockRejected
    <3> QED
      BY <1>2, <3>1, <3>2, <3>3 DEF Reserve, inventoryVars, InventoryTypeOK
  <2>3. status[o] # "Absent" /\ cart[o] \in Carts
    BY <2>1, <2>2 DEF Agreement, MessagesAgree, OrdersTypeOK
  <2>4. InventoryTypeOK'
    <3>1. ASSUME NEW p \in Products PROVE (stock[p] - cart[o].total[p]) % UnitWord \in 0..(UnitWord - 1)
      <4>1. cart[o].total \in [Products -> Nat]
        BY <2>3
      <4>2. stock[p] \in Nat /\ cart[o].total[p] \in Nat /\ UnitWord \in Nat /\ UnitWord > 0
        BY <4>1 DEF InventoryTypeOK
      <4> QED
        BY <4>2
    <3> QED
      BY <1>2, <3>1 DEF Reserve, inventoryVars, InventoryTypeOK, Outcomes
  <2>5. /\ \A q \in Orders \ {o} : reservations'[q] = reservations[q]
        /\ \/ reservations'[o] = reservations[o]
           \/ reservations[o] = "None" /\ reservations'[o] \in {"Reserved", "Rejected"}
    BY <1>2 DEF Reserve, inventoryVars, InventoryTypeOK
  <2>6. Agreement(o)'
    <3> USE DEF Agreement
    <3>1. MessagesAgree(o)'
      BY <2>2, <2>3, <2>5 DEF MessagesAgree, NothingNewBut, Channels, StockReserved,
         StockRejected, PaymentCharged, PaymentDeclined, StockReleased, Held
    <3>2. LedgersAgree(o)' /\ TrackerAgrees(o)'
      BY <2>3, <2>5 DEF LedgersAgree, TrackerAgrees, Held
    <3>3. EmailsAgree(o)'
      BY <2>5 DEF EmailsAgree, Grounds
    <3> QED
      BY <3>1, <3>2, <3>3
  <2> QED
    BY <1>1, <2>2, <2>4, <2>5, <2>6
<1>3. CASE Release(o, cart[o])
  <2>1. BusTypeOK' /\ InFlight(<<"declined/inventory", o>>) /\ NothingNewBut(StockReleased, o)
    BY <1>3, ReactStep DEF Release, Channels, PaymentDeclined
  <2>2. status[o] # "Absent" /\ cart[o] \in Carts /\ charges[o] = "Declined"
    BY <2>1 DEF Agreement, MessagesAgree, OrdersTypeOK, Channels, PaymentDeclined
  <2>3. reservations[o] \in Held
    BY <2>2 DEF Agreement, LedgersAgree
  <2>4. InventoryTypeOK'
    <3>1. ASSUME NEW p \in Products PROVE (stock[p] + cart[o].total[p]) % UnitWord \in 0..(UnitWord - 1)
      <4>1. cart[o].total \in [Products -> Nat]
        BY <2>2
      <4>2. stock[p] \in Nat /\ cart[o].total[p] \in Nat /\ UnitWord \in Nat /\ UnitWord > 0
        BY <4>1 DEF InventoryTypeOK
      <4> QED
        BY <4>2
    <3> QED
      BY <1>3, <3>1 DEF Release, inventoryVars, InventoryTypeOK, Outcomes
  <2>5. /\ \A q \in Orders \ {o} : reservations'[q] = reservations[q]
        /\ reservations'[o] = "AlreadyReleased"
    BY <1>3, <2>3 DEF Release, inventoryVars, InventoryTypeOK, Held
  <2>6. Agreement(o)'
    <3> USE DEF Agreement
    <3>1. MessagesAgree(o)'
      BY <2>1, <2>2, <2>3, <2>5 DEF MessagesAgree, NothingNewBut, Channels, StockReserved,
         StockRejected, PaymentCharged, PaymentDeclined, StockReleased, Held
    <3>2. LedgersAgree(o)' /\ TrackerAgrees(o)'
      BY <2>2, <2>5 DEF LedgersAgree, TrackerAgrees, Held
    <3>3. EmailsAgree(o)'
      BY <2>2, <2>3, <2>5 DEF EmailsAgree, Grounds, Held
    <3> QED
      BY <3>1, <3>2, <3>3
  <2> QED
    BY <1>1, <2>1, <2>4, <2>5, <2>6
<1> QED
  BY <1>2, <1>3

\* The joins change no ledger; what they decide to charge was reserved.
LEMMA JoinInv ==
  ASSUME Inv, NEW o \in Orders, JoinPlaced(o) \/ JoinReserved(o),
         UNCHANGED <<ordersVars, inventoryVars, notificationsVars>>
  PROVE  Inv'
<1> USE DEF Inv, TypeOK, ordersVars, inventoryVars, notificationsVars
<1>1. PICK x \in {"placed/payments", "reserved/payments"} :
        /\ Consume(<<x, o>>)
        /\ \/ x = "placed/payments"
           \/ x \in StockReserved /\ parked' \subseteq parked \cup {o}
        /\ x = "placed/payments" => parked' = parked \ {o} /\ (o \in parked \/ charging'["placed"] = Nobody)
  BY DEF JoinPlaced, JoinReserved, StockReserved, PaymentsTypeOK, Tasks
<1>2. x \in Channels
  BY DEF Channels, OrderPlaced, StockReserved
<1>3. BusTypeOK' /\ InFlight(<<x, o>>) /\ NothingNewBut({}, o)
  BY <1>1, <1>2, ConsumeStep, MessagesOfOrders
<1>4. /\ PaymentsTypeOK' /\ UNCHANGED <<wallets, charges>>
      /\ \A q \in Orders \ {o} : /\ q \in parked' => q \in parked
                               /\ \A t \in Tasks : charging'[t] = q => charging[t] = q
  BY DEF JoinPlaced, JoinReserved, PaymentsTypeOK, Tasks
<1>5. TypeOK'
  BY <1>3, <1>4 DEF OrdersTypeOK, InventoryTypeOK, NotificationsTypeOK
<1>6. ASSUME NEW q \in Orders, q # o PROVE Agreement(q)'
  BY <1>3, <1>4, <1>6, OthersUndisturbed DEF NothingNewBut
<1>7. Agreement(o)'
  <2> USE DEF Agreement
  <2>1. MessagesAgree(o)' /\ TrackerAgrees(o)' /\ EmailsAgree(o)'
    BY <1>3, <1>4 DEF MessagesAgree, TrackerAgrees, EmailsAgree, Grounds, NothingNewBut, Channels
  <2>2. LedgersAgree(o)'
    <3>1. CASE JoinPlaced(o)
      BY <1>4, <3>1 DEF LedgersAgree, JoinPlaced, PaymentsTypeOK, Tasks
    <3>2. CASE JoinReserved(o)
      <4>1. InFlight(<<"reserved/payments", o>>)
        BY <3>2 DEF JoinReserved, Consume
      <4>2. reservations[o] \in Held
        BY <4>1 DEF MessagesAgree, StockReserved
      <4> QED
        BY <1>4, <3>2, <4>2 DEF LedgersAgree, JoinReserved, PaymentsTypeOK, Tasks, Held
    <3> QED
      BY <3>1, <3>2
  <2> QED
    BY <2>1, <2>2
<1> QED
  BY <1>5, <1>6, <1>7

LEMMA ChargeInv ==
  ASSUME Inv, NEW o \in Orders, NEW t \in Tasks, Charge(t, o, buyer[o], cart[o].cents),
         UNCHANGED <<ordersVars, inventoryVars, notificationsVars>>
  PROVE  Inv'
<1> USE DEF Inv, TypeOK, ordersVars, inventoryVars, notificationsVars
<1>1. PICK fact \in {PaymentCharged, PaymentDeclined} :
        /\ Publish(fact, o)
        /\ fact = PaymentCharged => charges'[o] = "Charged"
        /\ fact = PaymentDeclined => charges'[o] = "Declined"
        /\ charges'[o] = charges[o] \/ charges[o] = "None"
        /\ charges'[o] # "None"
        /\ \A q \in Orders \ {o} : charges'[q] = charges[q]
  BY DEF Charge, PaymentsTypeOK, PaymentCharged, PaymentDeclined
<1>2. BusTypeOK' /\ NothingNewBut(fact, o)
  BY <1>1, PublishStep
<1>3. reservations[o] \in Held /\ status[o] # "Absent"
  BY DEF Charge, Agreement, LedgersAgree, Held
<1>4. /\ PaymentsTypeOK' /\ parked' = parked
      /\ charging' = [charging EXCEPT ![t] = Nobody]
  <2>1. buyer[o] \in Users /\ cart[o].cents \in Nat
    BY <1>3 DEF OrdersTypeOK
  <2> QED
    BY <2>1 DEF Charge, PaymentsTypeOK, joinVars
<1>5. TypeOK'
  BY <1>2, <1>4 DEF OrdersTypeOK, InventoryTypeOK, NotificationsTypeOK
<1>6. ASSUME NEW q \in Orders, NEW s \in Tasks, charging'[s] = q PROVE charging[s] = q
  BY <1>4, <1>6 DEF PaymentsTypeOK
<1>7. ASSUME NEW q \in Orders, q # o PROVE Agreement(q)'
  BY <1>1, <1>2, <1>4, <1>6, <1>7, OthersUndisturbed DEF NothingNewBut, Charge, joinVars
<1>8. Agreement(o)'
  <2> USE DEF Agreement
  <2>1. MessagesAgree(o)'
    BY <1>1, <1>2, <1>3 DEF MessagesAgree, NothingNewBut, Channels, StockReserved,
       StockRejected, PaymentCharged, PaymentDeclined, StockReleased
  <2>2. LedgersAgree(o)'
    BY <1>1, <1>3, <1>4, <1>6 DEF LedgersAgree, Held
  <2>3. TrackerAgrees(o)' /\ EmailsAgree(o)'
    BY <1>1, <1>3 DEF TrackerAgrees, EmailsAgree, Grounds
  <2> QED
    BY <2>1, <2>2, <2>3
<1> QED
  BY <1>5, <1>7, <1>8

THEOREM PaymentsInv ==
  ASSUME Inv, NEW o \in Orders, PaymentsStep(o)
  PROVE  Inv'
BY JoinInv, ChargeInv DEF PaymentsStep

\* What notifications-service may park for o, and may send for it, needs grounds.
LEMMA EmailInv ==
  ASSUME Inv, NEW o \in Orders, UNCHANGED <<ordersVars, inventoryVars, paymentsVars>>,
         BusTypeOK', NothingNewBut({}, o), noted' \subseteq Orders,
         NEW a \in Endings \cup {"none"}, a # "none" => Grounds(o, a),
         awaiting' = [awaiting EXCEPT ![o] = a],
         \/ UNCHANGED <<notified, emails>>
         \/ \E e \in Endings : /\ Grounds(o, e)
                             /\ o \notin notified /\ notified' = notified \cup {o}
                             /\ Send(o, e)
  PROVE  Inv'
<1> USE DEF Inv, TypeOK, ordersVars, inventoryVars, paymentsVars, joinVars
<1>1. awaiting'[o] = a /\ \A q \in Orders \ {o} : awaiting'[q] = awaiting[q]
  BY DEF NotificationsTypeOK
<1>2. \A q \in Orders \ {o} : q \in notified' <=> q \in notified
  OBVIOUS
<1>3. \A q \in Orders \ {o} : /\ emails'[<<q, "confirmed">>] = emails[<<q, "confirmed">>]
                            /\ emails'[<<q, "failed">>] = emails[<<q, "failed">>]
  BY DEF Send, NotificationsTypeOK, Endings
<1>4. TypeOK'
  <2>1. ASSUME NEW e \in Endings, Send(o, e) PROVE emails' \in [Orders \X Endings -> Nat]
    <3>1. <<o, e>> \in Orders \X Endings
      OBVIOUS
    <3> QED
      BY <2>1, <3>1 DEF Send, NotificationsTypeOK
  <2>2. emails' \in [Orders \X Endings -> Nat] /\ notified' \subseteq Orders
    BY <2>1 DEF NotificationsTypeOK
  <2> QED
    BY <2>2 DEF OrdersTypeOK, InventoryTypeOK, PaymentsTypeOK, NotificationsTypeOK
<1>5. ASSUME NEW q \in Orders, q # o PROVE Agreement(q)'
  BY <1>1, <1>2, <1>3, <1>5, OthersUndisturbed DEF NothingNewBut
<1>6. Agreement(o)'
  <2> USE DEF Agreement
  <2>1. MessagesAgree(o)' /\ LedgersAgree(o)' /\ TrackerAgrees(o)'
    BY DEF MessagesAgree, LedgersAgree, TrackerAgrees, NothingNewBut, Channels
  <2>2. CASE UNCHANGED <<notified, emails>>
    BY <1>1, <2>2, <2>1 DEF EmailsAgree, Grounds
  <2>3. ASSUME NEW e \in Endings, Grounds(o, e), o \notin notified,
               notified' = notified \cup {o}, Send(o, e)
        PROVE  EmailsAgree(o)'
    <3>1. emails[<<o, "confirmed">>] \in Nat /\ emails[<<o, "failed">>] \in Nat
      BY DEF NotificationsTypeOK, Endings
    <3>2. emails[<<o, "confirmed">>] = 0 /\ emails[<<o, "failed">>] = 0
      BY <2>3, <3>1 DEF EmailsAgree
    <3>3. /\ emails'[<<o, e>>] = 1
          /\ \A f \in Endings \ {e} : emails'[<<o, f>>] = 0
      BY <2>3, <3>2 DEF Send, NotificationsTypeOK, Endings
    <3>5. \A f \in Endings : (emails[<<o, f>>] > 0 => Grounds(o, f))'
      BY <2>3, <3>3 DEF Grounds
    <3>6. emails'[<<o, "confirmed">>] + emails'[<<o, "failed">>] = 1
      BY <3>3 DEF Endings
    <3>7. o \in notified'
      BY <2>3
    <3>8. (awaiting[o] # "none" => Grounds(o, awaiting[o]))'
      BY <1>1 DEF Grounds
    <3> QED
      BY <3>5, <3>6, <3>7, <3>8 DEF EmailsAgree
  <2> QED
    BY <2>1, <2>2, <2>3
<1> QED
  BY <1>4, <1>5, <1>6

LEMMA RecordPlacedInv ==
  ASSUME Inv, NEW o \in Orders, RecordPlaced(o),
         UNCHANGED <<ordersVars, inventoryVars, paymentsVars>>
  PROVE  Inv'
<1> USE DEF Inv, TypeOK
<1>1. BusTypeOK' /\ NothingNewBut({}, o)
  BY ConsumeStep, MessagesOfOrders DEF RecordPlaced, Channels, OrderPlaced
<1>2. awaiting[o] # "none" => awaiting[o] \in Endings /\ Grounds(o, awaiting[o])
  BY DEF Agreement, EmailsAgree, NotificationsTypeOK
<1>3. \/ UNCHANGED <<notified, emails>>
      \/ /\ awaiting[o] # "none"
         /\ o \notin notified /\ notified' = notified \cup {o} /\ Send(o, awaiting[o])
  BY DEF RecordPlaced
<1>4. noted' \subseteq Orders /\ awaiting' = [awaiting EXCEPT ![o] = "none"]
  BY DEF RecordPlaced, NotificationsTypeOK
<1> QED
  BY <1>1, <1>2, <1>3, <1>4, EmailInv

LEMMA RecordOutcomeInv ==
  ASSUME Inv, NEW o \in Orders, NEW e \in Endings, Grounds(o, e), RecordOutcome(o, e),
         BusTypeOK', NothingNewBut({}, o), UNCHANGED <<ordersVars, inventoryVars, paymentsVars>>
  PROVE  Inv'
<1> USE DEF Inv, TypeOK
<1>1. \/ UNCHANGED <<notified, emails>>
      \/ o \notin notified /\ notified' = notified \cup {o} /\ Send(o, e)
  BY DEF RecordOutcome
<1>2. PICK a \in Endings \cup {"none"} : /\ a # "none" => Grounds(o, a)
                                     /\ awaiting' = [awaiting EXCEPT ![o] = a]
  <2>1. /\ awaiting[o] \in Endings \cup {"none"}
        /\ awaiting[o] # "none" => Grounds(o, awaiting[o])
    BY DEF Agreement, EmailsAgree, NotificationsTypeOK
  <2>2. CASE UNCHANGED awaiting
    <3>1. awaiting' = [awaiting EXCEPT ![o] = awaiting[o]]
      BY <2>2 DEF NotificationsTypeOK
    <3> QED
      BY <2>1, <3>1
  <2>3. CASE awaiting' = [awaiting EXCEPT ![o] = IF @ = "none" THEN e ELSE @]
    BY <2>1, <2>3
  <2> QED
    BY <2>2, <2>3 DEF RecordOutcome
<1>3. noted' \subseteq Orders
  BY DEF RecordOutcome, NotificationsTypeOK
<1> QED
  BY <1>1, <1>2, <1>3, EmailInv

THEOREM NotificationsInv ==
  ASSUME Inv, NEW o \in Orders, NotificationsStep(o)
  PROVE  Inv'
<1> USE DEF Inv, TypeOK, NotificationsStep
<1>1. ASSUME NEW x \in Channels, NEW e \in Endings, Consume(<<x, o>>), RecordOutcome(o, e),
             \/ x \in PaymentCharged /\ e = "confirmed"
             \/ x \in StockRejected \cup PaymentDeclined /\ e = "failed"
      PROVE  Inv'
  <2>1. BusTypeOK' /\ InFlight(<<x, o>>) /\ NothingNewBut({}, o)
    BY <1>1, ConsumeStep, MessagesOfOrders
  <2>2. Grounds(o, e)
    BY <1>1, <2>1 DEF Agreement, MessagesAgree, Grounds
  <2> QED
    BY <1>1, <2>1, <2>2, RecordOutcomeInv
<1>2. CASE HearCharged(o)
  BY <1>1, <1>2 DEF HearCharged, Channels, PaymentCharged, Endings
<1>3. CASE HearRejected(o)
  BY <1>1, <1>3 DEF HearRejected, Channels, StockRejected, Endings
<1>4. CASE HearDeclined(o)
  BY <1>1, <1>4 DEF HearDeclined, Channels, PaymentDeclined, Endings
<1> QED
  BY <1>2, <1>3, <1>4, RecordPlacedInv

\* The announcements and the repetitions touch nothing that Agreement speaks of.
THEOREM EnvironmentInv ==
  ASSUME Inv,
         \/ \E u \in Users : ProjectUser(u) \/ SeedWallet(u)
         \/ \E p \in Products : ProjectProduct(p) \/ SeedStock(p)
         \/ \E m \in Messages : Again(m)
  PROVE  Inv'
<1> USE DEF Inv, TypeOK, ordersVars, inventoryVars, paymentsVars, joinVars, notificationsVars
<1>1. BusTypeOK' /\ \A o \in Orders : NothingNewBut({}, o)
  <2>1. CASE \E m \in Messages : Again(m)
    BY <2>1, RedeliverStep DEF Again
  <2>2. CASE \E m \in Messages : Consume(m)
    BY <2>2, ConsumeStep
  <2>3. /\ \A u \in Users : /\ <<"registered/orders", u>> \in Messages
                         /\ <<"registered/payments", u>> \in Messages
        /\ \A p \in Products : /\ <<"created/orders", p>> \in Messages
                            /\ <<"created/inventory", p>> \in Messages
    BY DEF Messages, Announcements
  <2> QED
    BY <2>1, <2>2, <2>3 DEF ProjectUser, SeedWallet, ProjectProduct, SeedStock,
       RecordUser, OpenWallet, RecordPrice, SeedProduct
<1>2. /\ UNCHANGED <<status, buyer, cart, reservations, charges, details, parked, charging>>
      /\ UNCHANGED notificationsVars
  BY DEF ProjectUser, SeedWallet, ProjectProduct, SeedStock, Again,
     RecordUser, OpenWallet, RecordPrice, SeedProduct
<1>3. known' \subseteq Users \cup Products
  BY DEF ProjectUser, SeedWallet, ProjectProduct, SeedStock, Again, OrdersTypeOK,
     RecordUser, OpenWallet, RecordPrice, SeedProduct
<1>4. stock' \in [Products -> 0..(UnitWord - 1)]
  <2>1. UNCHANGED stock \/ \E p \in Products : stock' = [stock EXCEPT ![p] = StartingStock]
    BY DEF ProjectUser, SeedWallet, ProjectProduct, SeedStock, Again,
       RecordUser, OpenWallet, RecordPrice, SeedProduct
  <2> QED
    BY <2>1 DEF InventoryTypeOK
<1>5. wallets' \in [Users -> Nat]
  <2>1. UNCHANGED wallets \/ \E u \in Users : wallets' = [wallets EXCEPT ![u] = StartingBalance]
    BY DEF ProjectUser, SeedWallet, ProjectProduct, SeedStock, Again,
       RecordUser, OpenWallet, RecordPrice, SeedProduct
  <2> QED
    BY <2>1 DEF PaymentsTypeOK
<1>6. TypeOK'
  BY <1>1, <1>2, <1>3, <1>4, <1>5 DEF OrdersTypeOK, InventoryTypeOK, PaymentsTypeOK, NotificationsTypeOK
<1>7. ASSUME NEW q \in Orders PROVE Agreement(q)'
  BY <1>1, <1>2, OthersUndisturbed DEF NothingNewBut
<1> QED
  BY <1>6, <1>7

LEMMA StutterInv == Inv /\ UNCHANGED vars => Inv'
BY DEF Inv, TypeOK, vars, ordersVars, inventoryVars, paymentsVars, joinVars, notificationsVars,
   busVars, BusTypeOK, OrdersTypeOK, InventoryTypeOK, PaymentsTypeOK, NotificationsTypeOK,
   Agreement, MessagesAgree, LedgersAgree, TrackerAgrees, EmailsAgree, Grounds, InFlight

\* Inv is inductive.
THEOREM NextInv == Inv /\ [Next]_vars => Inv'
<1> SUFFICES ASSUME Inv, [Next]_vars PROVE Inv'
  OBVIOUS
<1>1. ASSUME NEW o \in Orders,
             OrdersStep(o) \/ InventoryStep(o) \/ PaymentsStep(o) \/ NotificationsStep(o)
      PROVE  Inv'
  BY <1>1, OrdersInv, InventoryInv, PaymentsInv, NotificationsInv
<1> QED
  BY <1>1, EnvironmentInv, StutterInv DEF Next

THEOREM Invariance == Spec => []Inv
BY InitInv, NextInv, PTL DEF Spec

-----------------------------------------------------------------------------
(* What follows from it *)

\* Every reachable state has the types TypeOK gives: no wallet goes below zero.
THEOREM TypeCorrect == Spec => []TypeOK
BY Invariance, PTL DEF Inv

\* A buyer gets at most one email, and it is true for good.
THEOREM EmailsAreTrue == Spec => []OneTrueEmail
<1>1. ASSUME Inv, NEW o \in Orders
      PROVE  /\ emails[<<o, "confirmed">>] + emails[<<o, "failed">>] <= 1
             /\ emails[<<o, "confirmed">>] > 0 => charges[o] = "Charged" /\ reservations[o] = "Reserved"
             /\ emails[<<o, "failed">>] > 0 => charges[o] = "Declined" \/ reservations[o] = "Rejected"
  <2>1. Agreement(o)
    BY <1>1 DEF Inv
  <2>2. emails[<<o, "confirmed">>] + emails[<<o, "failed">>] <= 1
    BY <2>1 DEF Agreement, EmailsAgree
  <2>3. emails[<<o, "confirmed">>] > 0 => charges[o] = "Charged"
    BY <2>1 DEF Agreement, EmailsAgree, Grounds, Endings
  <2>4. charges[o] = "Charged" => reservations[o] = "Reserved"
    BY <2>1 DEF Agreement, LedgersAgree, Held
  <2>5. emails[<<o, "failed">>] > 0 => charges[o] = "Declined" \/ reservations[o] = "Rejected"
    BY <2>1 DEF Agreement, EmailsAgree, Grounds, Endings
  <2> QED
    BY <2>2, <2>3, <2>4, <2>5
<1>2. Inv => OneTrueEmail
  BY <1>1 DEF OneTrueEmail
<1> QED
  BY <1>2, Invariance, PTL

-----------------------------------------------------------------------------
(* The refinement of SagaContract *)

LEMMA InitRefines == Init => Contract!Init
BY DEF Init, OrdersInit, InventoryInit, PaymentsInit, Contract!Init, Reserved, Charged, EverReserved

\* A step of orders accepts, confirms, fails or is not seen.
LEMMA OrdersRefines ==
  ASSUME Inv, NEW o \in Orders, OrdersStep(o)
  PROVE  [Contract!Next]_(Contract!vars)
<1>1. status \in [Orders -> Statuses] /\ UNCHANGED <<reservations, charges>>
  BY DEF Inv, TypeOK, OrdersTypeOK, OrdersStep, inventoryVars, paymentsVars
<1>2. UNCHANGED <<Reserved, Charged, EverReserved>>
  BY <1>1 DEF Reserved, Charged, EverReserved
<1>3. MessagesAgree(o) /\ LedgersAgree(o) /\ TrackerAgrees(o)
  BY DEF Inv, Agreement
<1>4. PICK new \in Statuses :
        /\ status' = [status EXCEPT ![o] = new]
        /\ \/ status[o] = "Absent" /\ new = "Pending"
           \/ status[o] = "Pending" /\ new = "AwaitingPayment"
           \/ status[o] = "Pending" /\ new = "Failed" /\ InFlight(<<"rejected/orders", o>>)
           \/ status[o] = "AwaitingPayment" /\ new = "Confirmed" /\ InFlight(<<"charged/orders", o>>)
           \/ status[o] = "AwaitingPayment" /\ new = "Compensating"
           \/ status[o] = "Compensating" /\ new = "Failed" /\ InFlight(<<"released/orders", o>>)
           \/ new = status[o]
  <2>1. CASE UNCHANGED status
    BY <1>1, <2>1
  <2>2. CASE \E u \in Users, c \in Carts : Place(o, u, c)
    BY <2>2 DEF Place, Statuses
  <2>3. CASE OnStockReserved(o) /\ ~UNCHANGED status
    BY <2>3 DEF OnStockReserved, Track, Statuses
  <2>4. CASE OnStockRejected(o) /\ ~UNCHANGED status
    BY <2>4 DEF OnStockRejected, Track, Consume, Statuses
  <2>5. CASE OnPaymentCharged(o) /\ ~UNCHANGED status
    BY <2>5 DEF OnPaymentCharged, Track, Consume, Statuses
  <2>6. CASE OnPaymentDeclined(o) /\ ~UNCHANGED status
    BY <2>6 DEF OnPaymentDeclined, Track, Statuses
  <2>7. CASE OnStockReleased(o) /\ ~UNCHANGED status
    BY <2>7 DEF OnStockReleased, Track, Consume, Statuses
  <2> QED
    BY <2>1, <2>2, <2>3, <2>4, <2>5, <2>6, <2>7 DEF OrdersStep, Tracker
<1>5. CASE status[o] = "Absent" /\ new = "Pending"
  <2>1. Contract!Accept(o)
    BY <1>1, <1>2, <1>4, <1>5 DEF Contract!Accept
  <2> QED
    BY <2>1 DEF Contract!Next
<1>6. CASE status[o] = "AwaitingPayment" /\ new = "Confirmed"
  <2>1. charges[o] = "Charged" /\ reservations[o] = "Reserved"
    BY <1>3, <1>4, <1>6 DEF MessagesAgree, LedgersAgree, PaymentCharged, Held
  <2>2. Contract!Confirm(o)
    BY <1>1, <1>2, <1>4, <1>6, <2>1 DEF Contract!Confirm, Reserved, Charged
  <2> QED
    BY <2>2 DEF Contract!Next
<1>7. CASE status[o] \in {"Pending", "Compensating"} /\ new = "Failed"
  <2>1. reservations[o] \in {"Rejected", "AlreadyReleased"} /\ charges[o] # "Charged"
    BY <1>3, <1>4, <1>7 DEF MessagesAgree, LedgersAgree, StockRejected, StockReleased, Held
  <2>2. Contract!Fail(o)
    BY <1>1, <1>2, <1>4, <1>7, <2>1 DEF Contract!Fail, Reserved, Charged
  <2> QED
    BY <2>2 DEF Contract!Next
<1>8. CASE \/ status[o] = "Pending" /\ new = "AwaitingPayment"
           \/ status[o] = "AwaitingPayment" /\ new = "Compensating"
           \/ new = status[o]
  BY <1>1, <1>2, <1>4, <1>8 DEF Contract!vars
<1> QED
  BY <1>4, <1>5, <1>6, <1>7, <1>8

\* A step of inventory holds, gives back or is not seen.
LEMMA InventoryRefines ==
  ASSUME Inv, NEW o \in Orders, InventoryStep(o)
  PROVE  [Contract!Next]_(Contract!vars)
<1>1. UNCHANGED <<status, charges>> /\ UNCHANGED Charged
  BY DEF InventoryStep, ordersVars, paymentsVars, Charged
<1>2. MessagesAgree(o) /\ LedgersAgree(o) /\ TrackerAgrees(o) /\ status[o] \in Statuses
  BY DEF Inv, Agreement, TypeOK, OrdersTypeOK
<1>3. PICK new :
        /\ reservations' = [reservations EXCEPT ![o] = new]
        /\ \/ reservations[o] = "None" /\ new = "Reserved" /\ InFlight(<<"placed/inventory", o>>)
           \/ reservations[o] = "None" /\ new = "Rejected"
           \/ /\ reservations[o] = "Reserved" /\ new = "AlreadyReleased"
              /\ InFlight(<<"declined/inventory", o>>)
           \/ new = reservations[o]
  <2>1. CASE UNCHANGED reservations
    <3>1. reservations' = [reservations EXCEPT ![o] = reservations[o]]
      BY <2>1 DEF Inv, TypeOK, InventoryTypeOK
    <3> QED
      BY <3>1
  <2>2. CASE Reserve(o, cart[o]) /\ ~UNCHANGED reservations
    BY <2>2 DEF Reserve, inventoryVars
  <2>3. CASE Release(o, cart[o]) /\ ~UNCHANGED reservations
    BY <2>3 DEF Release, React, inventoryVars
  <2> QED
    BY <2>1, <2>2, <2>3 DEF InventoryStep
<1>4. /\ reservations'[o] = new
      /\ \A q \in Orders \ {o} : reservations'[q] = reservations[q]
  BY <1>3 DEF Inv, TypeOK, InventoryTypeOK
<1>5. CASE reservations[o] = "None" /\ new = "Reserved" /\ InFlight(<<"placed/inventory", o>>)
  <2>1. status[o] \in {"Pending", "AwaitingPayment", "Compensating"}
    BY <1>2, <1>5 DEF MessagesAgree, LedgersAgree, TrackerAgrees, Statuses, Held, Channels, OrderPlaced
  <2>2. Reserved' = Reserved \cup {o} /\ EverReserved' = EverReserved \cup {o} /\ o \notin EverReserved
    BY <1>4, <1>5 DEF Reserved, EverReserved
  <2>3. Contract!Hold(o)
    BY <1>1, <2>1, <2>2 DEF Contract!Hold
  <2> QED
    BY <2>3 DEF Contract!Next
<1>6. CASE /\ reservations[o] = "Reserved" /\ new = "AlreadyReleased"
           /\ InFlight(<<"declined/inventory", o>>)
  <2>1. charges[o] = "Declined"
    BY <1>2, <1>6 DEF MessagesAgree, PaymentDeclined
  <2>2. status[o] \in {"Pending", "AwaitingPayment", "Compensating"}
    BY <1>2, <1>6, <2>1 DEF LedgersAgree, TrackerAgrees, Statuses
  <2>3. Reserved' = Reserved \ {o} /\ EverReserved' = EverReserved /\ o \in Reserved \ Charged
    BY <1>4, <1>6, <2>1 DEF Reserved, EverReserved, Charged
  <2>4. Contract!GiveBack(o)
    BY <1>1, <2>2, <2>3 DEF Contract!GiveBack
  <2> QED
    BY <2>4 DEF Contract!Next
<1>7. CASE (reservations[o] = "None" /\ new = "Rejected") \/ new = reservations[o]
  <2>1. Reserved' = Reserved /\ EverReserved' = EverReserved
    BY <1>4, <1>7 DEF Reserved, EverReserved
  <2> QED
    BY <1>1, <2>1 DEF Contract!vars
<1> QED
  BY <1>3, <1>5, <1>6, <1>7

\* A step of payments pays, or is not seen.
LEMMA PaymentsRefines ==
  ASSUME Inv, NEW o \in Orders, PaymentsStep(o)
  PROVE  [Contract!Next]_(Contract!vars)
<1>1. UNCHANGED <<status, reservations>> /\ UNCHANGED <<Reserved, EverReserved>>
  BY DEF PaymentsStep, ordersVars, inventoryVars, Reserved, EverReserved
<1>2. CASE UNCHANGED charges
  BY <1>1, <1>2 DEF Contract!vars, Charged
<1>3. ASSUME NEW t \in Tasks, Charge(t, o, buyer[o], cart[o].cents), ~UNCHANGED charges
      PROVE  [Contract!Next]_(Contract!vars)
  <2>1. /\ charges[o] = "None" /\ charging[t] = o
        /\ \/ charges' = [charges EXCEPT ![o] = "Charged"]
           \/ charges' = [charges EXCEPT ![o] = "Declined"]
    BY <1>3 DEF Charge
  <2>2. /\ \A q \in Orders \ {o} : charges'[q] = charges[q]
        /\ charges'[o] \in {"Charged", "Declined"}
    BY <2>1 DEF Inv, TypeOK, PaymentsTypeOK
  <2>3. LedgersAgree(o) /\ TrackerAgrees(o) /\ status[o] \in Statuses
    BY DEF Inv, Agreement, TypeOK, OrdersTypeOK
  <2>4. reservations[o] = "Reserved"
    BY <2>1, <2>3 DEF LedgersAgree, Held
  <2>5. status[o] \in {"Pending", "AwaitingPayment", "Compensating"}
    BY <2>1, <2>3, <2>4 DEF LedgersAgree, TrackerAgrees, Statuses
  <2>6. CASE charges'[o] = "Charged"
    <3>1. Charged' = Charged \cup {o} /\ o \in Reserved \ Charged
      BY <2>1, <2>2, <2>4, <2>6 DEF Charged, Reserved
    <3>2. Contract!Pay(o)
      BY <1>1, <2>5, <3>1 DEF Contract!Pay
    <3> QED
      BY <3>2 DEF Contract!Next
  <2>7. CASE charges'[o] = "Declined"
    <3>1. Charged' = Charged
      BY <2>1, <2>2, <2>7 DEF Charged
    <3> QED
      BY <1>1, <3>1 DEF Contract!vars
  <2> QED
    BY <2>2, <2>6, <2>7
<1> QED
  BY <1>2, <1>3 DEF PaymentsStep, JoinPlaced, JoinReserved

LEMMA NextRefines == Inv /\ [Next]_vars => [Contract!Next]_(Contract!vars)
<1> SUFFICES ASSUME Inv, [Next]_vars PROVE [Contract!Next]_(Contract!vars)
  OBVIOUS
<1>1. CASE UNCHANGED <<status, reservations, charges>>
  BY <1>1 DEF Contract!vars, Reserved, Charged, EverReserved
<1>2. ASSUME NEW o \in Orders, NotificationsStep(o)
      PROVE  UNCHANGED <<status, reservations, charges>>
  BY <1>2 DEF NotificationsStep, ordersVars, inventoryVars, paymentsVars
<1>3. CASE \/ \E u \in Users : ProjectUser(u) \/ SeedWallet(u)
           \/ \E p \in Products : ProjectProduct(p) \/ SeedStock(p)
           \/ \E m \in Messages : Again(m)
  <2>1. UNCHANGED <<status, reservations, charges>>
    BY <1>3 DEF ProjectUser, SeedWallet, ProjectProduct, SeedStock, Again, RecordUser, OpenWallet,
       RecordPrice, SeedProduct, ordersVars, inventoryVars, paymentsVars
  <2> QED
    BY <1>1, <2>1
<1>4. CASE UNCHANGED vars
  BY <1>1, <1>4 DEF vars, ordersVars, inventoryVars, paymentsVars
<1> QED
  BY <1>1, <1>2, <1>3, <1>4, OrdersRefines, InventoryRefines, PaymentsRefines DEF Next

\* The choreography keeps the saga's promise, whatever is delivered again: the
\* proviso that SagaImplementsContract needs is gone with the tombstone.
THEOREM ChoreographyImplementsContract == Spec => ImplementsContract
BY InitRefines, NextRefines, Invariance, PTL DEF Spec, ImplementsContract, Contract!Spec

-----------------------------------------------------------------------------
(* The books *)

\* The announcements that fill shelves and wallets.  (What repeats messages
\* repeats no announcement: Redeliver.)
Seeds == ({"created/inventory"} \X Products) \cup ({"registered/payments"} \X Users)

\* A product is on one line of a cart only, so that the check of reserve sees
\* all of it.
SingleLines == \A c \in Carts : c.total = c.largest

Kept(p)  == Units(p, Reserved)
Spent(u) == Cents({o \in Charged : buyer[o] = u})

\* A count is zero until its seed was consumed, and the balance of the seed
\* and what the ledger took out after.
ShelfBooks(p) ==
  /\ bus[<<"created/inventory", p>>] \in {0, 1}
  /\ stock[p] + Kept(p) \in
       IF bus[<<"created/inventory", p>>] = 1 THEN {0} ELSE {0, StartingStock}

WalletBooks(u) ==
  /\ bus[<<"registered/payments", u>>] \in {0, 1}
  /\ wallets[u] + Spent(u) \in
       IF bus[<<"registered/payments", u>>] = 1 THEN {0} ELSE {0, StartingBalance}

Books == /\ IsFiniteSet(Reserved) /\ IsFiniteSet(Charged)
         /\ \A p \in Products : ShelfBooks(p)
         /\ \A u \in Users : WalletBooks(u)

\* The two sums range over naturals.
LEMMA SumTypes ==
  ASSUME Inv, Books
  PROVE  /\ \A p \in Products : /\ \A o \in Reserved : cart[o].total[p] \in Nat
                                /\ Kept(p) \in Nat
         /\ \A u \in Users : /\ \A o \in Charged : cart[o].cents \in Nat
                             /\ Spent(u) \in Nat
<1>1. \A o \in Reserved \cup Charged : o \in Orders /\ cart[o] \in Carts
  BY DEF Inv, TypeOK, OrdersTypeOK, Agreement, LedgersAgree, Held, Reserved, Charged
<1>2. ASSUME NEW p \in Products
      PROVE  (\A o \in Reserved : cart[o].total[p] \in Nat) /\ Kept(p) \in Nat
  <2>1. \A o \in Reserved : cart[o].total \in [Products -> Nat]
    BY <1>1
  <2>2. \A o \in Reserved : cart[o].total[p] \in Nat
    BY <2>1
  <2> DEFINE f == [o \in Orders |-> cart[o].total[p]]
  <2>3. \A o \in Reserved : f[o] \in Nat
    BY <2>2 DEF Reserved
  <2>4. SumFunctionOnSet(f, Reserved) \in Nat
    <3> HIDE DEF f
    <3> QED
      BY <2>3, SumNat DEF Books
  <2> QED
    BY <2>2, <2>4 DEF Kept, Units
<1>3. ASSUME NEW u \in Users
      PROVE  (\A o \in Charged : cart[o].cents \in Nat) /\ Spent(u) \in Nat
  <2>1. \A o \in Charged : cart[o].cents \in Nat
    BY <1>1
  <2> DEFINE f == [o \in Orders |-> cart[o].cents]
             S == {o \in Charged : buyer[o] = u}
  <2>2. \A o \in S : f[o] \in Nat
    BY <2>1 DEF Charged
  <2>3. IsFiniteSet(S)
    BY FS_Subset DEF Books
  <2>4. SumFunctionOnSet(f, S) \in Nat
    <3> HIDE DEF f, S
    <3> QED
      BY <2>2, <2>3, SumNat
  <2> QED
    BY <2>1, <2>4 DEF Spent, Cents
<1> QED
  BY <1>2, <1>3

\* No step puts a seed in flight again.
LEMMA SeedsRunOut ==
  ASSUME Inv, [Next]_vars
  PROVE  \A m \in Seeds : bus'[m] \in Nat /\ bus'[m] <= bus[m]
<1>1. BusTypeOK /\ Seeds \subseteq Messages
  BY DEF Inv, TypeOK, Seeds, Messages, Announcements
<1>2. \A x \in Channels, o \in Orders : <<x, o>> \in Messages /\ <<x, o>> \notin Seeds
  BY DEF Messages, Seeds, Channels, OrderPlaced, StockReserved, StockRejected, PaymentCharged,
     PaymentDeclined, StockReleased
<1>3. \A fact \in SUBSET Channels, o \in Orders, m \in Seeds : m \notin fact \X {o}
  BY DEF Seeds, Channels, OrderPlaced, StockReserved, StockRejected, PaymentCharged,
     PaymentDeclined, StockReleased
<1> DEFINE Fewer == \A m \in Seeds : bus'[m] \in Nat /\ bus'[m] <= bus[m]
<1>4. ASSUME NEW o \in Orders, NEW fact \in SUBSET Channels, Publish(fact, o)
      PROVE  Fewer
  BY <1>1, <1>3, <1>4 DEF Publish, BusTypeOK
<1>5. ASSUME NEW o \in Orders, NEW x \in Channels, NEW fact \in SUBSET Channels,
             React(<<x, o>>, fact)
      PROVE  Fewer
  <2> DEFINE m == <<x, o>>
  <2>1. /\ bus' = [n \in Messages |-> IF n = m THEN bus[n] - 1
                                      ELSE IF n \in fact \X {o} THEN bus[n] + 1 ELSE bus[n]]
        /\ m \notin Seeds
    BY <1>2, <1>5 DEF React
  <2> HIDE DEF m
  <2> QED
    BY <1>1, <1>3, <2>1 DEF BusTypeOK
<1>6. ASSUME NEW n \in Messages, Consume(n)
      PROVE  Fewer
  BY <1>1, <1>6 DEF Consume, BusTypeOK, InFlight
<1>7. ASSUME NEW n \in Messages, Again(n)
      PROVE  Fewer
  <2>1. n \notin Seeds /\ bus' = [bus EXCEPT ![n] = @ + 1]
    BY <1>2, <1>7 DEF Again, Redeliver
  <2> QED
    BY <1>1, <2>1 DEF BusTypeOK
<1>8. UNCHANGED bus => Fewer
  BY <1>1 DEF BusTypeOK
<1> HIDE DEF Fewer
<1>9. /\ OrderPlaced \in SUBSET Channels /\ StockReserved \in SUBSET Channels
      /\ StockRejected \in SUBSET Channels /\ PaymentCharged \in SUBSET Channels
      /\ PaymentDeclined \in SUBSET Channels /\ StockReleased \in SUBSET Channels
  BY DEF Channels
<1>10. \A x \in Channels, o \in Orders : Consume(<<x, o>>) => Fewer
  BY <1>2, <1>6
<1>11. ASSUME NEW o \in Orders, OrdersStep(o)
       PROVE  Fewer
  <2>1. (\E u \in Users, c \in Carts : Place(o, u, c)) => Fewer
    BY <1>4, <1>9 DEF Place
  <2>2. \A x \in Channels : \A from, to : Track(x, o, from, to) => Fewer
    BY <1>10 DEF Track
  <2>3. Tracker(o) => Fewer
    BY <2>2 DEF Tracker, OnStockReserved, OnStockRejected, OnPaymentCharged, OnPaymentDeclined,
       OnStockReleased, Channels, StockReserved, StockRejected, PaymentCharged, PaymentDeclined,
       StockReleased
  <2> QED
    BY <1>11, <2>1, <2>3 DEF OrdersStep
<1>12. ASSUME NEW o \in Orders, InventoryStep(o)
       PROVE  Fewer
  <2>1. "placed/inventory" \in Channels /\ "declined/inventory" \in Channels
    BY DEF Channels, OrderPlaced, PaymentDeclined
  <2> QED
    BY <1>5, <1>9, <1>10, <1>12, <2>1 DEF InventoryStep, Reserve, Release
<1>13. ASSUME NEW o \in Orders, PaymentsStep(o)
       PROVE  Fewer
  <2>1. "placed/payments" \in Channels /\ "reserved/payments" \in Channels
    BY DEF Channels, OrderPlaced, StockReserved
  <2>2. JoinPlaced(o) \/ JoinReserved(o) => Fewer
    BY <1>10, <2>1 DEF JoinPlaced, JoinReserved
  <2>3. (\E t \in Tasks : Charge(t, o, buyer[o], cart[o].cents)) => Fewer
    BY <1>4, <1>9 DEF Charge
  <2> QED
    BY <1>13, <2>2, <2>3 DEF PaymentsStep
<1>14. ASSUME NEW o \in Orders, NotificationsStep(o)
       PROVE  Fewer
  <2>1. RecordPlaced(o) => Fewer
    BY <1>10 DEF RecordPlaced, Channels, OrderPlaced
  <2>2. HearCharged(o) \/ HearRejected(o) \/ HearDeclined(o) => Fewer
    BY <1>10 DEF HearCharged, HearRejected, HearDeclined, Channels, PaymentCharged,
       StockRejected, PaymentDeclined
  <2> QED
    BY <1>14, <2>1, <2>2 DEF NotificationsStep
<1>15. ASSUME \/ \E u \in Users : ProjectUser(u) \/ SeedWallet(u)
              \/ \E p \in Products : ProjectProduct(p) \/ SeedStock(p)
       PROVE  Fewer
  <2>1. /\ \A u \in Users : /\ <<"registered/orders", u>> \in Messages
                            /\ <<"registered/payments", u>> \in Messages
        /\ \A p \in Products : /\ <<"created/orders", p>> \in Messages
                               /\ <<"created/inventory", p>> \in Messages
    BY Zenon DEF Messages, Announcements
  <2> QED
    BY <1>6, <1>15, <2>1 DEF ProjectUser, SeedWallet, ProjectProduct, SeedStock,
       RecordUser, OpenWallet, RecordPrice, SeedProduct
<1>16. Fewer
  BY <1>7, <1>8, <1>11, <1>12, <1>13, <1>14, <1>15 DEF Next, vars, busVars
<1> QED
  BY <1>16 DEF Fewer

\* The sum of a shelf is what it was as long as the ledger's reservations and
\* the carts they are for are.
LEMMA KeptUndisturbed ==
  ASSUME Books, reservations' = reservations, \A o \in Reserved : cart'[o] = cart[o]
  PROVE  Reserved' = Reserved /\ \A p \in Products : Kept(p)' = Kept(p)
<1>1. Reserved' = Reserved
  BY DEF Reserved
<1>2. ASSUME NEW p \in Products PROVE Kept(p)' = Kept(p)
  <2> DEFINE f == [o \in Orders |-> cart[o].total[p]]
             g == [o \in Orders |-> cart'[o].total[p]]
  <2>1. \A o \in Reserved : f[o] = g[o]
    BY DEF Reserved
  <2>2. SumFunctionOnSet(f, Reserved) = SumFunctionOnSet(g, Reserved)
    <3> HIDE DEF f, g
    <3> QED
      BY <2>1, SumCongruent DEF Books
  <2> QED
    BY <1>1, <2>2 DEF Kept, Units
<1> QED
  BY <1>1, <1>2

LEMMA SpentUndisturbed ==
  ASSUME Books, charges' = charges,
         \A o \in Charged : cart'[o] = cart[o] /\ buyer'[o] = buyer[o]
  PROVE  Charged' = Charged /\ \A u \in Users : Spent(u)' = Spent(u)
<1>1. Charged' = Charged
  BY DEF Charged
<1>2. ASSUME NEW u \in Users PROVE Spent(u)' = Spent(u)
  <2> DEFINE f == [o \in Orders |-> cart[o].cents]
             g == [o \in Orders |-> cart'[o].cents]
             S == {o \in Charged : buyer[o] = u}
  <2>1. \A o \in S : f[o] = g[o]
    BY DEF Charged
  <2>2. IsFiniteSet(S)
    BY FS_Subset DEF Books
  <2>3. SumFunctionOnSet(f, S) = SumFunctionOnSet(g, S)
    <3> HIDE DEF f, g, S
    <3> QED
      BY <2>1, <2>2, SumCongruent
  <2>4. S = {o \in Charged' : buyer'[o] = u}
    BY <1>1
  <2> QED
    BY <2>3, <2>4 DEF Spent, Cents
<1> QED
  BY <1>1, <1>2

LEMMA ShelvesUndisturbed ==
  ASSUME Inv, Books, [Next]_vars, stock' = stock, reservations' = reservations,
         \A o \in Reserved : cart'[o] = cart[o]
  PROVE  IsFiniteSet(Reserved') /\ \A p \in Products : ShelfBooks(p)'
<1>1. Reserved' = Reserved /\ \A p \in Products : Kept(p)' = Kept(p)
  BY KeptUndisturbed
<1>2. ASSUME NEW p \in Products PROVE ShelfBooks(p)'
  <2> DEFINE m == <<"created/inventory", p>>
  <2>1. m \in Seeds
    BY DEF Seeds
  <2>2. bus'[m] \in Nat /\ bus'[m] <= bus[m] /\ bus[m] \in {0, 1}
    BY <2>1, SeedsRunOut DEF Books, ShelfBooks
  <2> QED
    BY <1>1, <2>2 DEF Books, ShelfBooks
<1> QED
  BY <1>1, <1>2 DEF Books

LEMMA WalletsUndisturbed ==
  ASSUME Inv, Books, [Next]_vars, wallets' = wallets, charges' = charges,
         \A o \in Charged : cart'[o] = cart[o] /\ buyer'[o] = buyer[o]
  PROVE  IsFiniteSet(Charged') /\ \A u \in Users : WalletBooks(u)'
<1>1. Charged' = Charged /\ \A u \in Users : Spent(u)' = Spent(u)
  BY SpentUndisturbed
<1>2. ASSUME NEW u \in Users PROVE WalletBooks(u)'
  <2> DEFINE m == <<"registered/payments", u>>
  <2>1. m \in Seeds
    BY DEF Seeds
  <2>2. bus'[m] \in Nat /\ bus'[m] <= bus[m] /\ bus[m] \in {0, 1}
    BY <2>1, SeedsRunOut DEF Books, WalletBooks
  <2> QED
    BY <1>1, <2>2 DEF Books, WalletBooks
<1> QED
  BY <1>1, <1>2 DEF Books

\* A reservation moves units from the shelves to the ledger, and a release
\* moves them back.
LEMMA ReservationBooks ==
  ASSUME Inv, Books, SingleLines, [Next]_vars, NEW o \in Orders, o \notin Reserved,
         InFlight(<<"placed/inventory", o>>), EnoughForEachLine(cart[o]),
         stock' = [p \in Products |-> (stock[p] - cart[o].total[p]) % UnitWord], cart' = cart,
         reservations' = [reservations EXCEPT ![o] = "Reserved"]
  PROVE  IsFiniteSet(Reserved') /\ \A p \in Products : ShelfBooks(p)'
<1>1. Reserved' = Reserved \cup {o}
  BY DEF Reserved, Inv, TypeOK, InventoryTypeOK
<1>2. cart[o] \in Carts /\ cart[o].total = cart[o].largest /\ cart[o].total \in [Products -> Nat]
  <2>1. status[o] # "Absent"
    BY DEF Inv, Agreement, MessagesAgree, Channels, OrderPlaced
  <2> QED
    BY <2>1 DEF Inv, TypeOK, OrdersTypeOK, SingleLines
<1>3. IsFiniteSet(Reserved')
  BY <1>1, FS_AddElement DEF Books
<1>4. ASSUME NEW p \in Products PROVE ShelfBooks(p)'
  <2> DEFINE m == <<"created/inventory", p>>
             f == [q \in Orders |-> cart[q].total[p]]
  <2>1. bus'[m] \in Nat /\ bus'[m] <= bus[m] /\ bus[m] \in {0, 1}
    BY SeedsRunOut DEF Books, ShelfBooks, Seeds
  <2>2. Kept(p)' = cart[o].total[p] + Kept(p)
    <3>1. \A q \in Reserved \cup {o} : f[q] \in Nat
      BY <1>2, SumTypes DEF Reserved
    <3>2. f[o] = cart[o].total[p]
      OBVIOUS
    <3>3. Kept(p) = SumFunctionOnSet(f, Reserved) /\ Kept(p)' = SumFunctionOnSet(f, Reserved \cup {o})
      BY <1>1 DEF Kept, Units
    <3> HIDE DEF f
    <3> QED
      BY <3>1, <3>2, <3>3, SumAdd DEF Books
  <2>3. stock'[p] = stock[p] - cart[o].total[p] /\ stock[p] \in Nat /\ cart[o].total[p] \in Nat
    <3>1. stock[p] \in 0..(UnitWord - 1) /\ cart[o].total[p] \in Nat /\ stock[p] >= cart[o].total[p]
      BY <1>2 DEF EnoughForEachLine, Inv, TypeOK, InventoryTypeOK
    <3>2. stock'[p] = (stock[p] - cart[o].total[p]) % UnitWord
      OBVIOUS
    <3> QED
      BY <3>1, <3>2
  <2>4. Kept(p) \in Nat
    BY SumTypes
  <2>5. stock'[p] + Kept(p)' = stock[p] + Kept(p)
    BY <2>2, <2>3, <2>4
  <2> QED
    BY <2>1, <2>5 DEF Books, ShelfBooks
<1> QED
  BY <1>3, <1>4

LEMMA ReleaseBooks ==
  ASSUME Inv, Books, [Next]_vars, NEW o \in Reserved,
         stock' = [p \in Products |-> (stock[p] + cart[o].total[p]) % UnitWord], cart' = cart,
         reservations' = [reservations EXCEPT ![o] = "AlreadyReleased"]
  PROVE  IsFiniteSet(Reserved') /\ \A p \in Products : ShelfBooks(p)'
<1>1. Reserved' = Reserved \ {o} /\ o \in Orders
  BY DEF Reserved, Inv, TypeOK, InventoryTypeOK
<1>2. IsFiniteSet(Reserved')
  BY <1>1, FS_RemoveElement DEF Books
<1>3. ASSUME NEW p \in Products PROVE ShelfBooks(p)'
  <2> DEFINE m == <<"created/inventory", p>>
             f == [q \in Orders |-> cart[q].total[p]]
  <2>1. bus'[m] \in Nat /\ bus'[m] <= bus[m] /\ bus[m] \in {0, 1}
    BY SeedsRunOut DEF Books, ShelfBooks, Seeds
  <2>2. Kept(p) = cart[o].total[p] + Kept(p)'
    <3>1. \A q \in Reserved : f[q] \in Nat
      BY SumTypes DEF Reserved
    <3>2. f[o] = cart[o].total[p]
      BY <1>1
    <3>3. Kept(p) = SumFunctionOnSet(f, Reserved) /\ Kept(p)' = SumFunctionOnSet(f, Reserved \ {o})
      BY <1>1 DEF Kept, Units
    <3> HIDE DEF f
    <3> QED
      BY <3>1, <3>2, <3>3, SumRemove DEF Books
  <2>3. Kept(p)' \in Nat
    <3>1. \A q \in Reserved \ {o} : f[q] \in Nat
      BY SumTypes DEF Reserved
    <3>2. IsFiniteSet(Reserved \ {o}) /\ Kept(p)' = SumFunctionOnSet(f, Reserved \ {o})
      BY <1>1, <1>2 DEF Kept, Units
    <3> HIDE DEF f
    <3> QED
      BY <3>1, <3>2, SumNat
  <2>4. stock[p] \in Nat /\ cart[o].total[p] \in Nat
    BY SumTypes DEF Inv, TypeOK, InventoryTypeOK
  <2>5. stock[p] + cart[o].total[p] <= StartingStock
    <3>1. stock[p] + Kept(p) = 0 \/ stock[p] + Kept(p) = StartingStock
      <4>1. ShelfBooks(p)
        BY DEF Books
      <4> QED
        BY <4>1 DEF ShelfBooks
    <3> QED
      BY <2>2, <2>3, <2>4, <3>1
  <2>6. stock'[p] = stock[p] + cart[o].total[p]
    <3>1. stock'[p] = (stock[p] + cart[o].total[p]) % UnitWord
      OBVIOUS
    <3> QED
      BY <2>4, <2>5, <3>1
  <2>7. stock'[p] + Kept(p)' = stock[p] + Kept(p)
    BY <2>2, <2>3, <2>4, <2>6
  <2> QED
    BY <2>1, <2>7 DEF Books, ShelfBooks
<1> QED
  BY <1>2, <1>3

\* The seed fills an empty shelf, and an empty wallet.
LEMMA SeedStockBooks ==
  ASSUME Inv, Books, [Next]_vars, NEW q \in Products, SeedStock(q)
  PROVE  IsFiniteSet(Reserved') /\ \A p \in Products : ShelfBooks(p)'
<1>1. /\ Consume(<<"created/inventory", q>>)
      /\ stock' = [stock EXCEPT ![q] = StartingStock]
      /\ reservations' = reservations /\ cart' = cart
  BY DEF SeedStock, SeedProduct, ordersVars
<1>2. Reserved' = Reserved /\ \A p \in Products : Kept(p)' = Kept(p)
  BY <1>1, KeptUndisturbed
<1>3. ASSUME NEW p \in Products PROVE ShelfBooks(p)'
  <2> DEFINE m == <<"created/inventory", p>>
  <2>1. bus'[m] \in Nat /\ bus'[m] <= bus[m] /\ bus[m] \in {0, 1} /\ m \in Messages
    BY SeedsRunOut DEF Books, ShelfBooks, Seeds, Messages, Announcements
  <2>2. stock[p] \in Nat /\ Kept(p) \in Nat /\ stock \in [Products -> 0..(UnitWord - 1)]
    BY SumTypes DEF Inv, TypeOK, InventoryTypeOK
  <2>3. CASE p # q
    BY <1>1, <1>2, <2>1, <2>2, <2>3 DEF Books, ShelfBooks
  <2>4. CASE p = q
    <3>1. bus[m] = 1 /\ bus'[m] = 0
      BY <1>1, <2>1, <2>4 DEF Consume, InFlight, Inv, TypeOK, BusTypeOK
    <3>2. Kept(p) = 0
      BY <2>2, <3>1 DEF Books, ShelfBooks
    <3>3. stock'[p] = StartingStock
      BY <1>1, <2>2, <2>4
    <3> QED
      BY <1>2, <3>1, <3>2, <3>3 DEF ShelfBooks
  <2> QED
    BY <2>3, <2>4
<1> QED
  BY <1>2, <1>3 DEF Books

LEMMA SeedWalletBooks ==
  ASSUME Inv, Books, [Next]_vars, NEW v \in Users, SeedWallet(v)
  PROVE  IsFiniteSet(Charged') /\ \A u \in Users : WalletBooks(u)'
<1>1. /\ Consume(<<"registered/payments", v>>)
      /\ wallets' = [wallets EXCEPT ![v] = StartingBalance]
      /\ charges' = charges /\ cart' = cart /\ buyer' = buyer
  BY DEF SeedWallet, OpenWallet, ordersVars
<1>2. Charged' = Charged /\ \A u \in Users : Spent(u)' = Spent(u)
  BY <1>1, SpentUndisturbed
<1>3. ASSUME NEW u \in Users PROVE WalletBooks(u)'
  <2> DEFINE m == <<"registered/payments", u>>
  <2>1. bus'[m] \in Nat /\ bus'[m] <= bus[m] /\ bus[m] \in {0, 1} /\ m \in Messages
    BY SeedsRunOut DEF Books, WalletBooks, Seeds, Messages, Announcements
  <2>2. wallets[u] \in Nat /\ Spent(u) \in Nat /\ wallets \in [Users -> Nat]
    BY SumTypes DEF Inv, TypeOK, PaymentsTypeOK
  <2>3. CASE u # v
    BY <1>1, <1>2, <2>1, <2>2, <2>3 DEF Books, WalletBooks
  <2>4. CASE u = v
    <3>1. bus[m] = 1 /\ bus'[m] = 0
      BY <1>1, <2>1, <2>4 DEF Consume, InFlight, Inv, TypeOK, BusTypeOK
    <3>2. Spent(u) = 0
      BY <2>2, <3>1 DEF Books, WalletBooks
    <3>3. wallets'[u] = StartingBalance
      BY <1>1, <2>2, <2>4
    <3> QED
      BY <1>2, <3>1, <3>2, <3>3 DEF WalletBooks
  <2> QED
    BY <2>3, <2>4
<1> QED
  BY <1>2, <1>3 DEF Books

\* A charge moves the price from the buyer's wallet to the ledger.
LEMMA ChargeBooks ==
  ASSUME Inv, Books, [Next]_vars, NEW o \in Orders, o \notin Charged,
         buyer[o] \in Users, cart[o] \in Carts, wallets[buyer[o]] >= cart[o].cents,
         wallets' = [wallets EXCEPT ![buyer[o]] = @ - cart[o].cents],
         charges' = [charges EXCEPT ![o] = "Charged"], buyer' = buyer, cart' = cart
  PROVE  IsFiniteSet(Charged') /\ \A u \in Users : WalletBooks(u)'
<1>1. Charged' = Charged \cup {o}
  BY DEF Charged, Inv, TypeOK, PaymentsTypeOK
<1>2. IsFiniteSet(Charged')
  BY <1>1, FS_AddElement DEF Books
<1>3. ASSUME NEW u \in Users PROVE WalletBooks(u)'
  <2> DEFINE m == <<"registered/payments", u>>
             f == [q \in Orders |-> cart[q].cents]
             S == {q \in Charged : buyer[q] = u}
  <2>1. bus'[m] \in Nat /\ bus'[m] <= bus[m] /\ bus[m] \in {0, 1}
    BY SeedsRunOut DEF Books, WalletBooks, Seeds
  <2>2. wallets \in [Users -> Nat] /\ Spent(u) \in Nat /\ cart[o].cents \in Nat
    BY SumTypes DEF Inv, TypeOK, PaymentsTypeOK
  <2>3. Spent(u) = SumFunctionOnSet(f, S)
    BY DEF Spent, Cents
  <2>4. CASE u # buyer[o]
    <3>1. {q \in Charged' : buyer'[q] = u} = S
      BY <1>1, <2>4
    <3>2. Spent(u)' = Spent(u)
      BY <3>1 DEF Spent, Cents
    <3> QED
      BY <2>1, <2>2, <2>4, <3>2 DEF Books, WalletBooks
  <2>5. CASE u = buyer[o]
    <3>1. {q \in Charged' : buyer'[q] = u} = S \cup {o}
      BY <1>1, <2>5
    <3>2. Spent(u)' = SumFunctionOnSet(f, S \cup {o})
      BY <3>1 DEF Spent, Cents
    <3>3. \A q \in S \cup {o} : f[q] \in Nat
      BY SumTypes DEF Charged
    <3>4. IsFiniteSet(S) /\ o \notin S /\ f[o] = cart[o].cents
      BY FS_Subset DEF Books
    <3>5. Spent(u)' = cart[o].cents + Spent(u)
      <4> HIDE DEF f, S
      <4> QED
        BY <2>3, <3>2, <3>3, <3>4, SumAdd
    <3>6. wallets'[u] = wallets[u] - cart[o].cents
      BY <2>2, <2>5
    <3>7. wallets'[u] + Spent(u)' = wallets[u] + Spent(u)
      BY <2>2, <3>5, <3>6
    <3> QED
      BY <2>1, <3>7 DEF Books, WalletBooks
  <2> QED
    BY <2>4, <2>5
<1> QED
  BY <1>2, <1>3

-----------------------------------------------------------------------------

THEOREM InitBooks == Init => Books
<1> SUFFICES ASSUME Init PROVE Books
  OBVIOUS
<1>1. Reserved = {} /\ Charged = {}
  BY DEF Init, InventoryInit, PaymentsInit, Reserved, Charged
<1>2. ASSUME NEW p \in Products PROVE ShelfBooks(p)
  <2>1. Kept(p) = 0 /\ stock[p] = 0
    BY <1>1, SumEmpty DEF Kept, Units, Init, InventoryInit
  <2>2. bus[<<"created/inventory", p>>] = 1
    BY DEF Init, BusInit, Messages, Announcements
  <2> QED
    BY <2>1, <2>2 DEF ShelfBooks
<1>3. ASSUME NEW u \in Users PROVE WalletBooks(u)
  <2>1. Spent(u) = 0 /\ wallets[u] = 0
    <3>1. {o \in Charged : buyer[o] = u} = {}
      BY <1>1
    <3> QED
      BY <3>1, SumEmpty DEF Spent, Cents, Init, PaymentsInit
  <2>2. bus[<<"registered/payments", u>>] = 1
    BY DEF Init, BusInit, Messages, Announcements
  <2> QED
    BY <2>1, <2>2 DEF WalletBooks
<1> QED
  BY <1>1, <1>2, <1>3, FS_EmptySet DEF Books

\* Orders whose goods or money are taken have been placed, so a new order does
\* not change their carts.
LEMMA OrdersBooks ==
  ASSUME Inv, Books, [Next]_vars, NEW o \in Orders, OrdersStep(o)
  PROVE  Books'
<1>1. UNCHANGED <<stock, reservations, wallets, charges>>
  BY DEF OrdersStep, inventoryVars, paymentsVars
<1>2. \A q \in Reserved \cup Charged : cart'[q] = cart[q] /\ buyer'[q] = buyer[q]
  <2>1. CASE UNCHANGED <<cart, buyer>>
    BY <2>1
  <2>2. CASE \E u \in Users, c \in Carts : Place(o, u, c)
    <3>1. o \notin Reserved \cup Charged
      BY <2>2 DEF Place, Inv, Agreement, LedgersAgree, Held, Reserved, Charged
    <3> QED
      BY <2>2, <3>1 DEF Place, Inv, TypeOK, OrdersTypeOK, Reserved, Charged
  <2> QED
    <3>1. Tracker(o) => UNCHANGED <<cart, buyer>>
      BY DEF Tracker, OnStockReserved, OnStockRejected, OnPaymentCharged, OnPaymentDeclined,
         OnStockReleased, Track
    <3> QED
      BY <2>1, <2>2, <3>1 DEF OrdersStep
<1> QED
  BY <1>1, <1>2, ShelvesUndisturbed, WalletsUndisturbed DEF Books

LEMMA InventoryBooks ==
  ASSUME Inv, Books, SingleLines, [Next]_vars, NEW o \in Orders, InventoryStep(o)
  PROVE  Books'
<1>1. UNCHANGED <<cart, buyer, wallets, charges>>
  BY DEF InventoryStep, ordersVars, paymentsVars
<1>2. IsFiniteSet(Reserved') /\ \A p \in Products : ShelfBooks(p)'
  <2>1. CASE UNCHANGED inventoryVars
    BY <1>1, <2>1, ShelvesUndisturbed DEF inventoryVars
  <2>2. CASE /\ reservations[o] = "None"
             /\ InFlight(<<"placed/inventory", o>>)
             /\ EnoughForEachLine(cart[o])
             /\ stock' = [p \in Products |-> (stock[p] - cart[o].total[p]) % UnitWord]
             /\ reservations' = [reservations EXCEPT ![o] = "Reserved"]
    <3>1. o \notin Reserved
      BY <2>2 DEF Reserved
    <3> QED
      BY <1>1, <2>2, <3>1, ReservationBooks
  <2>3. CASE /\ reservations[o] = "None"
             /\ reservations' = [reservations EXCEPT ![o] = "Rejected"]
             /\ stock' = stock
    <3>1. Reserved' = Reserved
      BY <2>3 DEF Reserved, Inv, TypeOK, InventoryTypeOK
    <3>2. \A p \in Products : Kept(p)' = Kept(p)
      BY <1>1, <3>1 DEF Kept, Units
    <3>3. ASSUME NEW p \in Products PROVE ShelfBooks(p)'
      <4> DEFINE m == <<"created/inventory", p>>
      <4>1. bus'[m] \in Nat /\ bus'[m] <= bus[m] /\ bus[m] \in {0, 1}
        BY SeedsRunOut DEF Books, ShelfBooks, Seeds
      <4> QED
        BY <2>3, <3>2, <4>1 DEF Books, ShelfBooks
    <3> QED
      BY <3>1, <3>3 DEF Books
  <2>4. CASE /\ reservations[o] = "Reserved"
             /\ stock' = [p \in Products |-> (stock[p] + cart[o].total[p]) % UnitWord]
             /\ reservations' = [reservations EXCEPT ![o] = "AlreadyReleased"]
    <3>1. o \in Reserved
      BY <2>4 DEF Reserved
    <3> QED
      BY <1>1, <2>4, <3>1, ReleaseBooks
  <2> QED
    BY <2>1, <2>2, <2>3, <2>4 DEF InventoryStep, Reserve, Release
<1> QED
  BY <1>1, <1>2, WalletsUndisturbed DEF Books

LEMMA PaymentsBooks ==
  ASSUME Inv, Books, [Next]_vars, NEW o \in Orders, PaymentsStep(o)
  PROVE  Books'
<1>1. UNCHANGED <<cart, buyer, stock, reservations>>
  BY DEF PaymentsStep, ordersVars, inventoryVars
<1>2. IsFiniteSet(Charged') /\ \A u \in Users : WalletBooks(u)'
  <2>1. CASE UNCHANGED <<wallets, charges>>
    BY <1>1, <2>1, WalletsUndisturbed
  <2>2. CASE /\ charges[o] = "None"
             /\ \E t \in Tasks : charging[t] = o
             /\ wallets[buyer[o]] >= cart[o].cents
             /\ wallets' = [wallets EXCEPT ![buyer[o]] = @ - cart[o].cents]
             /\ charges' = [charges EXCEPT ![o] = "Charged"]
    <3>1. o \notin Charged
      BY <2>2 DEF Charged
    <3>2. buyer[o] \in Users /\ cart[o] \in Carts
      BY <2>2 DEF Inv, TypeOK, OrdersTypeOK, Agreement, LedgersAgree, Held
    <3> QED
      BY <1>1, <2>2, <3>1, <3>2, ChargeBooks
  <2>3. CASE /\ charges[o] = "None"
             /\ charges' = [charges EXCEPT ![o] = "Declined"]
             /\ wallets' = wallets
    <3>1. Charged' = Charged
      BY <2>3 DEF Charged, Inv, TypeOK, PaymentsTypeOK
    <3>2. \A u \in Users : Spent(u)' = Spent(u)
      BY <1>1, <3>1 DEF Spent, Cents
    <3>3. ASSUME NEW u \in Users PROVE WalletBooks(u)'
      <4> DEFINE m == <<"registered/payments", u>>
      <4>1. bus'[m] \in Nat /\ bus'[m] <= bus[m] /\ bus[m] \in {0, 1}
        BY SeedsRunOut DEF Books, WalletBooks, Seeds
      <4> QED
        BY <2>3, <3>2, <4>1 DEF Books, WalletBooks
    <3> QED
      BY <3>1, <3>3 DEF Books
  <2> QED
    BY <2>1, <2>2, <2>3 DEF PaymentsStep, Charge, JoinPlaced, JoinReserved
<1> QED
  BY <1>1, <1>2, ShelvesUndisturbed DEF Books

THEOREM NextBooks == ASSUME SingleLines, Inv, Books, [Next]_vars PROVE Books'
<1>1. CASE UNCHANGED <<stock, reservations, wallets, charges, cart, buyer>>
  BY <1>1, ShelvesUndisturbed, WalletsUndisturbed DEF Books
<1>2. ASSUME NEW o \in Orders, OrdersStep(o) \/ InventoryStep(o) \/ PaymentsStep(o)
      PROVE  Books'
  BY <1>2, OrdersBooks, InventoryBooks, PaymentsBooks
<1>3. ASSUME NEW u \in Users, SeedWallet(u)
      PROVE  Books'
  <2>1. UNCHANGED <<stock, reservations, cart, buyer>>
    BY <1>3 DEF SeedWallet, ordersVars, inventoryVars
  <2> QED
    BY <1>3, <2>1, SeedWalletBooks, ShelvesUndisturbed DEF Books
<1>4. ASSUME NEW p \in Products, SeedStock(p)
      PROVE  Books'
  <2>1. UNCHANGED <<wallets, charges, cart, buyer>>
    BY <1>4 DEF SeedStock, ordersVars, paymentsVars
  <2> QED
    BY <1>4, <2>1, SeedStockBooks, WalletsUndisturbed DEF Books
<1>5. ASSUME \/ \E o \in Orders : NotificationsStep(o)
             \/ \E u \in Users : ProjectUser(u)
             \/ \E p \in Products : ProjectProduct(p)
             \/ \E m \in Messages : Again(m)
             \/ UNCHANGED vars
      PROVE  UNCHANGED <<stock, reservations, wallets, charges, cart, buyer>>
  BY <1>5 DEF NotificationsStep, ProjectUser, RecordUser, ProjectProduct, RecordPrice, Again,
     vars, ordersVars, inventoryVars, paymentsVars
<1> QED
  BY <1>1, <1>2, <1>3, <1>4, <1>5 DEF Next

\* Units and cents are neither created nor lost, whatever is repeated, never
\* handled or overtaken, as long as no cart names a product twice.
THEOREM BooksAlwaysBalance ==
  ASSUME SingleLines
  PROVE  Spec => []BooksBalance
<1>1. Inv /\ Books => BooksBalance
  <2>1. \A p \in Products : ShelfBooks(p) => stock[p] + Kept(p) \in {0, StartingStock}
    BY DEF ShelfBooks
  <2>2. \A u \in Users : WalletBooks(u) => wallets[u] + Spent(u) \in {0, StartingBalance}
    BY DEF WalletBooks
  <2>3. Inv => \A u \in Users : wallets[u] >= 0
    BY DEF Inv, TypeOK, PaymentsTypeOK
  <2> QED
    BY <2>1, <2>2, <2>3 DEF Books, BooksBalance, Kept, Spent
<1>2. Inv /\ Books /\ [Next]_vars => Books'
  BY NextBooks
<1> QED
  BY <1>1, <1>2, Invariance, InitBooks, PTL DEF Spec
=============================================================================
