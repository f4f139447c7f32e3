----------------------------- MODULE SagaProofs -----------------------------
(***************************************************************************)
(* Proofs about Saga, for any sets of orders, users, products and carts,   *)
(* any budgets of redeliveries and losses, and every subject redeliverable *)
(* unless a theorem says otherwise.                                        *)
(*                                                                         *)
(* The invariant Agreement says, order by order, what the orchestrator's   *)
(* status, the two ledgers, the messages in flight and the emails sent     *)
(* must have to do with each other.  A message in flight is only ever a    *)
(* hypothesis in it, so losing messages and delivering them again cannot   *)
(* break it: that is what the first lemmas reduce the bus to.              *)
(*                                                                         *)
(* Two more invariants rest on it: Once, which makes Saga an               *)
(* implementation of SagaContract, and Books, which makes BooksBalance     *)
(* true.                                                                   *)
(***************************************************************************)
EXTENDS Saga, Sums

\* What has been agreed between the services about order o.
Agreement(o) ==
  /\ \A s \in SagaSubjects : InFlight(<<s, o>>) => status[o] # "Absent"
  /\ status[o] = "Absent" => reservations[o] = "None"
  /\ status[o] \in {"Absent", "Pending"} =>
       charges[o] = "None" /\ ~InFlight(<<"ChargeRequested", o>>)
  /\ status[o] = "Pending" /\ InFlight(<<"StockReserved", o>>) => reservations[o] = "Reserved"
  /\ status[o] = "Pending" /\ InFlight(<<"StockReserveFailed", o>>) => reservations[o] = "Failed"
  /\ status[o] \in {"AwaitingPayment", "Confirmed"} => reservations[o] = "Reserved"
  /\ status[o] = "Confirmed" => charges[o] = "Charged"
  /\ status[o] = "Compensating" => charges[o] = "Failed"
  /\ status[o] = "Failed" =>
       \/ charges[o] = "Failed"
       \/ charges[o] = "None" /\ ~InFlight(<<"ChargeRequested", o>>)
  /\ InFlight(<<"PaymentCharged", o>>) => charges[o] = "Charged"
  /\ InFlight(<<"PaymentChargeFailed", o>>) => charges[o] = "Failed"
  /\ InFlight(<<"ReleaseStockRequested", o>>) =>
       status[o] \in {"Compensating", "Failed"} /\ charges[o] = "Failed"
  /\ InFlight(<<"OrderConfirmed", o>>) => status[o] = "Confirmed"
  /\ InFlight(<<"OrderFailed", o>>) => status[o] = "Failed"
  /\ <<o, "confirmed">> \in emails => status[o] = "Confirmed"
  /\ <<o, "failed">> \in emails => status[o] = "Failed"

Inv == TypeOK /\ \A o \in Orders : Agreement(o)

USE BusAssumption, InventoryAssumption, PaymentsAssumption, CartsAssumption

-----------------------------------------------------------------------------
(* The bus *)

\* Answering m by r puts nothing in flight but r.
LEMMA AnswerStep ==
  ASSUME NEW s \in SagaSubjects, NEW t \in SagaSubjects, s # t, NEW o \in Orders,
         BusTypeOK, Answer(<<s, o>>, <<t, o>>)
  PROVE  /\ BusTypeOK'
         /\ InFlight(<<s, o>>)
         /\ \A x \in SagaSubjects, q \in Orders :
              InFlight(<<x, q>>)' => InFlight(<<x, q>>) \/ (x = t /\ q = o)
<1>1. <<s, o>> \in Messages /\ <<t, o>> \in Messages
  BY DEF Messages
<1>2. \A x \in SagaSubjects, q \in Orders : <<x, q>> \in Messages
  BY DEF Messages
<1>3. bus' = [bus EXCEPT ![<<s, o>>] = @ - 1, ![<<t, o>>] = @ + 1] /\ bus[<<s, o>>] > 0
  BY DEF Answer, InFlight
<1>4. bus' \in [Messages -> Nat]
  BY <1>1, <1>3 DEF BusTypeOK
<1>5. \A m \in Messages : bus'[m] > 0 => bus[m] > 0 \/ m = <<t, o>>
  BY <1>1, <1>3 DEF BusTypeOK
<1> QED
  BY <1>2, <1>3, <1>4, <1>5 DEF BusTypeOK, InFlight, Answer

\* Consuming a message puts nothing in flight.
LEMMA ConsumeStep ==
  ASSUME NEW m \in Messages, BusTypeOK, Consume(m)
  PROVE  /\ BusTypeOK'
         /\ InFlight(m)
         /\ \A x \in SagaSubjects, q \in Orders : InFlight(<<x, q>>)' => InFlight(<<x, q>>)
<1>1. \A x \in SagaSubjects, q \in Orders : <<x, q>> \in Messages
  BY DEF Messages
<1>2. bus' = [bus EXCEPT ![m] = @ - 1] /\ bus[m] > 0
  BY DEF Consume, InFlight
<1>3. bus' \in [Messages -> Nat] /\ \A n \in Messages : bus'[n] > 0 => bus[n] > 0
  BY <1>2 DEF BusTypeOK
<1> QED
  BY <1>1, <1>2, <1>3 DEF BusTypeOK, InFlight, Consume

\* Publishing m puts nothing but m in flight.
LEMMA PublishStep ==
  ASSUME NEW s \in SagaSubjects, NEW o \in Orders, BusTypeOK, Publish(<<s, o>>)
  PROVE  /\ BusTypeOK'
         /\ \A x \in SagaSubjects, q \in Orders :
              InFlight(<<x, q>>)' => InFlight(<<x, q>>) \/ (x = s /\ q = o)
<1>1. \A x \in SagaSubjects, q \in Orders : <<x, q>> \in Messages
  BY DEF Messages
<1>2. bus' = [bus EXCEPT ![<<s, o>>] = @ + 1]
  BY DEF Publish
<1>3. bus' \in [Messages -> Nat] /\ \A n \in Messages : bus'[n] > 0 => bus[n] > 0 \/ n = <<s, o>>
  BY <1>1, <1>2 DEF BusTypeOK
<1> QED
  BY <1>1, <1>3 DEF BusTypeOK, InFlight, Publish

\* A fault of the network puts nothing in flight that was not.
LEMMA FaultStep ==
  ASSUME NEW m \in Messages, BusTypeOK, Redeliver(m) \/ Lose(m)
  PROVE  /\ BusTypeOK'
         /\ \A x \in SagaSubjects, q \in Orders : InFlight(<<x, q>>)' => InFlight(<<x, q>>)
<1>1. \A x \in SagaSubjects, q \in Orders : <<x, q>> \in Messages
  BY DEF Messages
<1>2. bus' \in [Messages -> Nat] /\ \A n \in Messages : bus'[n] > 0 => bus[n] > 0
  BY DEF BusTypeOK, Redeliver, Lose, InFlight
<1>3. redelivered' \in 0..MaxRedeliveries /\ lost' \in 0..MaxLosses
  BY DEF BusTypeOK, Redeliver, Lose
<1> QED
  BY <1>1, <1>2, <1>3 DEF BusTypeOK, InFlight

-----------------------------------------------------------------------------
(* The invariant *)

THEOREM InitInv == Init => Inv
<1> SUFFICES ASSUME Init PROVE Inv
  OBVIOUS
<1> USE DEF Init, BusInit, OrdersInit, InventoryInit, PaymentsInit
<1>1. BusTypeOK
  BY DEF BusTypeOK
<1>2. ASSUME NEW s \in SagaSubjects, NEW o \in Orders PROVE ~InFlight(<<s, o>>)
  <2>1. <<s, o>> \in Messages /\ <<s, o>> \notin Announcements
    BY DEF Messages, SagaSubjects, Announcements
  <2>2. bus[<<s, o>>] = 0
    BY <2>1
  <2> QED
    BY <2>2 DEF InFlight
<1>3. TypeOK
  <2>1. OrdersTypeOK /\ PaymentsTypeOK
    BY DEF OrdersTypeOK, PaymentsTypeOK, Statuses, Terminal
  <2>2. InventoryTypeOK
    <3>1. stuck \in BOOLEAN
      BY Zenon
    <3>2. reservations \in [Orders -> Outcomes]
      BY DEF Outcomes
    <3>3. stock \in [Products -> 0..(UnitWord - 1)]
      BY InventoryAssumption
    <3> QED
      BY <3>1, <3>2, <3>3 DEF InventoryTypeOK
  <2> QED
    BY <1>1, <2>1, <2>2 DEF TypeOK
<1>4. ASSUME NEW o \in Orders PROVE Agreement(o)
  BY <1>2 DEF Agreement, SagaSubjects
<1> QED
  BY <1>3, <1>4 DEF Inv

\* A step that answers, consumes or loses messages only about order o, and
\* changes nothing else that Agreement speaks of about the others, leaves the
\* agreement on the others alone.
LEMMA OthersUndisturbed ==
  ASSUME NEW q \in Orders, Agreement(q),
         status'[q] = status[q], reservations'[q] = reservations[q], charges'[q] = charges[q],
         <<q, "confirmed">> \in emails' => <<q, "confirmed">> \in emails,
         <<q, "failed">> \in emails' => <<q, "failed">> \in emails,
         \A x \in SagaSubjects : InFlight(<<x, q>>)' => InFlight(<<x, q>>)
  PROVE  Agreement(q)'
BY DEF Agreement, SagaSubjects

LEMMA PlaceInv ==
  ASSUME Inv, NEW o \in Orders, NEW u \in Users, NEW c \in Carts, Place(o, u, c),
         UNCHANGED <<inventoryVars, paymentsVars, emails>>
  PROVE  Inv'
<1> USE DEF Inv, TypeOK, inventoryVars, paymentsVars
<1>1. /\ BusTypeOK'
      /\ \A x \in SagaSubjects, q \in Orders :
           InFlight(<<x, q>>)' => InFlight(<<x, q>>) \/ (x = "ReserveStockRequested" /\ q = o)
  BY PublishStep DEF Place, SagaSubjects
<1>2. OrdersTypeOK'
  BY DEF Place, OrdersTypeOK, Statuses, Terminal
<1>3. TypeOK'
  BY <1>1, <1>2 DEF InventoryTypeOK, PaymentsTypeOK
<1>4. ASSUME NEW q \in Orders, q # o PROVE Agreement(q)'
  BY <1>1, <1>4, OthersUndisturbed DEF Place, OrdersTypeOK
<1>5. Agreement(o)'
  <2>1. status'[o] = "Pending" /\ status[o] = "Absent"
    BY DEF Place, OrdersTypeOK
  <2> QED
    BY <1>1, <2>1 DEF Agreement, SagaSubjects
<1> QED
  BY <1>3, <1>4, <1>5

\* The five reply handlers share this: a transition answered by a message, or
\* a reply that came too late.
LEMMA IgnoreInv ==
  ASSUME Inv, NEW o \in Orders, NEW s \in SagaSubjects, NEW x, Ignore(<<s, o>>, x),
         UNCHANGED <<inventoryVars, paymentsVars, emails>>
  PROVE  Inv'
<1> USE DEF Inv, TypeOK, inventoryVars, paymentsVars, ordersVars, Ignore
<1>1. <<s, o>> \in Messages
  BY DEF Messages
<1>2. /\ BusTypeOK'
      /\ \A y \in SagaSubjects, q \in Orders : InFlight(<<y, q>>)' => InFlight(<<y, q>>)
  BY <1>1, ConsumeStep
<1>3. TypeOK'
  BY <1>2 DEF OrdersTypeOK, InventoryTypeOK, PaymentsTypeOK
<1>4. ASSUME NEW q \in Orders PROVE Agreement(q)'
  BY <1>2, OthersUndisturbed
<1> QED
  BY <1>3, <1>4

LEMMA TransitionInv ==
  ASSUME Inv, NEW o \in Orders, NEW s \in SagaSubjects, NEW t \in SagaSubjects,
         NEW from \in Statuses, NEW to \in Statuses \ {"Absent"},
         Transition(o, from, to), Answer(<<s, o>>, <<t, o>>),
         \/ s = "StockReserved" /\ t = "ChargeRequested" /\ from = "Pending" /\ to = "AwaitingPayment"
         \/ s = "StockReserveFailed" /\ t = "OrderFailed" /\ from = "Pending" /\ to = "Failed"
         \/ s = "PaymentCharged" /\ t = "OrderConfirmed" /\ from = "AwaitingPayment" /\ to = "Confirmed"
         \/ s = "PaymentChargeFailed" /\ t = "ReleaseStockRequested" /\ from = "AwaitingPayment" /\ to = "Compensating"
         \/ s = "StockReleased" /\ t = "OrderFailed" /\ from = "Compensating" /\ to = "Failed",
         UNCHANGED <<inventoryVars, paymentsVars, emails>>
  PROVE  Inv'
<1> USE DEF Inv, TypeOK, inventoryVars, paymentsVars, Transition
<1>1. /\ BusTypeOK'
      /\ InFlight(<<s, o>>)
      /\ \A y \in SagaSubjects, q \in Orders :
           InFlight(<<y, q>>)' => InFlight(<<y, q>>) \/ (y = t /\ q = o)
  <2>1. s # t
    OBVIOUS
  <2> QED
    BY <2>1, AnswerStep
<1>2. OrdersTypeOK'
  BY <1>1 DEF OrdersTypeOK, Agreement
<1>3. TypeOK'
  BY <1>1, <1>2 DEF InventoryTypeOK, PaymentsTypeOK
<1>4. ASSUME NEW q \in Orders, q # o PROVE Agreement(q)'
  BY <1>1, <1>4, OthersUndisturbed DEF OrdersTypeOK
<1>5. Agreement(o)'
  <2>1. status[o] = from /\ status'[o] = to
    BY DEF OrdersTypeOK
  <2> QED
    BY <1>1, <2>1 DEF Agreement, SagaSubjects
<1> QED
  BY <1>3, <1>4, <1>5

THEOREM OrdersInv ==
  ASSUME Inv, NEW o \in Orders, OrdersStep(o)
  PROVE  Inv'
<1> USE DEF OrdersStep, SagaSubjects, Statuses, Terminal
<1>1. CASE \E u \in Users, c \in Carts : Place(o, u, c)
  BY <1>1, PlaceInv
<1>2. CASE OnReserveSucceeded(o)
  BY <1>2, TransitionInv, IgnoreInv DEF OnReserveSucceeded
<1>3. CASE OnReserveFailed(o)
  BY <1>3, TransitionInv, IgnoreInv DEF OnReserveFailed
<1>4. CASE OnChargeSucceeded(o)
  BY <1>4, TransitionInv, IgnoreInv DEF OnChargeSucceeded
<1>5. CASE OnChargeFailed(o)
  BY <1>5, TransitionInv, IgnoreInv DEF OnChargeFailed
<1>6. CASE OnReleaseSucceeded(o)
  BY <1>6, TransitionInv, IgnoreInv DEF OnReleaseSucceeded
<1> QED
  BY <1>1, <1>2, <1>3, <1>4, <1>5, <1>6

\* The arithmetic of Subtract and AddBack stays in the machine word.
LEMMA WordType ==
  ASSUME InventoryTypeOK, NEW c \in Carts
  PROVE  /\ Subtract(c) \in [Products -> 0..(UnitWord - 1)]
         /\ AddBack(c) \in [Products -> 0..(UnitWord - 1)]
<1>1. ASSUME NEW p \in Products
      PROVE  /\ (stock[p] - c.total[p]) % UnitWord \in 0..(UnitWord - 1)
             /\ (stock[p] + c.total[p]) % UnitWord \in 0..(UnitWord - 1)
  <2>1. c.total \in [Products -> Nat]
    OBVIOUS
  <2>2. stock[p] \in Nat /\ c.total[p] \in Nat
    BY <2>1 DEF InventoryTypeOK
  <2>3. UnitWord \in Nat /\ UnitWord > 0
    OBVIOUS
  <2> QED
    BY <2>2, <2>3
<1> QED
  BY <1>1 DEF Subtract, AddBack

THEOREM InventoryInv ==
  ASSUME Inv, NEW o \in Orders, InventoryStep(o)
  PROVE  Inv'
<1> USE DEF Inv, TypeOK, InventoryStep, ordersVars, paymentsVars, inventoryVars
<1> DEFINE NewlyFlying(t) == \A y \in SagaSubjects, q \in Orders :
             InFlight(<<y, q>>)' => InFlight(<<y, q>>) \/ (y = t /\ q = o)
<1>1. CASE Reserve(o, cart[o])
  <2>1. PICK t \in {"StockReserved", "StockReserveFailed"} :
          /\ Answer(<<"ReserveStockRequested", o>>, <<t, o>>)
          /\ reservations'[o] = IF t = "StockReserved" THEN "Reserved" ELSE "Failed"
    BY <1>1 DEF Reserve, InventoryTypeOK, Outcomes
  <2>2. BusTypeOK' /\ InFlight(<<"ReserveStockRequested", o>>) /\ NewlyFlying(t)
    <3>1. /\ "ReserveStockRequested" \in SagaSubjects /\ t \in SagaSubjects
          /\ t # "ReserveStockRequested"
      BY DEF SagaSubjects
    <3> QED
      BY <2>1, <3>1, AnswerStep
  <2>3. status[o] # "Absent" /\ cart[o] \in Carts
    BY <2>2 DEF Agreement, SagaSubjects, OrdersTypeOK
  <2>4. InventoryTypeOK'
    BY <1>1, <2>3, WordType DEF Reserve, InventoryTypeOK, Outcomes
  <2>5. TypeOK'
    BY <2>2, <2>4 DEF OrdersTypeOK, PaymentsTypeOK
  <2>6. ASSUME NEW q \in Orders, q # o PROVE Agreement(q)'
    BY <1>1, <2>2, <2>6, OthersUndisturbed DEF Reserve, InventoryTypeOK
  <2>7. reservations'[o] = reservations[o] \/ reservations[o] = "None"
    BY <1>1 DEF Reserve
  <2>8. Agreement(o)'
    BY <2>1, <2>2, <2>3, <2>7 DEF Agreement, SagaSubjects
  <2> QED
    BY <2>5, <2>6, <2>8
<1>2. CASE Release(o, cart[o])
  <2>1. BusTypeOK' /\ InFlight(<<"ReleaseStockRequested", o>>) /\ NewlyFlying("StockReleased")
    <3>1. "ReleaseStockRequested" \in SagaSubjects /\ "StockReleased" \in SagaSubjects
      BY DEF SagaSubjects
    <3>2. Answer(<<"ReleaseStockRequested", o>>, <<"StockReleased", o>>)
      BY <1>2 DEF Release
    <3> QED
      BY <3>1, <3>2, AnswerStep
  <2>2. status[o] \in {"Compensating", "Failed"} /\ cart[o] \in Carts
    BY <2>1 DEF Agreement, OrdersTypeOK
  <2>3. InventoryTypeOK'
    BY <1>2, <2>2, WordType DEF Release, InventoryTypeOK, Outcomes
  <2>4. TypeOK'
    BY <2>1, <2>3 DEF OrdersTypeOK, PaymentsTypeOK
  <2>5. ASSUME NEW q \in Orders, q # o PROVE Agreement(q)'
    BY <1>2, <2>1, <2>5, OthersUndisturbed DEF Release, InventoryTypeOK
  <2>6. Agreement(o)'
    BY <2>1, <2>2 DEF Agreement, SagaSubjects
  <2> QED
    BY <2>4, <2>5, <2>6
<1> QED
  BY <1>1, <1>2

THEOREM PaymentsInv ==
  ASSUME Inv, NEW o \in Orders, PaymentsStep(o)
  PROVE  Inv'
<1> USE DEF Inv, TypeOK, PaymentsStep, ordersVars, paymentsVars, inventoryVars
<1>1. PICK t \in {"PaymentCharged", "PaymentChargeFailed"} :
        /\ Answer(<<"ChargeRequested", o>>, <<t, o>>)
        /\ charges'[o] = IF t = "PaymentCharged" THEN "Charged" ELSE "Failed"
        /\ charges'[o] = charges[o] \/ charges[o] = "None"
        /\ \A q \in Orders \ {o} : charges'[q] = charges[q]
  BY DEF Charge, PaymentsTypeOK
<1>2. /\ BusTypeOK'
      /\ InFlight(<<"ChargeRequested", o>>)
      /\ \A y \in SagaSubjects, q \in Orders :
           InFlight(<<y, q>>)' => InFlight(<<y, q>>) \/ (y = t /\ q = o)
  <2>1. "ChargeRequested" \in SagaSubjects /\ t \in SagaSubjects /\ t # "ChargeRequested"
    BY DEF SagaSubjects
  <2> QED
    BY <1>1, <2>1, AnswerStep
<1>3. status[o] \notin {"Absent", "Pending"} /\ buyer[o] \in Users /\ cart[o].cents \in Nat
  <2>1. status[o] \notin {"Absent", "Pending"}
    BY <1>2 DEF Agreement
  <2> QED
    BY <2>1 DEF OrdersTypeOK
<1>4. PaymentsTypeOK'
  BY <1>3 DEF Charge, PaymentsTypeOK
<1>5. TypeOK'
  BY <1>2, <1>4 DEF OrdersTypeOK, InventoryTypeOK
<1>6. ASSUME NEW q \in Orders, q # o PROVE Agreement(q)'
  BY <1>1, <1>2, <1>6, OthersUndisturbed
<1>7. Agreement(o)'
  <2>1. status[o] \in Statuses /\ charges[o] \in {"None", "Charged", "Failed"}
    BY DEF OrdersTypeOK, PaymentsTypeOK
  <2> QED
    BY <1>1, <1>2, <1>3, <2>1 DEF Agreement, SagaSubjects, Statuses, Terminal
<1> QED
  BY <1>5, <1>6, <1>7

THEOREM NotificationsInv ==
  ASSUME Inv, NEW o \in Orders, NotificationsStep(o)
  PROVE  Inv'
<1> USE DEF Inv, TypeOK, NotificationsStep, Email, ordersVars, paymentsVars, inventoryVars
<1>1. PICK s \in {"OrderConfirmed", "OrderFailed"} :
        /\ Consume(<<s, o>>)
        /\ emails' = emails \cup {<<o, IF s = "OrderConfirmed" THEN "confirmed" ELSE "failed">>}
  OBVIOUS
<1>2. /\ BusTypeOK'
      /\ InFlight(<<s, o>>)
      /\ \A y \in SagaSubjects, q \in Orders : InFlight(<<y, q>>)' => InFlight(<<y, q>>)
  <2>1. <<s, o>> \in Messages
    BY DEF Messages, SagaSubjects
  <2> QED
    BY <1>1, <2>1, ConsumeStep
<1>3. TypeOK'
  BY <1>1, <1>2 DEF OrdersTypeOK, InventoryTypeOK, PaymentsTypeOK
<1>4. ASSUME NEW q \in Orders, q # o PROVE Agreement(q)'
  BY <1>1, <1>2, <1>4, OthersUndisturbed
<1>5. Agreement(o)'
  BY <1>1, <1>2 DEF Agreement, SagaSubjects
<1> QED
  BY <1>3, <1>4, <1>5

\* The announcements and the faults of the network touch nothing that
\* Agreement speaks of.
THEOREM EnvironmentInv ==
  ASSUME Inv,
         \/ \E u \in Users : ProjectUser(u) \/ SeedWallet(u)
         \/ \E p \in Products : ProjectProduct(p) \/ SeedStock(p)
         \/ \E m \in Messages : Faults(m)
         \/ InventoryDeadlock
  PROVE  Inv'
<1> USE DEF Inv, TypeOK, ordersVars, paymentsVars, inventoryVars
<1>1. /\ BusTypeOK'
      /\ \A y \in SagaSubjects, q \in Orders : InFlight(<<y, q>>)' => InFlight(<<y, q>>)
  <2>1. CASE \E m \in Messages : Faults(m)
    BY <2>1, FaultStep DEF Faults
  <2>2. CASE \E m \in Messages : Consume(m)
    BY <2>2, ConsumeStep
  <2>3. \A u \in Users : /\ <<"UserRegistered/orders", u>> \in Messages
                         /\ <<"UserRegistered/payments", u>> \in Messages
    BY DEF Messages, Announcements
  <2>4. \A p \in Products : /\ <<"ProductCreated/orders", p>> \in Messages
                            /\ <<"ProductCreated/inventory", p>> \in Messages
    BY DEF Messages, Announcements
  <2> QED
    <3>1. CASE InventoryDeadlock
      BY <3>1 DEF InventoryDeadlock, WaitForEachOther, busVars, BusTypeOK, InFlight
    <3> QED
      BY <2>1, <2>2, <2>3, <2>4, <3>1 DEF ProjectUser, SeedWallet, ProjectProduct, SeedStock,
         RecordUser, OpenWallet, RecordPrice, SeedProduct
<1>2. UNCHANGED <<status, buyer, cart, reservations, charges, emails>>
  BY DEF ProjectUser, SeedWallet, ProjectProduct, SeedStock, Faults, InventoryDeadlock,
     WaitForEachOther,
     RecordUser, OpenWallet, RecordPrice, SeedProduct
<1>3. /\ known' \subseteq Users \cup Products
      /\ stock' \in [Products -> 0..(UnitWord - 1)]
      /\ wallets' \in [Users -> Nat]
      /\ stuck' \in BOOLEAN
  BY DEF ProjectUser, SeedWallet, ProjectProduct, SeedStock, Faults, InventoryDeadlock,
     WaitForEachOther, OrdersTypeOK, RecordUser, OpenWallet, RecordPrice, SeedProduct, InventoryTypeOK, PaymentsTypeOK
<1>4. TypeOK'
  BY <1>1, <1>2, <1>3 DEF OrdersTypeOK, InventoryTypeOK, PaymentsTypeOK
<1>5. ASSUME NEW q \in Orders PROVE Agreement(q)'
  BY <1>1, <1>2, OthersUndisturbed
<1> QED
  BY <1>4, <1>5

LEMMA StutterInv == Inv /\ UNCHANGED vars => Inv'
BY DEF Inv, TypeOK, vars, ordersVars, inventoryVars, paymentsVars, busVars, BusTypeOK,
   OrdersTypeOK, InventoryTypeOK, PaymentsTypeOK, Agreement, InFlight

\* Inv is inductive.
THEOREM NextInv == Inv /\ [Next]_vars => Inv'
<1> SUFFICES ASSUME Inv, [Next]_vars PROVE Inv'
  OBVIOUS
<1>1. ASSUME NEW o \in Orders,
             OrdersStep(o) \/ InventoryStep(o) \/ PaymentsStep(o) \/ NotificationsStep(o)
      PROVE  Inv'
  BY <1>1, OrdersInv, InventoryInv, PaymentsInv, NotificationsInv
<1> QED
  BY <1>1, EnvironmentInv, StutterInv DEF Next

THEOREM Invariance == Spec => []Inv
BY InitInv, NextInv, PTL DEF Spec

-----------------------------------------------------------------------------
(* What follows from it *)

\* Every reachable state has the types TypeOK gives.
THEOREM TypeCorrect == Spec => []TypeOK
BY Invariance, PTL DEF Inv

\* A confirmed order holds its units and was paid for, whatever is lost,
\* repeated or overtaken.
THEOREM ConfirmedOrdersArePaidAndReserved == Spec => []ConfirmedIsPaidAndReserved
<1>1. Inv => ConfirmedIsPaidAndReserved
  BY DEF Inv, Agreement, ConfirmedIsPaidAndReserved
<1> QED
  BY <1>1, Invariance, PTL

\* A failed order was not charged and no message can still charge it.
THEOREM FailedOrdersAreNeverCharged == Spec => []FailedIsNeverCharged
<1>1. Inv => FailedIsNeverCharged
  BY DEF Inv, Agreement, FailedIsNeverCharged
<1> QED
  BY <1>1, Invariance, PTL

\* No buyer gets both emails.
THEOREM BuyersGetOneOutcome == Spec => []OneOutcomeEmail
<1>1. Inv => OneOutcomeEmail
  BY DEF Inv, Agreement, OneOutcomeEmail
<1> QED
  BY <1>1, Invariance, PTL

-----------------------------------------------------------------------------
(* The contract.  When the first command of a saga is not delivered twice, *)
(* Saga implements SagaContract: an order closes with stock and money or   *)
(* with neither.  Replies and all other commands may still be repeated,    *)
(* lost or overtaken.  (With the first command redelivered it does not:    *)
(* the run saga_reserve_again has the counterexample.)                     *)

\* How many copies of order o's reservation command are in flight.
Requests(o) == bus[<<"ReserveStockRequested", o>>]

\* The command is in flight at most once, and only before its answer; released
\* or never reserved stock stays so.
Once(o) ==
  /\ Requests(o) \in {0, 1}
  /\ Requests(o) = 1 => status[o] = "Pending" /\ reservations[o] = "None"
  /\ status[o] = "Failed" => reservations[o] # "Reserved"
  /\ InFlight(<<"StockReleased", o>>) => charges[o] = "Failed" /\ reservations[o] # "Reserved"

OnceInv == Inv /\ \A o \in Orders : Once(o)

-----------------------------------------------------------------------------
(* The count of reservation commands *)

LEMMA RequestsOfAnswer ==
  ASSUME NEW s \in SagaSubjects, NEW t \in SagaSubjects \ {"ReserveStockRequested"}, s # t,
         NEW o \in Orders, BusTypeOK, Answer(<<s, o>>, <<t, o>>)
  PROVE  \A q \in Orders :
           Requests(q)' = IF s = "ReserveStockRequested" /\ q = o THEN Requests(q) - 1
                                                                 ELSE Requests(q)
<1>1. \A x \in SagaSubjects, q \in Orders : <<x, q>> \in Messages
  BY DEF Messages
<1>2. bus' = [bus EXCEPT ![<<s, o>>] = @ - 1, ![<<t, o>>] = @ + 1]
  BY DEF Answer
<1>3. \A m \in Messages : m # <<t, o>> => bus'[m] = IF m = <<s, o>> THEN bus[m] - 1 ELSE bus[m]
  BY <1>1, <1>2 DEF BusTypeOK
<1>4. "ReserveStockRequested" \in SagaSubjects
  BY DEF SagaSubjects
<1> QED
  BY <1>1, <1>3, <1>4 DEF Requests

LEMMA RequestsOfConsume ==
  ASSUME NEW m \in Messages, BusTypeOK, Consume(m)
  PROVE  \A q \in Orders : Requests(q)' <= Requests(q) /\ Requests(q)' \in Nat
<1>1. \A q \in Orders : <<"ReserveStockRequested", q>> \in Messages
  BY DEF Messages, SagaSubjects
<1>2. bus' \in [Messages -> Nat] /\ \A n \in Messages : bus'[n] <= bus[n]
  BY DEF Consume, BusTypeOK, InFlight
<1> QED
  BY <1>1, <1>2 DEF Requests

LEMMA RequestsOfFault ==
  ASSUME NEW m \in Messages, BusTypeOK, Redeliver(m) \/ Lose(m),
         "ReserveStockRequested" \notin Redeliverable
  PROVE  \A q \in Orders : Requests(q)' <= Requests(q) /\ Requests(q)' \in Nat
<1>1. \A q \in Orders : <<"ReserveStockRequested", q>> \in Messages
  BY DEF Messages, SagaSubjects
<1>2. bus' \in [Messages -> Nat] /\ \A n \in Messages : bus'[n] <= bus[n] \/ (n = m /\ Redeliver(m))
  BY DEF Redeliver, Lose, BusTypeOK, InFlight
<1>3. Redeliver(m) => \A q \in Orders : m # <<"ReserveStockRequested", q>>
  BY DEF Redeliver
<1> QED
  BY <1>1, <1>2, <1>3 DEF Requests

LEMMA RequestsOfPublish ==
  ASSUME NEW o \in Orders, BusTypeOK, Publish(<<"ReserveStockRequested", o>>)
  PROVE  \A q \in Orders : Requests(q)' = IF q = o THEN Requests(q) + 1 ELSE Requests(q)
<1>1. \A q \in Orders : <<"ReserveStockRequested", q>> \in Messages
  BY DEF Messages, SagaSubjects
<1>2. \A n \in Messages : bus'[n] = IF n = <<"ReserveStockRequested", o>> THEN bus[n] + 1 ELSE bus[n]
  BY <1>1 DEF Publish, BusTypeOK
<1> QED
  BY <1>1, <1>2 DEF Requests

LEMMA RequestsType == Inv => \A q \in Orders : Requests(q) \in Nat
BY DEF Inv, TypeOK, BusTypeOK, Requests, Messages, SagaSubjects

\* Once is not disturbed by a step that leaves the order's status, ledger
\* entries and released stock alone and repeats no reservation command.
LEMMA OnceUndisturbed ==
  ASSUME NEW q \in Orders, Once(q),
         status'[q] = status[q], reservations'[q] = reservations[q],
         charges'[q] = charges[q] \/ charges[q] = "None",
         Requests(q)' \in Nat, Requests(q)' <= Requests(q),
         InFlight(<<"StockReleased", q>>)' => InFlight(<<"StockReleased", q>>)
  PROVE  Once(q)'
BY DEF Once

-----------------------------------------------------------------------------
(* Once is an invariant *)

THEOREM InitOnce == Init => OnceInv
<1> SUFFICES ASSUME Init PROVE OnceInv
  OBVIOUS
<1>1. Inv
  BY InitInv
<1>2. ASSUME NEW o \in Orders PROVE Once(o)
  <2>1. status[o] = "Absent"
    BY DEF Init, OrdersInit
  <2>2. \A s \in SagaSubjects : ~InFlight(<<s, o>>)
    BY <1>1, <2>1 DEF Inv, Agreement
  <2>3. Requests(o) = 0
    BY <1>1, <2>2, RequestsType DEF Requests, InFlight, SagaSubjects
  <2> QED
    BY <2>1, <2>2, <2>3 DEF Once, SagaSubjects
<1> QED
  BY <1>1, <1>2 DEF OnceInv

LEMMA TransitionOnce ==
  ASSUME OnceInv, NEW o \in Orders, NEW s \in SagaSubjects \ {"ReserveStockRequested"},
         NEW t \in SagaSubjects \ {"ReserveStockRequested", "StockReleased"}, s # t,
         NEW from \in Statuses, NEW to \in Statuses,
         Transition(o, from, to), Answer(<<s, o>>, <<t, o>>),
         from = "Pending" => reservations[o] # "None",
         to = "Failed" => reservations[o] # "Reserved",
         UNCHANGED <<inventoryVars, paymentsVars, emails>>
  PROVE  \A q \in Orders : Once(q)'
<1> USE DEF OnceInv, Inv, TypeOK, inventoryVars, paymentsVars, Transition
<1>1. \A q \in Orders : Requests(q)' = Requests(q)
  BY RequestsOfAnswer
<1>2. \A x \in SagaSubjects, q \in Orders :
        InFlight(<<x, q>>)' => InFlight(<<x, q>>) \/ (x = t /\ q = o)
  BY AnswerStep
<1>3. "StockReleased" \in SagaSubjects
  BY DEF SagaSubjects
<1>4. ASSUME NEW q \in Orders, q # o PROVE Once(q)'
  <2>1. Requests(q) \in Nat
    BY RequestsType
  <2>2. Requests(q)' = Requests(q) /\ (InFlight(<<"StockReleased", q>>)' => InFlight(<<"StockReleased", q>>))
    BY <1>1, <1>2, <1>3, <1>4
  <2>3. status'[q] = status[q] /\ reservations'[q] = reservations[q] /\ charges'[q] = charges[q]
    BY <1>4 DEF OrdersTypeOK
  <2>4. Requests(q)' \in Nat /\ Requests(q)' <= Requests(q)
    BY <2>1, <2>2
  <2> QED
    BY <2>2, <2>3, <2>4, OnceUndisturbed
<1>5. Once(o)'
  <2>1. status[o] = from /\ status'[o] = to
    BY DEF OrdersTypeOK
  <2> QED
    BY <1>1, <1>2, <1>3, <2>1 DEF Once
<1> QED
  BY <1>4, <1>5

LEMMA IgnoreOnce ==
  ASSUME OnceInv, NEW o \in Orders, NEW s \in SagaSubjects, NEW x, Ignore(<<s, o>>, x),
         UNCHANGED <<inventoryVars, paymentsVars, emails>>
  PROVE  \A q \in Orders : Once(q)'
<1>1. BusTypeOK /\ <<s, o>> \in Messages /\ Consume(<<s, o>>) /\ "StockReleased" \in SagaSubjects
  BY DEF OnceInv, Inv, TypeOK, Messages, Ignore, SagaSubjects
<1>2. \A q \in Orders : Requests(q)' <= Requests(q) /\ Requests(q)' \in Nat
  BY <1>1, RequestsOfConsume
<1>3. \A y \in SagaSubjects, q \in Orders : InFlight(<<y, q>>)' => InFlight(<<y, q>>)
  BY <1>1, ConsumeStep
<1> QED
  BY <1>1, <1>2, <1>3, OnceUndisturbed
     DEF OnceInv, Ignore, ordersVars, inventoryVars, paymentsVars

THEOREM OrdersOnce ==
  ASSUME OnceInv, NEW o \in Orders, OrdersStep(o)
  PROVE  \A q \in Orders : Once(q)'
<1> USE DEF OrdersStep, SagaSubjects, Statuses, Terminal
<1>1. CASE \E u \in Users, c \in Carts : Place(o, u, c)
  <2>1. PICK u \in Users, c \in Carts : Place(o, u, c)
    BY <1>1
  <2>2. BusTypeOK /\ Publish(<<"ReserveStockRequested", o>>) /\ status[o] = "Absent"
    BY <2>1 DEF OnceInv, Inv, TypeOK, Place
  <2>3. Agreement(o) /\ Once(o)
    BY DEF OnceInv, Inv
  <2>4. \A q \in Orders : Requests(q)' = IF q = o THEN Requests(q) + 1 ELSE Requests(q)
    BY <2>2, RequestsOfPublish
  <2>5. \A x \in SagaSubjects, q \in Orders :
          InFlight(<<x, q>>)' => InFlight(<<x, q>>) \/ (x = "ReserveStockRequested" /\ q = o)
    BY <2>2, PublishStep
  <2>6. /\ status' = [status EXCEPT ![o] = "Pending"]
        /\ status \in [Orders -> Statuses]
        /\ UNCHANGED <<reservations, charges>>
    BY <2>1 DEF Place, OnceInv, Inv, TypeOK, OrdersTypeOK, inventoryVars, paymentsVars
  <2>7. ASSUME NEW q \in Orders, q # o PROVE Once(q)'
    <3>1. Requests(q)' = Requests(q) /\ Requests(q) \in Nat
      BY <2>4, <2>7, RequestsType DEF OnceInv
    <3>2. InFlight(<<"StockReleased", q>>)' => InFlight(<<"StockReleased", q>>)
      BY <2>5, <2>7
    <3>3. status'[q] = status[q] /\ reservations'[q] = reservations[q] /\ charges'[q] = charges[q]
      BY <2>6, <2>7
    <3>4. Once(q)
      BY DEF OnceInv
    <3>5. Requests(q)' \in Nat /\ Requests(q)' <= Requests(q)
      BY <3>1
    <3> QED
      BY <3>2, <3>3, <3>4, <3>5, OnceUndisturbed
  <2>8. Once(o)'
    BY <2>2, <2>3, <2>4, <2>5, <2>6 DEF Once, Agreement
  <2> QED
    BY <2>7, <2>8
<1>2. CASE OnReserveSucceeded(o)
  <2>1. InFlight(<<"StockReserved", o>>) /\ status[o] = "Pending" => reservations[o] = "Reserved"
    BY DEF OnceInv, Inv, Agreement
  <2> QED
    BY <1>2, <2>1, TransitionOnce, IgnoreOnce DEF OnReserveSucceeded, Transition, Answer
<1>3. CASE OnReserveFailed(o)
  <2>1. InFlight(<<"StockReserveFailed", o>>) /\ status[o] = "Pending" => reservations[o] = "Failed"
    BY DEF OnceInv, Inv, Agreement
  <2> QED
    BY <1>3, <2>1, TransitionOnce, IgnoreOnce DEF OnReserveFailed, Transition, Answer
<1>4. CASE OnChargeSucceeded(o)
  BY <1>4, TransitionOnce, IgnoreOnce DEF OnChargeSucceeded
<1>5. CASE OnChargeFailed(o)
  BY <1>5, TransitionOnce, IgnoreOnce DEF OnChargeFailed
<1>6. CASE OnReleaseSucceeded(o)
  <2>1. InFlight(<<"StockReleased", o>>) => reservations[o] # "Reserved"
    BY DEF OnceInv, Once
  <2> QED
    BY <1>6, <2>1, TransitionOnce, IgnoreOnce DEF OnReleaseSucceeded, Answer
<1> QED
  BY <1>1, <1>2, <1>3, <1>4, <1>5, <1>6

\* What a step of inventory-service does to an order's ledger entry: it
\* reserves for a request that is then gone, or it releases.
LEMMA InventoryEffect ==
  ASSUME OnceInv, NEW o \in Orders, InventoryStep(o)
  PROVE  /\ \A q \in Orders : Requests(q)' \in Nat /\ Requests(q)' <= Requests(q)
         /\ \A q \in Orders \ {o} : reservations'[q] = reservations[q]
         /\ \A q \in Orders \ {o} : InFlight(<<"StockReleased", q>>)' => InFlight(<<"StockReleased", q>>)
         /\ UNCHANGED <<status, charges>>
         /\ \/ /\ status[o] = "Pending" /\ reservations[o] = "None"
               /\ reservations'[o] \in {"Reserved", "Failed"}
               /\ Requests(o)' = 0
               /\ InFlight(<<"StockReleased", o>>)' => InFlight(<<"StockReleased", o>>)
            \/ /\ charges[o] = "Failed" /\ status[o] \in {"Compensating", "Failed"}
               /\ reservations'[o] # "Reserved"
               /\ reservations'[o] = IF reservations[o] = "Reserved" THEN "None" ELSE reservations[o]
<1> USE DEF InventoryStep
<1>0. /\ BusTypeOK /\ InventoryTypeOK /\ Agreement(o) /\ Once(o)
      /\ \A q \in Orders : Requests(q) \in Nat
  BY RequestsType DEF OnceInv, Inv, TypeOK
<1>1. /\ "ReserveStockRequested" \in SagaSubjects /\ "ReleaseStockRequested" \in SagaSubjects
      /\ "StockReserved" \in SagaSubjects /\ "StockReserveFailed" \in SagaSubjects
      /\ "StockReleased" \in SagaSubjects
  BY DEF SagaSubjects
<1>2. UNCHANGED <<status, charges>>
  BY DEF ordersVars, paymentsVars
<1>3. CASE Reserve(o, cart[o])
  <2>1. PICK t \in {"StockReserved", "StockReserveFailed"} :
          Answer(<<"ReserveStockRequested", o>>, <<t, o>>)
    BY <1>3, <1>0 DEF Reserve, InventoryTypeOK, Outcomes
  <2>2. \A q \in Orders : Requests(q)' = IF q = o THEN Requests(q) - 1 ELSE Requests(q)
    BY <1>0, <1>1, <2>1, RequestsOfAnswer
  <2>3. InFlight(<<"ReserveStockRequested", o>>)
    BY <2>1 DEF Answer
  <2>4. Requests(o) = 1 /\ status[o] = "Pending" /\ reservations[o] = "None"
    BY <1>0, <2>3 DEF Once, Requests, InFlight
  <2>5. \A q \in Orders : InFlight(<<"StockReleased", q>>)' => InFlight(<<"StockReleased", q>>)
    <3>1. t \in SagaSubjects /\ t # "ReserveStockRequested" /\ t # "StockReleased"
      BY <1>1
    <3> QED
      BY <1>0, <1>1, <2>1, <3>1, AnswerStep
  <2>6. \A q \in Orders \ {o} : reservations'[q] = reservations[q]
    BY <1>3, <1>0 DEF Reserve, InventoryTypeOK, inventoryVars
  <2>7. reservations'[o] \in {"Reserved", "Failed"}
    BY <1>3, <1>0, <2>4 DEF Reserve, InventoryTypeOK
  <2>8. \A q \in Orders : Requests(q)' \in Nat /\ Requests(q)' <= Requests(q)
    BY <1>0, <2>2, <2>4
  <2>9. Requests(o)' = 0
    BY <2>2, <2>4
  <2> QED
    BY <1>2, <2>4, <2>5, <2>6, <2>7, <2>8, <2>9
<1>4. CASE Release(o, cart[o])
  <2>1. Answer(<<"ReleaseStockRequested", o>>, <<"StockReleased", o>>)
    BY <1>4 DEF Release
  <2>2. \A q \in Orders : Requests(q)' = Requests(q)
    BY <1>0, <1>1, <2>1, RequestsOfAnswer
  <2>3. InFlight(<<"ReleaseStockRequested", o>>)
    BY <2>1 DEF Answer
  <2>4. status[o] \in {"Compensating", "Failed"} /\ charges[o] = "Failed"
    BY <1>0, <2>3 DEF Agreement
  <2>5. \A q \in Orders \ {o} : InFlight(<<"StockReleased", q>>)' => InFlight(<<"StockReleased", q>>)
    <3>1. \A x \in SagaSubjects, q \in Orders :
            InFlight(<<x, q>>)' => InFlight(<<x, q>>) \/ (x = "StockReleased" /\ q = o)
      BY <1>0, <1>1, <2>1, AnswerStep
    <3> QED
      BY <1>1, <3>1
  <2>6. \A q \in Orders \ {o} : reservations'[q] = reservations[q]
    BY <1>4, <1>0 DEF Release, InventoryTypeOK, inventoryVars
  <2>7. reservations'[o] = IF reservations[o] = "Reserved" THEN "None" ELSE reservations[o]
    BY <1>4, <1>0 DEF Release, InventoryTypeOK, inventoryVars
  <2>8. \A q \in Orders : Requests(q)' \in Nat /\ Requests(q)' <= Requests(q)
    BY <1>0, <2>2
  <2> QED
    BY <1>2, <2>4, <2>5, <2>6, <2>7, <2>8
<1> QED
  BY <1>3, <1>4

THEOREM InventoryOnce ==
  ASSUME OnceInv, NEW o \in Orders, InventoryStep(o)
  PROVE  \A q \in Orders : Once(q)'
<1>1. ASSUME NEW q \in Orders, q # o PROVE Once(q)'
  <2>1. Once(q)
    BY DEF OnceInv
  <2>2. /\ Requests(q)' \in Nat /\ Requests(q)' <= Requests(q)
        /\ reservations'[q] = reservations[q]
        /\ InFlight(<<"StockReleased", q>>)' => InFlight(<<"StockReleased", q>>)
        /\ status' = status /\ charges' = charges
    BY <1>1, InventoryEffect
  <2> QED
    BY <2>1, <2>2, OnceUndisturbed
<1>2. Once(o)'
  <2>1. Once(o) /\ Agreement(o) /\ Requests(o) \in Nat
    BY RequestsType DEF OnceInv, Inv
  <2>2. Requests(o)' \in Nat /\ Requests(o)' <= Requests(o) /\ status' = status /\ charges' = charges
    BY InventoryEffect
  <2> QED
    BY <2>1, <2>2, InventoryEffect DEF Once, Agreement
<1> QED
  BY <1>1, <1>2

\* What a step of payments-service does: it charges, once, an order that
\* awaits payment, or refuses it, or repeats its answer.
LEMMA PaymentsEffect ==
  ASSUME OnceInv, NEW o \in Orders, PaymentsStep(o)
  PROVE  /\ \A q \in Orders : Requests(q)' = Requests(q)
         /\ \A q \in Orders \ {o} : charges'[q] = charges[q]
         /\ \A q \in Orders : InFlight(<<"StockReleased", q>>)' => InFlight(<<"StockReleased", q>>)
         /\ UNCHANGED <<status, reservations>>
         /\ \/ charges'[o] = charges[o]
            \/ /\ charges[o] = "None" /\ charges'[o] \in {"Charged", "Failed"}
               /\ status[o] = "AwaitingPayment" /\ reservations[o] = "Reserved"
<1> USE DEF PaymentsStep
<1>0. BusTypeOK /\ PaymentsTypeOK /\ Agreement(o) /\ status[o] \in Statuses
  BY DEF OnceInv, Inv, TypeOK, OrdersTypeOK
<1>1. PICK t \in {"PaymentCharged", "PaymentChargeFailed"} :
        Answer(<<"ChargeRequested", o>>, <<t, o>>)
  BY <1>0 DEF Charge, PaymentsTypeOK
<1>2. /\ "ChargeRequested" \in SagaSubjects /\ t \in SagaSubjects \ {"ReserveStockRequested", "StockReleased"}
      /\ t # "ChargeRequested" /\ "StockReleased" \in SagaSubjects
  BY DEF SagaSubjects
<1>3. \A q \in Orders : Requests(q)' = Requests(q)
  BY <1>0, <1>1, <1>2, RequestsOfAnswer
<1>4. \A q \in Orders : InFlight(<<"StockReleased", q>>)' => InFlight(<<"StockReleased", q>>)
  BY <1>0, <1>1, <1>2, AnswerStep
<1>5. InFlight(<<"ChargeRequested", o>>)
  BY <1>1 DEF Answer
<1>6. charges[o] = "None" => status[o] = "AwaitingPayment" /\ reservations[o] = "Reserved"
  BY <1>0, <1>5 DEF Agreement, Statuses, Terminal
<1>7. /\ \A q \in Orders \ {o} : charges'[q] = charges[q]
      /\ charges'[o] = charges[o] \/ (charges[o] = "None" /\ charges'[o] \in {"Charged", "Failed"})
  BY <1>0 DEF Charge, PaymentsTypeOK, paymentsVars
<1> QED
  BY <1>3, <1>4, <1>6, <1>7 DEF ordersVars, inventoryVars

THEOREM PaymentsOnce ==
  ASSUME OnceInv, NEW o \in Orders, PaymentsStep(o)
  PROVE  \A q \in Orders : Once(q)'
<1> SUFFICES ASSUME NEW q \in Orders PROVE Once(q)'
  OBVIOUS
<1>1. Once(q) /\ Requests(q) \in Nat
  BY RequestsType DEF OnceInv
<1>2. /\ Requests(q)' = Requests(q)
      /\ InFlight(<<"StockReleased", q>>)' => InFlight(<<"StockReleased", q>>)
      /\ status' = status /\ reservations' = reservations
      /\ charges'[q] = charges[q] \/ charges[q] = "None"
  BY PaymentsEffect
<1>3. Requests(q)' \in Nat /\ Requests(q)' <= Requests(q)
  BY <1>1, <1>2
<1> QED
  BY <1>1, <1>2, <1>3, OnceUndisturbed

\* Everything else consumes messages or meets faults, and changes none of
\* status, reservations and charges.
THEOREM OtherStepsOnce ==
  ASSUME OnceInv, "ReserveStockRequested" \notin Redeliverable,
         \/ \E o \in Orders : NotificationsStep(o)
         \/ \E u \in Users : ProjectUser(u) \/ SeedWallet(u)
         \/ \E p \in Products : ProjectProduct(p) \/ SeedStock(p)
         \/ \E m \in Messages : Faults(m)
         \/ InventoryDeadlock
         \/ UNCHANGED vars
  PROVE  /\ \A q \in Orders : Once(q)'
         /\ UNCHANGED <<status, reservations, charges>>
<1>0. BusTypeOK /\ "StockReleased" \in SagaSubjects /\ \A q \in Orders : Requests(q) \in Nat
  BY RequestsType DEF OnceInv, Inv, TypeOK, SagaSubjects
<1>1. UNCHANGED <<status, reservations, charges>>
  BY DEF NotificationsStep, ProjectUser, SeedWallet, ProjectProduct, SeedStock, Faults,
     InventoryDeadlock, WaitForEachOther, RecordUser, OpenWallet, RecordPrice, SeedProduct, vars,
     ordersVars, inventoryVars, paymentsVars
<1>2. \/ \E m \in Messages : Consume(m)
      \/ \E m \in Messages : Redeliver(m) \/ Lose(m)
      \/ UNCHANGED bus
  <2>1. \A o \in Orders : /\ <<"OrderConfirmed", o>> \in Messages
                          /\ <<"OrderFailed", o>> \in Messages
    BY DEF Messages, SagaSubjects
  <2>2. \A u \in Users : /\ <<"UserRegistered/orders", u>> \in Messages
                         /\ <<"UserRegistered/payments", u>> \in Messages
    BY DEF Messages, Announcements
  <2>3. \A p \in Products : /\ <<"ProductCreated/orders", p>> \in Messages
                            /\ <<"ProductCreated/inventory", p>> \in Messages
    BY DEF Messages, Announcements
  <2> QED
    BY <2>1, <2>2, <2>3 DEF NotificationsStep, Email, ProjectUser, SeedWallet, ProjectProduct,
       SeedStock, Faults, InventoryDeadlock, WaitForEachOther, RecordUser, OpenWallet, RecordPrice,
       SeedProduct, vars, busVars
<1>3. \A q \in Orders : /\ Requests(q)' \in Nat /\ Requests(q)' <= Requests(q)
                        /\ InFlight(<<"StockReleased", q>>)' => InFlight(<<"StockReleased", q>>)
  <2>1. CASE \E m \in Messages : Consume(m)
    BY <1>0, <2>1, RequestsOfConsume, ConsumeStep
  <2>2. CASE \E m \in Messages : Redeliver(m) \/ Lose(m)
    <3>1. PICK m \in Messages : Redeliver(m) \/ Lose(m)
      BY <2>2
    <3>2. \A q \in Orders : Requests(q)' \in Nat /\ Requests(q)' <= Requests(q)
      BY <1>0, <3>1, RequestsOfFault
    <3> QED
      BY <1>0, <3>1, <3>2, FaultStep
  <2>3. CASE UNCHANGED bus
    <3>1. \A q \in Orders : Requests(q)' = Requests(q)
      BY <2>3 DEF Requests
    <3>2. \A q \in Orders : InFlight(<<"StockReleased", q>>)' <=> InFlight(<<"StockReleased", q>>)
      BY <2>3 DEF InFlight
    <3>3. ASSUME NEW q \in Orders
          PROVE  Requests(q)' \in Nat /\ Requests(q)' <= Requests(q)
      <4>1. Requests(q) \in Nat /\ Requests(q)' = Requests(q)
        BY <1>0, <3>1
      <4> QED
        BY <4>1
    <3> QED
      BY <3>2, <3>3
  <2> QED
    BY <1>2, <2>1, <2>2, <2>3
<1> QED
  BY <1>1, <1>3, OnceUndisturbed DEF OnceInv

THEOREM NextOnce ==
  ASSUME OnceInv, [Next]_vars, "ReserveStockRequested" \notin Redeliverable
  PROVE  OnceInv'
<1>1. Inv'
  BY NextInv DEF OnceInv
<1>2. \A q \in Orders : Once(q)'
  BY OrdersOnce, InventoryOnce, PaymentsOnce, OtherStepsOnce DEF Next
<1> QED
  BY <1>1, <1>2 DEF OnceInv

THEOREM OnceInvariance ==
  ASSUME "ReserveStockRequested" \notin Redeliverable PROVE Spec => []OnceInv
BY InitOnce, NextOnce, PTL DEF Spec

\* A failed order holds no stock.
THEOREM FailedOrdersHoldNoStock ==
  ASSUME "ReserveStockRequested" \notin Redeliverable PROVE Spec => []FailedHoldsNoStock
<1>1. OnceInv => FailedHoldsNoStock
  BY DEF OnceInv, Once, FailedHoldsNoStock
<1> QED
  BY <1>1, OnceInvariance, PTL

-----------------------------------------------------------------------------
(* Refinement *)

LEMMA InitRefines == Init => Contract!Init
BY DEF Init, OrdersInit, InventoryInit, PaymentsInit, Contract!Init, Reserved, Charged

\* A step of the orchestrator accepts, confirms or fails an order, or moves an
\* open one along, which the contract does not see.
LEMMA OrdersRefines ==
  ASSUME OnceInv, NEW o \in Orders, OrdersStep(o)
  PROVE  [Contract!Next]_(Contract!vars)
<1>1. status \in [Orders -> Statuses] /\ UNCHANGED <<reservations, charges>>
  BY DEF OnceInv, Inv, TypeOK, OrdersTypeOK, OrdersStep, inventoryVars, paymentsVars
<1>2. Reserved' = Reserved /\ Charged' = Charged
  BY <1>1 DEF Reserved, Charged
<1>3. Agreement(o) /\ Once(o)
  BY DEF OnceInv, Inv
<1>4. PICK new \in Statuses :
        /\ status' = [status EXCEPT ![o] = new]
        /\ \/ status[o] = "Absent" /\ new = "Pending"
           \/ status[o] = "Pending" /\ new = "AwaitingPayment"
           \/ status[o] = "Pending" /\ new = "Failed" /\ InFlight(<<"StockReserveFailed", o>>)
           \/ status[o] = "AwaitingPayment" /\ new = "Confirmed" /\ InFlight(<<"PaymentCharged", o>>)
           \/ status[o] = "AwaitingPayment" /\ new = "Compensating"
           \/ status[o] = "Compensating" /\ new = "Failed" /\ InFlight(<<"StockReleased", o>>)
           \/ new = status[o]
  <2>1. CASE UNCHANGED status
    BY <1>1, <2>1
  <2>2. CASE \E u \in Users, c \in Carts : Place(o, u, c)
    BY <2>2 DEF Place, Statuses
  <2>3. CASE Transition(o, "Pending", "AwaitingPayment")
    BY <2>3 DEF Transition, Statuses
  <2>4. CASE Transition(o, "Pending", "Failed") /\ InFlight(<<"StockReserveFailed", o>>)
    BY <2>4 DEF Transition, Statuses, Terminal
  <2>5. CASE Transition(o, "AwaitingPayment", "Confirmed") /\ InFlight(<<"PaymentCharged", o>>)
    BY <2>5 DEF Transition, Statuses, Terminal
  <2>6. CASE Transition(o, "AwaitingPayment", "Compensating")
    BY <2>6 DEF Transition, Statuses
  <2>7. CASE Transition(o, "Compensating", "Failed") /\ InFlight(<<"StockReleased", o>>)
    BY <2>7 DEF Transition, Statuses, Terminal
  <2> QED
    BY <2>1, <2>2, <2>3, <2>4, <2>5, <2>6, <2>7
       DEF OrdersStep, OnReserveSucceeded, OnReserveFailed, OnChargeSucceeded, OnChargeFailed,
           OnReleaseSucceeded, Ignore, ordersVars, Answer
<1>5. CASE status[o] = "Absent" /\ new = "Pending"
  <2>1. Contract!Accept(o)
    BY <1>1, <1>2, <1>4, <1>5 DEF Contract!Accept
  <2> QED
    BY <2>1 DEF Contract!Next
<1>6. CASE status[o] = "AwaitingPayment" /\ new = "Confirmed"
  <2>1. o \in Reserved /\ o \in Charged
    BY <1>3, <1>4, <1>6 DEF Agreement, Reserved, Charged
  <2>2. Contract!Confirm(o)
    BY <1>1, <1>2, <1>4, <1>6, <2>1 DEF Contract!Confirm
  <2> QED
    BY <2>2 DEF Contract!Next
<1>7. CASE status[o] \in {"Pending", "Compensating"} /\ new = "Failed"
  <2>1. o \notin Reserved /\ o \notin Charged
    BY <1>3, <1>4, <1>7 DEF Agreement, Once, Reserved, Charged
  <2>2. Contract!Fail(o)
    BY <1>1, <1>2, <1>4, <1>7, <2>1 DEF Contract!Fail
  <2> QED
    BY <2>2 DEF Contract!Next
<1>8. CASE \/ status[o] = "Pending" /\ new = "AwaitingPayment"
           \/ status[o] = "AwaitingPayment" /\ new = "Compensating"
           \/ new = status[o]
  BY <1>1, <1>2, <1>4, <1>8 DEF Contract!vars
<1> QED
  BY <1>4, <1>5, <1>6, <1>7, <1>8

\* A step of inventory holds, gives back, or is not seen.
LEMMA InventoryRefines ==
  ASSUME OnceInv, NEW o \in Orders, InventoryStep(o)
  PROVE  [Contract!Next]_(Contract!vars)
<1>1. /\ UNCHANGED <<status, charges>>
      /\ \A q \in Orders \ {o} : reservations'[q] = reservations[q]
  BY InventoryEffect
<1>2. Charged' = Charged
  BY <1>1 DEF Charged
<1>3. Agreement(o)
  BY DEF OnceInv, Inv
<1>4. CASE o \notin Reserved /\ o \in Reserved'
  <2>1. status[o] = "Pending" /\ charges[o] = "None"
    BY <1>3, <1>4, InventoryEffect DEF Reserved, Agreement
  <2>2. Reserved' = Reserved \cup {o}
    BY <1>1, <1>4 DEF Reserved
  <2>3. Contract!Hold(o)
    BY <1>1, <1>2, <1>4, <2>1, <2>2 DEF Contract!Hold
  <2> QED
    BY <2>3 DEF Contract!Next
<1>5. CASE o \in Reserved /\ o \notin Reserved'
  <2>1. status[o] \in {"Compensating", "Failed"} /\ charges[o] = "Failed"
    BY <1>5, InventoryEffect DEF Reserved
  <2>2. status[o] = "Compensating" /\ o \notin Charged
    BY <1>5, <2>1 DEF OnceInv, Once, Reserved, Charged
  <2>3. Reserved' = Reserved \ {o}
    BY <1>1, <1>5 DEF Reserved
  <2>4. Contract!GiveBack(o)
    BY <1>1, <1>2, <1>5, <2>1, <2>2, <2>3 DEF Contract!GiveBack
  <2> QED
    BY <2>4 DEF Contract!Next
<1>6. CASE o \in Reserved <=> o \in Reserved'
  <2>1. Reserved' = Reserved
    BY <1>1, <1>6 DEF Reserved
  <2> QED
    BY <1>1, <1>2, <2>1 DEF Contract!vars
<1> QED
  BY <1>4, <1>5, <1>6

\* A step of payments pays, or is not seen.
LEMMA PaymentsRefines ==
  ASSUME OnceInv, NEW o \in Orders, PaymentsStep(o)
  PROVE  [Contract!Next]_(Contract!vars)
<1>1. /\ UNCHANGED <<status, reservations>>
      /\ \A q \in Orders \ {o} : charges'[q] = charges[q]
      /\ \/ charges'[o] = charges[o]
         \/ /\ charges[o] = "None" /\ charges'[o] \in {"Charged", "Failed"}
            /\ status[o] = "AwaitingPayment" /\ reservations[o] = "Reserved"
  BY PaymentsEffect
<1>2. Reserved' = Reserved
  BY <1>1 DEF Reserved
<1> DEFINE refused == {q \in Orders : charges[q] = "Failed"}
<1>3. CASE charges[o] = "None" /\ charges'[o] = "Charged"
  <2>1. Charged' = Charged \cup {o} /\ refused' = refused
    BY <1>1, <1>3 DEF Charged
  <2>2. o \in Reserved \ Charged
    BY <1>1, <1>3 DEF Reserved, Charged
  <2>3. Contract!Pay(o)
    BY <1>1, <1>2, <1>3, <2>1, <2>2 DEF Contract!Pay
  <2> QED
    BY <2>3 DEF Contract!Next
<1>4. CASE charges[o] = "None" /\ charges'[o] = "Failed"
  <2>1. Charged' = Charged /\ refused' = refused \cup {o}
    BY <1>1, <1>4 DEF Charged
  <2>2. o \in Reserved
    BY <1>1, <1>4 DEF Reserved
  <2> QED
    BY <1>1, <1>2, <2>1, <2>2 DEF Contract!vars
<1>5. CASE charges'[o] = charges[o]
  <2>1. Charged' = Charged /\ refused' = refused
    BY <1>1, <1>5 DEF Charged
  <2> QED
    BY <1>1, <1>2, <2>1 DEF Contract!vars
<1> QED
  BY <1>1, <1>3, <1>4, <1>5

LEMMA NextRefines ==
  ASSUME OnceInv, [Next]_vars, "ReserveStockRequested" \notin Redeliverable
  PROVE  [Contract!Next]_(Contract!vars)
<1>1. CASE UNCHANGED <<status, reservations, charges>>
  BY <1>1 DEF Contract!vars, Reserved, Charged
<1> QED
  BY <1>1, OrdersRefines, InventoryRefines, PaymentsRefines, OtherStepsOnce DEF Next

\* The saga implements the transaction it promises.
THEOREM SagaImplementsContract ==
  ASSUME "ReserveStockRequested" \notin Redeliverable PROVE Spec => ImplementsContract
BY InitRefines, NextRefines, OnceInvariance, PTL DEF Spec, ImplementsContract, Contract!Spec

-----------------------------------------------------------------------------
(* The books *)

\* The announcements that fill shelves and wallets, heard once; and a product
\* on one line of a cart only, so that the check of reserve sees all of it.
Seeds == ({"ProductCreated/inventory"} \X Products) \cup ({"UserRegistered/payments"} \X Users)

SeededOnce  == \A m \in Seeds : m[1] \notin Redeliverable
SingleLines == \A c \in Carts : c.total = c.largest

\* A count is zero until its seed was consumed, and the balance of the seed
\* and what the ledger took out after.
ShelfBooks(p) ==
  /\ bus[<<"ProductCreated/inventory", p>>] \in {0, 1}
  /\ stock[p] + Held(p) \in
       IF bus[<<"ProductCreated/inventory", p>>] = 1 THEN {0} ELSE {0, StartingStock}

WalletBooks(u) ==
  /\ bus[<<"UserRegistered/payments", u>>] \in {0, 1}
  /\ wallets[u] + Spent(u) \in
       IF bus[<<"UserRegistered/payments", u>>] = 1 THEN {0} ELSE {0, StartingBalance}

Books == /\ IsFiniteSet(Reserved) /\ IsFiniteSet(Charged)
         /\ \A p \in Products : ShelfBooks(p)
         /\ \A u \in Users : WalletBooks(u)

\* The two sums range over naturals.
LEMMA SumTypes ==
  ASSUME Inv, Books
  PROVE  /\ \A p \in Products : /\ \A o \in Reserved : cart[o].total[p] \in Nat
                                /\ Held(p) \in Nat
         /\ \A u \in Users : /\ \A o \in Charged : cart[o].cents \in Nat
                             /\ Spent(u) \in Nat
<1>1. \A o \in Reserved \cup Charged : o \in Orders /\ cart[o] \in Carts
  BY DEF Inv, TypeOK, OrdersTypeOK, Agreement, Reserved, Charged
<1>2. ASSUME NEW p \in Products
      PROVE  (\A o \in Reserved : cart[o].total[p] \in Nat) /\ Held(p) \in Nat
  <2>1. \A o \in Reserved : cart[o].total \in [Products -> Nat]
    BY <1>1
  <2>2. \A o \in Reserved : cart[o].total[p] \in Nat
    BY <2>1
  <2> DEFINE f == [o \in Orders |-> cart[o].total[p]]
  <2>3. \A o \in Reserved : f[o] \in Nat
    BY <2>2 DEF Reserved
  <2>4. SumFunctionOnSet(f, Reserved) \in Nat
    <3> HIDE DEF f
    <3> QED
      BY <2>3, SumNat DEF Books
  <2> QED
    BY <2>2, <2>4 DEF Held
<1>3. ASSUME NEW u \in Users
      PROVE  (\A o \in Charged : cart[o].cents \in Nat) /\ Spent(u) \in Nat
  <2>1. \A o \in Charged : cart[o].cents \in Nat
    BY <1>1
  <2> DEFINE f == [o \in Orders |-> cart[o].cents]
             S == {o \in Charged : buyer[o] = u}
  <2>2. \A o \in S : f[o] \in Nat
    BY <2>1 DEF Charged
  <2>3. IsFiniteSet(S)
    BY FS_Subset DEF Books
  <2>4. SumFunctionOnSet(f, S) \in Nat
    <3> HIDE DEF f, S
    <3> QED
      BY <2>2, <2>3, SumNat
  <2> QED
    BY <2>1, <2>4 DEF Spent
<1> QED
  BY <1>2, <1>3

\* No step puts a seed in flight again.
LEMMA SeedsRunOut ==
  ASSUME Inv, SeededOnce, [Next]_vars
  PROVE  \A m \in Seeds : bus'[m] \in Nat /\ bus'[m] <= bus[m]
<1>1. BusTypeOK /\ Seeds \subseteq Messages
  BY DEF Inv, TypeOK, Seeds, Messages, Announcements
<1>2. \A s \in SagaSubjects, o \in Orders : <<s, o>> \in Messages /\ <<s, o>> \notin Seeds
  BY DEF Messages, Seeds, SagaSubjects
<1> DEFINE Fewer == \A m \in Seeds : bus'[m] \in Nat /\ bus'[m] <= bus[m]
<1>3. \A m \in Seeds : bus[m] \in Nat
  BY <1>1 DEF BusTypeOK
<1>4. ASSUME NEW o \in Orders, NEW s \in SagaSubjects, NEW t \in SagaSubjects,
             Answer(<<s, o>>, <<t, o>>)
      PROVE  Fewer
  BY <1>1, <1>2, <1>3, <1>4 DEF Answer, BusTypeOK
<1>5. ASSUME NEW o \in Orders, NEW s \in SagaSubjects, Publish(<<s, o>>)
      PROVE  Fewer
  BY <1>1, <1>2, <1>3, <1>5 DEF Publish, BusTypeOK
<1>6. ASSUME NEW n \in Messages, Consume(n)
      PROVE  Fewer
  BY <1>1, <1>6 DEF Consume, BusTypeOK, InFlight
<1>7. ASSUME NEW n \in Messages, Faults(n)
      PROVE  Fewer
  BY <1>1, <1>7 DEF Faults, Redeliver, Lose, SeededOnce, BusTypeOK, InFlight
<1>8. UNCHANGED vars => Fewer
  BY <1>3 DEF vars, busVars
<1> HIDE DEF Fewer
<1>9. ASSUME NEW o \in Orders, OrdersStep(o)
      PROVE  Fewer
  <2>1. \A s \in SagaSubjects : \A x : Ignore(<<s, o>>, x) => Fewer
    BY <1>2, <1>6 DEF Ignore
  <2> USE DEF SagaSubjects
  <2>2. (\E u \in Users, c \in Carts : Place(o, u, c)) => Fewer
    BY <1>5 DEF Place
  <2>3. OnReserveSucceeded(o) \/ OnReserveFailed(o) => Fewer
    BY <1>4, <2>1 DEF OnReserveSucceeded, OnReserveFailed
  <2>4. OnChargeSucceeded(o) \/ OnChargeFailed(o) => Fewer
    BY <1>4, <2>1 DEF OnChargeSucceeded, OnChargeFailed
  <2>5. OnReleaseSucceeded(o) => Fewer
    BY <1>4, <2>1 DEF OnReleaseSucceeded
  <2> QED
    BY <1>9, <2>2, <2>3, <2>4, <2>5 DEF OrdersStep
<1>10. ASSUME NEW o \in Orders, InventoryStep(o) \/ PaymentsStep(o) \/ NotificationsStep(o)
       PROVE  Fewer
  BY <1>2, <1>4, <1>6, <1>10 DEF InventoryStep, Reserve, Release, PaymentsStep, Charge,
     NotificationsStep, Email, SagaSubjects
<1>11. ASSUME \/ \E u \in Users : ProjectUser(u) \/ SeedWallet(u)
              \/ \E p \in Products : ProjectProduct(p) \/ SeedStock(p)
       PROVE  Fewer
  <2>1. /\ \A u \in Users : /\ <<"UserRegistered/orders", u>> \in Messages
                            /\ <<"UserRegistered/payments", u>> \in Messages
        /\ \A p \in Products : /\ <<"ProductCreated/orders", p>> \in Messages
                               /\ <<"ProductCreated/inventory", p>> \in Messages
    BY Zenon DEF Messages, Announcements
  <2> QED
    BY <1>6, <1>11, <2>1 DEF ProjectUser, SeedWallet, ProjectProduct, SeedStock,
       RecordUser, OpenWallet, RecordPrice, SeedProduct
<1>12. InventoryDeadlock => Fewer
  BY <1>1, <1>3 DEF InventoryDeadlock, WaitForEachOther, busVars, Fewer
<1>13. Fewer
  BY <1>7, <1>8, <1>9, <1>10, <1>11, <1>12 DEF Next
<1> QED
  BY <1>13 DEF Fewer

\* The sum of a shelf is what it was as long as the ledger's reservations and
\* the carts they are for are.
LEMMA HeldUndisturbed ==
  ASSUME Books, reservations' = reservations, \A o \in Reserved : cart'[o] = cart[o]
  PROVE  Reserved' = Reserved /\ \A p \in Products : Held(p)' = Held(p)
<1>1. Reserved' = Reserved
  BY DEF Reserved
<1>2. ASSUME NEW p \in Products PROVE Held(p)' = Held(p)
  <2> DEFINE f == [o \in Orders |-> cart[o].total[p]]
             g == [o \in Orders |-> cart'[o].total[p]]
  <2>1. \A o \in Reserved : f[o] = g[o]
    BY DEF Reserved
  <2>2. SumFunctionOnSet(f, Reserved) = SumFunctionOnSet(g, Reserved)
    <3> HIDE DEF f, g
    <3> QED
      BY <2>1, SumCongruent DEF Books
  <2> QED
    BY <1>1, <2>2 DEF Held
<1> QED
  BY <1>1, <1>2

LEMMA SpentUndisturbed ==
  ASSUME Books, charges' = charges,
         \A o \in Charged : cart'[o] = cart[o] /\ buyer'[o] = buyer[o]
  PROVE  Charged' = Charged /\ \A u \in Users : Spent(u)' = Spent(u)
<1>1. Charged' = Charged
  BY DEF Charged
<1>2. ASSUME NEW u \in Users PROVE Spent(u)' = Spent(u)
  <2> DEFINE f == [o \in Orders |-> cart[o].cents]
             g == [o \in Orders |-> cart'[o].cents]
             S == {o \in Charged : buyer[o] = u}
  <2>1. \A o \in S : f[o] = g[o]
    BY DEF Charged
  <2>2. IsFiniteSet(S)
    BY FS_Subset DEF Books
  <2>3. SumFunctionOnSet(f, S) = SumFunctionOnSet(g, S)
    <3> HIDE DEF f, g, S
    <3> QED
      BY <2>1, <2>2, SumCongruent
  <2>4. S = {o \in Charged' : buyer'[o] = u}
    BY <1>1
  <2> QED
    BY <2>3, <2>4 DEF Spent
<1> QED
  BY <1>1, <1>2

LEMMA ShelvesUndisturbed ==
  ASSUME Inv, Books, SeededOnce, [Next]_vars, stock' = stock, reservations' = reservations,
         \A o \in Reserved : cart'[o] = cart[o]
  PROVE  IsFiniteSet(Reserved') /\ \A p \in Products : ShelfBooks(p)'
<1>1. Reserved' = Reserved /\ \A p \in Products : Held(p)' = Held(p)
  BY HeldUndisturbed
<1>2. ASSUME NEW p \in Products PROVE ShelfBooks(p)'
  <2> DEFINE m == <<"ProductCreated/inventory", p>>
  <2>1. m \in Seeds
    BY DEF Seeds
  <2>2. bus'[m] \in Nat /\ bus'[m] <= bus[m] /\ bus[m] \in {0, 1}
    BY <2>1, SeedsRunOut DEF Books, ShelfBooks
  <2> QED
    BY <1>1, <2>2 DEF Books, ShelfBooks
<1> QED
  BY <1>1, <1>2 DEF Books

LEMMA WalletsUndisturbed ==
  ASSUME Inv, Books, SeededOnce, [Next]_vars, wallets' = wallets, charges' = charges,
         \A o \in Charged : cart'[o] = cart[o] /\ buyer'[o] = buyer[o]
  PROVE  IsFiniteSet(Charged') /\ \A u \in Users : WalletBooks(u)'
<1>1. Charged' = Charged /\ \A u \in Users : Spent(u)' = Spent(u)
  BY SpentUndisturbed
<1>2. ASSUME NEW u \in Users PROVE WalletBooks(u)'
  <2> DEFINE m == <<"UserRegistered/payments", u>>
  <2>1. m \in Seeds
    BY DEF Seeds
  <2>2. bus'[m] \in Nat /\ bus'[m] <= bus[m] /\ bus[m] \in {0, 1}
    BY <2>1, SeedsRunOut DEF Books, WalletBooks
  <2> QED
    BY <1>1, <2>2 DEF Books, WalletBooks
<1> QED
  BY <1>1, <1>2 DEF Books

\* A reservation moves units from the shelves to the ledger, and a release
\* moves them back.
LEMMA ReservationBooks ==
  ASSUME Inv, Books, SeededOnce, SingleLines, [Next]_vars, NEW o \in Orders, o \notin Reserved,
         InFlight(<<"ReserveStockRequested", o>>), EnoughForEachLine(cart[o]),
         stock' = Subtract(cart[o]), cart' = cart,
         reservations' = [reservations EXCEPT ![o] = "Reserved"]
  PROVE  IsFiniteSet(Reserved') /\ \A p \in Products : ShelfBooks(p)'
<1>1. Reserved' = Reserved \cup {o}
  BY DEF Reserved, Inv, TypeOK, InventoryTypeOK
<1>2. cart[o] \in Carts /\ cart[o].total = cart[o].largest /\ cart[o].total \in [Products -> Nat]
  BY DEF Inv, TypeOK, OrdersTypeOK, Agreement, SagaSubjects, SingleLines
<1>3. IsFiniteSet(Reserved')
  BY <1>1, FS_AddElement DEF Books
<1>4. ASSUME NEW p \in Products PROVE ShelfBooks(p)'
  <2> DEFINE m == <<"ProductCreated/inventory", p>>
             f == [q \in Orders |-> cart[q].total[p]]
  <2>1. bus'[m] \in Nat /\ bus'[m] <= bus[m] /\ bus[m] \in {0, 1}
    BY SeedsRunOut DEF Books, ShelfBooks, Seeds
  <2>2. Held(p)' = cart[o].total[p] + Held(p)
    <3>1. \A q \in Reserved \cup {o} : f[q] \in Nat
      BY <1>2, SumTypes DEF Reserved
    <3>2. f[o] = cart[o].total[p]
      OBVIOUS
    <3>3. Held(p) = SumFunctionOnSet(f, Reserved) /\ Held(p)' = SumFunctionOnSet(f, Reserved \cup {o})
      BY <1>1 DEF Held
    <3> HIDE DEF f
    <3> QED
      BY <3>1, <3>2, <3>3, SumAdd DEF Books
  <2>3. stock'[p] = stock[p] - cart[o].total[p] /\ stock[p] \in Nat /\ cart[o].total[p] \in Nat
    <3>1. stock[p] \in 0..(UnitWord - 1) /\ cart[o].total[p] \in Nat /\ stock[p] >= cart[o].total[p]
      BY <1>2 DEF EnoughForEachLine, Inv, TypeOK, InventoryTypeOK
    <3>2. stock'[p] = (stock[p] - cart[o].total[p]) % UnitWord
      BY DEF Subtract
    <3> QED
      BY <3>1, <3>2
  <2>4. Held(p) \in Nat
    BY SumTypes
  <2>5. stock'[p] + Held(p)' = stock[p] + Held(p)
    BY <2>2, <2>3, <2>4
  <2> QED
    BY <2>1, <2>5 DEF Books, ShelfBooks
<1> QED
  BY <1>3, <1>4

LEMMA ReleaseBooks ==
  ASSUME Inv, Books, SeededOnce, [Next]_vars, NEW o \in Reserved,
         stock' = AddBack(cart[o]), cart' = cart,
         reservations' = [reservations EXCEPT ![o] = "None"]
  PROVE  IsFiniteSet(Reserved') /\ \A p \in Products : ShelfBooks(p)'
<1>1. Reserved' = Reserved \ {o} /\ o \in Orders
  BY DEF Reserved, Inv, TypeOK, InventoryTypeOK
<1>2. IsFiniteSet(Reserved')
  BY <1>1, FS_RemoveElement DEF Books
<1>3. ASSUME NEW p \in Products PROVE ShelfBooks(p)'
  <2> DEFINE m == <<"ProductCreated/inventory", p>>
             f == [q \in Orders |-> cart[q].total[p]]
  <2>1. bus'[m] \in Nat /\ bus'[m] <= bus[m] /\ bus[m] \in {0, 1}
    BY SeedsRunOut DEF Books, ShelfBooks, Seeds
  <2>2. Held(p) = cart[o].total[p] + Held(p)'
    <3>1. \A q \in Reserved : f[q] \in Nat
      BY SumTypes DEF Reserved
    <3>2. f[o] = cart[o].total[p]
      BY <1>1
    <3>3. Held(p) = SumFunctionOnSet(f, Reserved) /\ Held(p)' = SumFunctionOnSet(f, Reserved \ {o})
      BY <1>1 DEF Held
    <3> HIDE DEF f
    <3> QED
      BY <3>1, <3>2, <3>3, SumRemove DEF Books
  <2>3. Held(p)' \in Nat
    <3>1. \A q \in Reserved \ {o} : f[q] \in Nat
      BY SumTypes DEF Reserved
    <3>2. IsFiniteSet(Reserved \ {o}) /\ Held(p)' = SumFunctionOnSet(f, Reserved \ {o})
      BY <1>1, <1>2 DEF Held
    <3> HIDE DEF f
    <3> QED
      BY <3>1, <3>2, SumNat
  <2>4. stock[p] \in Nat /\ cart[o].total[p] \in Nat
    BY SumTypes DEF Inv, TypeOK, InventoryTypeOK
  <2>5. stock[p] + cart[o].total[p] <= StartingStock
    <3>1. stock[p] + Held(p) = 0 \/ stock[p] + Held(p) = StartingStock
      <4>1. ShelfBooks(p)
        BY DEF Books
      <4> QED
        BY <4>1 DEF ShelfBooks
    <3> QED
      BY <2>2, <2>3, <2>4, <3>1
  <2>6. stock'[p] = stock[p] + cart[o].total[p]
    <3>1. stock'[p] = (stock[p] + cart[o].total[p]) % UnitWord
      BY DEF AddBack
    <3> QED
      BY <2>4, <2>5, <3>1
  <2>7. stock'[p] + Held(p)' = stock[p] + Held(p)
    BY <2>2, <2>3, <2>4, <2>6
  <2> QED
    BY <2>1, <2>7 DEF Books, ShelfBooks
<1> QED
  BY <1>2, <1>3

\* The seed fills an empty shelf, and an empty wallet.
LEMMA SeedStockBooks ==
  ASSUME Inv, Books, SeededOnce, [Next]_vars, NEW q \in Products, SeedStock(q)
  PROVE  IsFiniteSet(Reserved') /\ \A p \in Products : ShelfBooks(p)'
<1>1. /\ Consume(<<"ProductCreated/inventory", q>>)
      /\ stock' = [stock EXCEPT ![q] = StartingStock]
      /\ reservations' = reservations /\ cart' = cart
  BY DEF SeedStock, SeedProduct, ordersVars
<1>2. Reserved' = Reserved /\ \A p \in Products : Held(p)' = Held(p)
  BY <1>1, HeldUndisturbed
<1>3. ASSUME NEW p \in Products PROVE ShelfBooks(p)'
  <2> DEFINE m == <<"ProductCreated/inventory", p>>
  <2>1. bus'[m] \in Nat /\ bus'[m] <= bus[m] /\ bus[m] \in {0, 1} /\ m \in Messages
    BY SeedsRunOut DEF Books, ShelfBooks, Seeds, Messages, Announcements
  <2>2. stock[p] \in Nat /\ Held(p) \in Nat /\ stock \in [Products -> 0..(UnitWord - 1)]
    BY SumTypes DEF Inv, TypeOK, InventoryTypeOK
  <2>3. CASE p # q
    BY <1>1, <1>2, <2>1, <2>2, <2>3 DEF Books, ShelfBooks
  <2>4. CASE p = q
    <3>1. bus[m] = 1 /\ bus'[m] = 0
      BY <1>1, <2>1, <2>4 DEF Consume, InFlight, Inv, TypeOK, BusTypeOK
    <3>2. Held(p) = 0
      BY <2>2, <3>1 DEF Books, ShelfBooks
    <3>3. stock'[p] = StartingStock
      BY <1>1, <2>2, <2>4
    <3> QED
      BY <1>2, <3>1, <3>2, <3>3 DEF ShelfBooks
  <2> QED
    BY <2>3, <2>4
<1> QED
  BY <1>2, <1>3 DEF Books

LEMMA SeedWalletBooks ==
  ASSUME Inv, Books, SeededOnce, [Next]_vars, NEW v \in Users, SeedWallet(v)
  PROVE  IsFiniteSet(Charged') /\ \A u \in Users : WalletBooks(u)'
<1>1. /\ Consume(<<"UserRegistered/payments", v>>)
      /\ wallets' = [wallets EXCEPT ![v] = StartingBalance]
      /\ charges' = charges /\ cart' = cart /\ buyer' = buyer
  BY DEF SeedWallet, OpenWallet, ordersVars
<1>2. Charged' = Charged /\ \A u \in Users : Spent(u)' = Spent(u)
  BY <1>1, SpentUndisturbed
<1>3. ASSUME NEW u \in Users PROVE WalletBooks(u)'
  <2> DEFINE m == <<"UserRegistered/payments", u>>
  <2>1. bus'[m] \in Nat /\ bus'[m] <= bus[m] /\ bus[m] \in {0, 1} /\ m \in Messages
    BY SeedsRunOut DEF Books, WalletBooks, Seeds, Messages, Announcements
  <2>2. wallets[u] \in Nat /\ Spent(u) \in Nat /\ wallets \in [Users -> Nat]
    BY SumTypes DEF Inv, TypeOK, PaymentsTypeOK
  <2>3. CASE u # v
    BY <1>1, <1>2, <2>1, <2>2, <2>3 DEF Books, WalletBooks
  <2>4. CASE u = v
    <3>1. bus[m] = 1 /\ bus'[m] = 0
      BY <1>1, <2>1, <2>4 DEF Consume, InFlight, Inv, TypeOK, BusTypeOK
    <3>2. Spent(u) = 0
      BY <2>2, <3>1 DEF Books, WalletBooks
    <3>3. wallets'[u] = StartingBalance
      BY <1>1, <2>2, <2>4
    <3> QED
      BY <1>2, <3>1, <3>2, <3>3 DEF WalletBooks
  <2> QED
    BY <2>3, <2>4
<1> QED
  BY <1>2, <1>3 DEF Books

\* A charge moves the price from the buyer's wallet to the ledger.
LEMMA ChargeBooks ==
  ASSUME Inv, Books, SeededOnce, [Next]_vars, NEW o \in Orders, o \notin Charged,
         buyer[o] \in Users, cart[o] \in Carts, wallets[buyer[o]] >= cart[o].cents,
         wallets' = [wallets EXCEPT ![buyer[o]] = @ - cart[o].cents],
         charges' = [charges EXCEPT ![o] = "Charged"], buyer' = buyer, cart' = cart
  PROVE  IsFiniteSet(Charged') /\ \A u \in Users : WalletBooks(u)'
<1>1. Charged' = Charged \cup {o}
  BY DEF Charged, Inv, TypeOK, PaymentsTypeOK
<1>2. IsFiniteSet(Charged')
  BY <1>1, FS_AddElement DEF Books
<1>3. ASSUME NEW u \in Users PROVE WalletBooks(u)'
  <2> DEFINE m == <<"UserRegistered/payments", u>>
             f == [q \in Orders |-> cart[q].cents]
             S == {q \in Charged : buyer[q] = u}
  <2>1. bus'[m] \in Nat /\ bus'[m] <= bus[m] /\ bus[m] \in {0, 1}
    BY SeedsRunOut DEF Books, WalletBooks, Seeds
  <2>2. wallets \in [Users -> Nat] /\ Spent(u) \in Nat /\ cart[o].cents \in Nat
    BY SumTypes DEF Inv, TypeOK, PaymentsTypeOK
  <2>3. Spent(u) = SumFunctionOnSet(f, S)
    BY DEF Spent
  <2>4. CASE u # buyer[o]
    <3>1. {q \in Charged' : buyer'[q] = u} = S
      BY <1>1, <2>4
    <3>2. Spent(u)' = Spent(u)
      BY <3>1 DEF Spent
    <3> QED
      BY <2>1, <2>2, <2>4, <3>2 DEF Books, WalletBooks
  <2>5. CASE u = buyer[o]
    <3>1. {q \in Charged' : buyer'[q] = u} = S \cup {o}
      BY <1>1, <2>5
    <3>2. Spent(u)' = SumFunctionOnSet(f, S \cup {o})
      BY <3>1 DEF Spent
    <3>3. \A q \in S \cup {o} : f[q] \in Nat
      BY SumTypes DEF Charged
    <3>4. IsFiniteSet(S) /\ o \notin S /\ f[o] = cart[o].cents
      BY FS_Subset DEF Books
    <3>5. Spent(u)' = cart[o].cents + Spent(u)
      <4> HIDE DEF f, S
      <4> QED
        BY <2>3, <3>2, <3>3, <3>4, SumAdd
    <3>6. wallets'[u] = wallets[u] - cart[o].cents
      BY <2>2, <2>5
    <3>7. wallets'[u] + Spent(u)' = wallets[u] + Spent(u)
      BY <2>2, <3>5, <3>6
    <3> QED
      BY <2>1, <3>7 DEF Books, WalletBooks
  <2> QED
    BY <2>4, <2>5
<1> QED
  BY <1>2, <1>3

-----------------------------------------------------------------------------

THEOREM InitBooks == Init => Books
<1> SUFFICES ASSUME Init PROVE Books
  OBVIOUS
<1>1. Reserved = {} /\ Charged = {}
  BY DEF Init, InventoryInit, PaymentsInit, Reserved, Charged
<1>2. ASSUME NEW p \in Products PROVE ShelfBooks(p)
  <2>1. Held(p) = 0 /\ stock[p] = 0
    BY <1>1, SumEmpty DEF Held, Init, InventoryInit
  <2>2. bus[<<"ProductCreated/inventory", p>>] = 1
    BY DEF Init, BusInit, Messages, Announcements
  <2> QED
    BY <2>1, <2>2 DEF ShelfBooks
<1>3. ASSUME NEW u \in Users PROVE WalletBooks(u)
  <2>1. Spent(u) = 0 /\ wallets[u] = 0
    <3>1. {o \in Charged : buyer[o] = u} = {}
      BY <1>1
    <3> QED
      BY <3>1, SumEmpty DEF Spent, Init, PaymentsInit
  <2>2. bus[<<"UserRegistered/payments", u>>] = 1
    BY DEF Init, BusInit, Messages, Announcements
  <2> QED
    BY <2>1, <2>2 DEF WalletBooks
<1> QED
  BY <1>1, <1>2, <1>3, FS_EmptySet DEF Books

\* Orders whose goods or money are taken have been placed, so a new order does
\* not change their carts.
LEMMA OrdersBooks ==
  ASSUME Inv, Books, SeededOnce, [Next]_vars, NEW o \in Orders, OrdersStep(o)
  PROVE  Books'
<1>1. UNCHANGED <<stock, reservations, wallets, charges>>
  BY DEF OrdersStep, inventoryVars, paymentsVars
<1>2. \A q \in Reserved \cup Charged : cart'[q] = cart[q] /\ buyer'[q] = buyer[q]
  <2>1. CASE UNCHANGED <<cart, buyer>>
    BY <2>1
  <2>2. CASE \E u \in Users, c \in Carts : Place(o, u, c)
    <3>1. o \notin Reserved \cup Charged
      BY <2>2 DEF Place, Inv, Agreement, Reserved, Charged
    <3> QED
      BY <2>2, <3>1 DEF Place, Inv, TypeOK, OrdersTypeOK, Reserved, Charged
  <2> QED
    BY <2>1, <2>2 DEF OrdersStep, OnReserveSucceeded, OnReserveFailed, OnChargeSucceeded,
       OnChargeFailed, OnReleaseSucceeded, Transition, Ignore, ordersVars
<1> QED
  BY <1>1, <1>2, ShelvesUndisturbed, WalletsUndisturbed DEF Books

LEMMA InventoryBooks ==
  ASSUME Inv, Books, SeededOnce, SingleLines, [Next]_vars, NEW o \in Orders, InventoryStep(o)
  PROVE  Books'
<1>1. UNCHANGED <<cart, buyer, wallets, charges>>
  BY DEF InventoryStep, ordersVars, paymentsVars
<1>2. IsFiniteSet(Reserved') /\ \A p \in Products : ShelfBooks(p)'
  <2>1. CASE UNCHANGED inventoryVars
    BY <1>1, <2>1, ShelvesUndisturbed DEF inventoryVars
  <2>2. CASE /\ reservations[o] = "None"
             /\ InFlight(<<"ReserveStockRequested", o>>)
             /\ EnoughForEachLine(cart[o])
             /\ stock' = Subtract(cart[o])
             /\ reservations' = [reservations EXCEPT ![o] = "Reserved"]
    <3>1. o \notin Reserved
      BY <2>2 DEF Reserved
    <3> QED
      BY <1>1, <2>2, <3>1, ReservationBooks
  <2>3. CASE /\ reservations[o] = "None"
             /\ reservations' = [reservations EXCEPT ![o] = "Failed"]
             /\ stock' = stock
    <3>1. Reserved' = Reserved
      BY <2>3 DEF Reserved, Inv, TypeOK, InventoryTypeOK
    <3>2. \A p \in Products : Held(p)' = Held(p)
      BY <1>1, <3>1 DEF Held
    <3>3. ASSUME NEW p \in Products PROVE ShelfBooks(p)'
      <4> DEFINE m == <<"ProductCreated/inventory", p>>
      <4>1. bus'[m] \in Nat /\ bus'[m] <= bus[m] /\ bus[m] \in {0, 1}
        BY SeedsRunOut DEF Books, ShelfBooks, Seeds
      <4> QED
        BY <2>3, <3>2, <4>1 DEF Books, ShelfBooks
    <3> QED
      BY <3>1, <3>3 DEF Books
  <2>4. CASE /\ reservations[o] = "Reserved"
             /\ stock' = AddBack(cart[o])
             /\ reservations' = [reservations EXCEPT ![o] = "None"]
    <3>1. o \in Reserved
      BY <2>4 DEF Reserved
    <3> QED
      BY <1>1, <2>4, <3>1, ReleaseBooks
  <2> QED
    BY <2>1, <2>2, <2>3, <2>4 DEF InventoryStep, Reserve, Release
<1> QED
  BY <1>1, <1>2, WalletsUndisturbed DEF Books

LEMMA PaymentsBooks ==
  ASSUME Inv, Books, SeededOnce, [Next]_vars, NEW o \in Orders, PaymentsStep(o)
  PROVE  Books'
<1>1. UNCHANGED <<cart, buyer, stock, reservations>>
  BY DEF PaymentsStep, ordersVars, inventoryVars
<1>2. IsFiniteSet(Charged') /\ \A u \in Users : WalletBooks(u)'
  <2>1. CASE UNCHANGED paymentsVars
    BY <1>1, <2>1, WalletsUndisturbed DEF paymentsVars
  <2>2. CASE /\ charges[o] = "None"
             /\ InFlight(<<"ChargeRequested", o>>)
             /\ wallets[buyer[o]] >= cart[o].cents
             /\ wallets' = [wallets EXCEPT ![buyer[o]] = @ - cart[o].cents]
             /\ charges' = [charges EXCEPT ![o] = "Charged"]
    <3>1. o \notin Charged
      BY <2>2 DEF Charged
    <3>2. buyer[o] \in Users /\ cart[o] \in Carts
      BY <2>2 DEF Inv, TypeOK, OrdersTypeOK, Agreement
    <3> QED
      BY <1>1, <2>2, <3>1, <3>2, ChargeBooks
  <2>3. CASE /\ charges[o] = "None"
             /\ charges' = [charges EXCEPT ![o] = "Failed"]
             /\ wallets' = wallets
    <3>1. Charged' = Charged
      BY <2>3 DEF Charged, Inv, TypeOK, PaymentsTypeOK
    <3>2. \A u \in Users : Spent(u)' = Spent(u)
      BY <1>1, <3>1 DEF Spent
    <3>3. ASSUME NEW u \in Users PROVE WalletBooks(u)'
      <4> DEFINE m == <<"UserRegistered/payments", u>>
      <4>1. bus'[m] \in Nat /\ bus'[m] <= bus[m] /\ bus[m] \in {0, 1}
        BY SeedsRunOut DEF Books, WalletBooks, Seeds
      <4> QED
        BY <2>3, <3>2, <4>1 DEF Books, WalletBooks
    <3> QED
      BY <3>1, <3>3 DEF Books
  <2> QED
    BY <2>1, <2>2, <2>3 DEF PaymentsStep, Charge
<1> QED
  BY <1>1, <1>2, ShelvesUndisturbed DEF Books

THEOREM NextBooks == ASSUME SeededOnce, SingleLines, Inv, Books, [Next]_vars PROVE Books'
<1>1. CASE UNCHANGED <<stock, reservations, wallets, charges, cart, buyer>>
  BY <1>1, ShelvesUndisturbed, WalletsUndisturbed DEF Books
<1>2. ASSUME NEW o \in Orders, OrdersStep(o) \/ InventoryStep(o) \/ PaymentsStep(o)
      PROVE  Books'
  BY <1>2, OrdersBooks, InventoryBooks, PaymentsBooks
<1>3. ASSUME NEW u \in Users, SeedWallet(u)
      PROVE  Books'
  <2>1. UNCHANGED <<stock, reservations, cart, buyer>>
    BY <1>3 DEF SeedWallet, ordersVars, inventoryVars
  <2> QED
    BY <1>3, <2>1, SeedWalletBooks, ShelvesUndisturbed DEF Books
<1>4. ASSUME NEW p \in Products, SeedStock(p)
      PROVE  Books'
  <2>1. UNCHANGED <<wallets, charges, cart, buyer>>
    BY <1>4 DEF SeedStock, ordersVars, paymentsVars
  <2> QED
    BY <1>4, <2>1, SeedStockBooks, WalletsUndisturbed DEF Books
<1>5. ASSUME \/ \E o \in Orders : NotificationsStep(o)
             \/ \E u \in Users : ProjectUser(u)
             \/ \E p \in Products : ProjectProduct(p)
             \/ \E m \in Messages : Faults(m)
             \/ InventoryDeadlock
             \/ UNCHANGED vars
      PROVE  UNCHANGED <<stock, reservations, wallets, charges, cart, buyer>>
  BY <1>5 DEF NotificationsStep, ProjectUser, RecordUser, ProjectProduct, RecordPrice, Faults,
     InventoryDeadlock, WaitForEachOther, vars, ordersVars, inventoryVars, paymentsVars
<1> QED
  BY <1>1, <1>2, <1>3, <1>4, <1>5 DEF Next

\* Units and cents are neither created nor lost, whatever is repeated, lost or
\* overtaken, as long as the seeds are heard at most once and no cart names a
\* product twice (README.md says what happens otherwise).
THEOREM BooksAlwaysBalance ==
  ASSUME SeededOnce, SingleLines
  PROVE  Spec => []BooksBalance
<1>1. Inv /\ Books => BooksBalance
  <2>1. \A p \in Products : ShelfBooks(p) => stock[p] + Held(p) \in {0, StartingStock}
    BY DEF ShelfBooks
  <2>2. \A u \in Users : WalletBooks(u) => wallets[u] + Spent(u) \in {0, StartingBalance}
    BY DEF WalletBooks
  <2>3. Inv => \A u \in Users : wallets[u] >= 0
    BY DEF Inv, TypeOK, PaymentsTypeOK
  <2> QED
    BY <2>1, <2>2, <2>3 DEF Books, BooksBalance
<1>2. Inv /\ Books /\ [Next]_vars => Books'
  BY NextBooks
<1> QED
  BY <1>1, <1>2, Invariance, InitBooks, PTL DEF Spec
=============================================================================
