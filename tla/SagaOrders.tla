----------------------------- MODULE SagaOrders -----------------------------
(***************************************************************************)
(* orders-service of src/saga: the orchestrator.  It validates an order    *)
(* against its read model, stores it as Pending and asks for stock;        *)
(* saga.rs then moves it along as the participants' replies arrive, each   *)
(* kind of reply in a task of its own.                                     *)
(*                                                                         *)
(* A cart is the lines of an order as inventory sees them (SagaInventory)  *)
(* and the total_cents computed from the prices read: see SagaCarts.       *)
(* failure_reason is only ever logged or shown, and is left out.           *)
(***************************************************************************)
EXTENDS SagaBus

CONSTANTS Carts,            \* [largest, total : [Products -> Nat], cents : Nat]
          Nothing           \* the buyer and cart of a saga id not in use yet

ASSUME CartsAssumption ==
  Carts \subseteq [largest : [Products -> Nat], total : [Products -> Nat], cents : Nat]

VARIABLES status,           \* [Orders -> Statuses]
          buyer, cart,      \* [Orders -> Users], [Orders -> Carts] once placed
          known             \* read model: the users and products heard of

ordersVars == <<status, buyer, cart, known>>

Terminal == {"Confirmed", "Failed"}
Statuses == {"Absent", "Pending", "AwaitingPayment", "Compensating"} \cup Terminal

OrdersInit == /\ status = [o \in Orders |-> "Absent"]
              /\ buyer = [o \in Orders |-> Nothing]
              /\ cart = [o \in Orders |-> Nothing]
              /\ known = {}

\* projection.rs consume_users, read_model.rs record_user
RecordUser(u) == /\ Consume(<<"UserRegistered/orders", u>>)
                 /\ known' = known \cup {u}
                 /\ UNCHANGED <<status, buyer, cart>>

\* projection.rs consume_products_created, read_model.rs record_price.  The
\* price itself is part of the carts.
RecordPrice(p) == /\ Consume(<<"ProductCreated/orders", p>>)
                  /\ known' = known \cup {p}
                  /\ UNCHANGED <<status, buyer, cart>>

\* service.rs place, for a request none of its checks reject (a rejected one
\* changes nothing): some line, a user and products the read model knows.
Place(o, u, c) ==
  /\ status[o] = "Absent"                       \* OrderId::new()
  /\ \E p \in Products : c.total[p] > 0
  /\ u \in known
  /\ \A p \in Products : c.total[p] > 0 => p \in known
  /\ status' = [status EXCEPT ![o] = "Pending"]
  /\ buyer' = [buyer EXCEPT ![o] = u]
  /\ cart' = [cart EXCEPT ![o] = c]
  /\ UNCHANGED known
  /\ Publish(<<"ReserveStockRequested", o>>)

\* Mutant: the status is set without comparing it to the expected one.
TransitionUnguarded(o, expected, new) ==
  /\ status[o] # "Absent"
  /\ status' = [status EXCEPT ![o] = new]
  /\ UNCHANGED <<buyer, cart, known>>

\* repository.rs transition, when it returns Some(order).
Transition(o, expected, new) ==
  /\ status[o] = expected
  /\ status' = [status EXCEPT ![o] = new]
  /\ UNCHANGED <<buyer, cart, known>>

\* The rest of a handler when transition returned None: `continue`.
Ignore(m, expected) == /\ status[m[2]] # expected
                       /\ Consume(m)
                       /\ UNCHANGED ordersVars

\* Mutant: the order is announced as confirmed once its stock is reserved.
AnnounceOnReserve(o) ==
  \/ /\ Transition(o, "Pending", "AwaitingPayment")
     /\ InFlight(<<"StockReserved", o>>)
     /\ bus' = [bus EXCEPT ![<<"StockReserved", o>>] = @ - 1,
                          ![<<"ChargeRequested", o>>] = @ + 1,
                          ![<<"OrderConfirmed", o>>] = @ + 1]
     /\ UNCHANGED <<redelivered, lost>>
  \/ Ignore(<<"StockReserved", o>>, "Pending")

\* Mutant: the order fails, and no one is told.
FailQuietly(o) ==
  \/ /\ Transition(o, "Pending", "Failed")
     /\ Consume(<<"StockReserveFailed", o>>)
  \/ Ignore(<<"StockReserveFailed", o>>, "Pending")

\* The five reply handlers of saga.rs.
OnReserveSucceeded(o) ==
  \/ /\ Transition(o, "Pending", "AwaitingPayment")
     /\ Answer(<<"StockReserved", o>>, <<"ChargeRequested", o>>)
  \/ Ignore(<<"StockReserved", o>>, "Pending")

OnReserveFailed(o) ==
  \/ /\ Transition(o, "Pending", "Failed")
     /\ Answer(<<"StockReserveFailed", o>>, <<"OrderFailed", o>>)
  \/ Ignore(<<"StockReserveFailed", o>>, "Pending")

OnChargeSucceeded(o) ==
  \/ /\ Transition(o, "AwaitingPayment", "Confirmed")
     /\ Answer(<<"PaymentCharged", o>>, <<"OrderConfirmed", o>>)
  \/ Ignore(<<"PaymentCharged", o>>, "AwaitingPayment")

\* Mutant: a declined payment fails the order at once, without compensation.
FailWithoutCompensating(o) ==
  \/ /\ Transition(o, "AwaitingPayment", "Failed")
     /\ Answer(<<"PaymentChargeFailed", o>>, <<"OrderFailed", o>>)
  \/ Ignore(<<"PaymentChargeFailed", o>>, "AwaitingPayment")

OnChargeFailed(o) ==
  \/ /\ Transition(o, "AwaitingPayment", "Compensating")
     /\ Answer(<<"PaymentChargeFailed", o>>, <<"ReleaseStockRequested", o>>)
  \/ Ignore(<<"PaymentChargeFailed", o>>, "AwaitingPayment")

OnReleaseSucceeded(o) ==
  \/ /\ Transition(o, "Compensating", "Failed")
     /\ Answer(<<"StockReleased", o>>, <<"OrderFailed", o>>)
  \/ Ignore(<<"StockReleased", o>>, "Compensating")

\* A placed order has a buyer and a cart.
OrdersTypeOK ==
  /\ status \in [Orders -> Statuses]
  /\ known \subseteq Users \cup Products
  /\ \A o \in Orders : status[o] # "Absent" => buyer[o] \in Users /\ cart[o] \in Carts
  /\ buyer \in [Orders -> Users \cup {Nothing}]
  /\ cart \in [Orders -> Carts \cup {Nothing}]
============================================================================
