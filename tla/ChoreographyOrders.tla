------------------------- MODULE ChoreographyOrders -------------------------
(***************************************************************************)
(* orders-service of src/choreography: it places an order, announces it,   *)
(* and then follows what the others say of it.  The status is a report:    *)
(* the five handlers of tracker.rs end at `transition` and publish         *)
(* nothing.                                                                *)
(*                                                                         *)
(* A cart is what SagaCarts makes of the lines of an order.                *)
(***************************************************************************)
EXTENDS ChoreographyBus

CONSTANTS Carts,            \* [largest, total : [Products -> Nat], cents : Nat]
          Nothing           \* the buyer and cart of an order not placed yet

ASSUME CartsAssumption ==
  Carts \subseteq [largest : [Products -> Nat], total : [Products -> Nat], cents : Nat]

VARIABLES status,           \* [Orders -> Statuses]
          buyer, cart,      \* [Orders -> Users], [Orders -> Carts] once placed
          known             \* read model: the users and products heard of

ordersVars == <<status, buyer, cart, known>>

Statuses == {"Absent", "Pending", "AwaitingPayment", "Compensating", "Confirmed", "Failed"}

OrdersInit == /\ status = [o \in Orders |-> "Absent"]
              /\ buyer = [o \in Orders |-> Nothing]
              /\ cart = [o \in Orders |-> Nothing]
              /\ known = {}

\* projection.rs, read_model.rs
RecordUser(u) == /\ Consume(<<"registered/orders", u>>)
                 /\ known' = known \cup {u}
                 /\ UNCHANGED <<status, buyer, cart>>

RecordPrice(p) == /\ Consume(<<"created/orders", p>>)
                  /\ known' = known \cup {p}
                  /\ UNCHANGED <<status, buyer, cart>>

\* service.rs place, for a request none of its checks reject.
Place(o, u, c) ==
  /\ status[o] = "Absent"                       \* OrderId::new()
  /\ \E p \in Products : c.total[p] > 0
  /\ u \in known
  /\ \A p \in Products : c.total[p] > 0 => p \in known
  /\ status' = [status EXCEPT ![o] = "Pending"]
  /\ buyer' = [buyer EXCEPT ![o] = u]
  /\ cart' = [cart EXCEPT ![o] = c]
  /\ UNCHANGED known
  /\ Publish(OrderPlaced, o)

\* repository.rs transition, called with what was heard on a channel.
Track(channel, o, expected, new) ==
  /\ Consume(<<channel, o>>)
  /\ \/ /\ status[o] = expected
        /\ status' = [status EXCEPT ![o] = new]
     \/ /\ status[o] # expected
        /\ UNCHANGED status
  /\ UNCHANGED <<buyer, cart, known>>

\* The five handlers of tracker.rs.
OnStockReserved(o)   == Track("reserved/orders", o, "Pending", "AwaitingPayment")
OnStockRejected(o)   == Track("rejected/orders", o, "Pending", "Failed")
OnPaymentCharged(o)  == Track("charged/orders", o, "AwaitingPayment", "Confirmed")
OnPaymentDeclined(o) == Track("declined/orders", o, "AwaitingPayment", "Compensating")
OnStockReleased(o)   == Track("released/orders", o, "Compensating", "Failed")

Tracker(o) == \/ OnStockReserved(o) \/ OnStockRejected(o)
              \/ OnPaymentCharged(o) \/ OnPaymentDeclined(o)
              \/ OnStockReleased(o)

OrdersTypeOK ==
  /\ status \in [Orders -> Statuses]
  /\ known \subseteq Users \cup Products
  /\ \A o \in Orders : status[o] # "Absent" => buyer[o] \in Users /\ cart[o] \in Carts
  /\ buyer \in [Orders -> Users \cup {Nothing}]
  /\ cart \in [Orders -> Carts \cup {Nothing}]
============================================================================
