------------------------------ MODULE SagaBus ------------------------------
(***************************************************************************)
(* The NATS server between the services of src/saga, as the services use   *)
(* it: plain core publish/subscribe.  A message is a <<subject, key>> pair; *)
(* the key is the saga id (an order), or the product or user announced by  *)
(* the catalog and users services.  The rest of a payload is a function of *)
(* the order, which orders-service never rewrites, so the handlers that    *)
(* need it read it there.                                                  *)
(*                                                                         *)
(* Every subscription has its own task, so messages of different subjects  *)
(* overtake each other; the bag below forgets the order of one subject     *)
(* too.  A publish error is logged and swallowed by every service, and     *)
(* core NATS drops what no one hears: both are Lose.  The lab's README     *)
(* counts on redeliveries: they are Redeliver.  Each has a budget.         *)
(***************************************************************************)
EXTENDS Naturals

CONSTANTS Orders,           \* saga ids (an order's id is its saga id)
          Products, Users,
          Redeliverable,    \* the subjects that may be delivered again
          MaxRedeliveries,  \* bound on redeliveries in a behaviour
          MaxLosses         \* bound on dropped messages in a behaviour

ASSUME BusAssumption == MaxRedeliveries \in Nat /\ MaxLosses \in Nat

VARIABLES bus,              \* [Messages -> Nat], the copies in flight
          redelivered, lost \* how much of each budget is spent

busVars == <<bus, redelivered, lost>>

SagaSubjects ==
  {"ReserveStockRequested", "StockReserved", "StockReserveFailed",
   "ChargeRequested", "PaymentCharged", "PaymentChargeFailed",
   "ReleaseStockRequested", "StockReleased",
   "OrderConfirmed", "OrderFailed"}

\* An announcement has two subscribers, each with a delivery of its own:
\* catalog.product_created feeds orders' read model and seeds inventory,
\* users.registered feeds the read model and opens a wallet.
Announcements ==
  ({"ProductCreated/orders", "ProductCreated/inventory"} \X Products)
    \cup ({"UserRegistered/orders", "UserRegistered/payments"} \X Users)

Messages == (SagaSubjects \X Orders) \cup Announcements

\* The users and products exist and are announced; no service has heard yet.
BusInit ==
  /\ bus = [m \in Messages |-> IF m \in Announcements THEN 1 ELSE 0]
  /\ redelivered = 0
  /\ lost = 0

InFlight(m) == bus[m] > 0

Publish(m) == /\ bus' = [bus EXCEPT ![m] = @ + 1]
              /\ UNCHANGED <<redelivered, lost>>

Consume(m) == /\ InFlight(m)
              /\ bus' = [bus EXCEPT ![m] = @ - 1]
              /\ UNCHANGED <<redelivered, lost>>

\* One iteration of a subscriber's loop that answers m by publishing reply.
\* The code publishes after its repository call returned; a publish that
\* comes late is a reply that stays in flight longer.
Answer(m, reply) == /\ InFlight(m)
                    /\ bus' = [bus EXCEPT ![m] = @ - 1, ![reply] = @ + 1]
                    /\ UNCHANGED <<redelivered, lost>>

Redeliver(m) == /\ m[1] \in Redeliverable
                /\ InFlight(m)
                /\ redelivered < MaxRedeliveries
                /\ bus' = [bus EXCEPT ![m] = @ + 1]
                /\ redelivered' = redelivered + 1
                /\ UNCHANGED lost

Lose(m) == /\ InFlight(m)
           /\ lost < MaxLosses
           /\ bus' = [bus EXCEPT ![m] = @ - 1]
           /\ lost' = lost + 1
           /\ UNCHANGED redelivered

BusTypeOK == /\ bus \in [Messages -> Nat]
             /\ redelivered \in 0..MaxRedeliveries
             /\ lost \in 0..MaxLosses
============================================================================
