-------------------------- MODULE ChoreographyBus --------------------------
(***************************************************************************)
(* The NATS server between the services of src/choreography.  A fact is    *)
(* published once and delivered to each service that subscribes to it, on  *)
(* a channel "subject/subscriber" of its own.  A message is a              *)
(* <<channel, key>> pair; the key is an order, or the product or user      *)
(* announced.                                                              *)
(*                                                                         *)
(* Each subscription is drained by its own task, so a service may handle   *)
(* an effect before its cause.  A message may be delivered again.  A lost  *)
(* message is one that is never handled: what is claimed of every          *)
(* behaviour covers it, and what is claimed of fair ones does not.         *)
(***************************************************************************)
EXTENDS Naturals

CONSTANTS Orders, Products, Users

VARIABLES bus,              \* [Messages -> Nat], the copies in flight
          redelivered       \* how many deliveries were repeats

busVars == <<bus, redelivered>>

\* Who subscribes to what (the reactors, the tracker, notifications' main.rs).
OrderPlaced     == {"placed/inventory", "placed/payments", "placed/notifications"}
StockReserved   == {"reserved/payments", "reserved/orders"}
StockRejected   == {"rejected/orders", "rejected/notifications"}
PaymentCharged  == {"charged/orders", "charged/notifications"}
PaymentDeclined == {"declined/inventory", "declined/orders", "declined/notifications"}
StockReleased   == {"released/orders"}

Channels == UNION {OrderPlaced, StockReserved, StockRejected, PaymentCharged,
                   PaymentDeclined, StockReleased}

Announcements == ({"created/orders", "created/inventory"} \X Products)
                   \cup ({"registered/orders", "registered/payments"} \X Users)

Messages == (Channels \X Orders) \cup Announcements

\* The users and products exist and are announced; no service has heard yet.
BusInit == /\ bus = [m \in Messages |-> IF m \in Announcements THEN 1 ELSE 0]
           /\ redelivered = 0

InFlight(m) == bus[m] > 0

Consume(m) == /\ InFlight(m)
              /\ bus' = [bus EXCEPT ![m] = @ - 1]
              /\ UNCHANGED redelivered

Publish(fact, o) ==
  /\ bus' = [m \in Messages |-> IF m \in fact \X {o} THEN bus[m] + 1 ELSE bus[m]]
  /\ UNCHANGED redelivered

\* A handler that takes up m and publishes a fact about the same order.
React(m, fact) ==
  /\ InFlight(m)
  /\ bus' = [n \in Messages |-> IF n = m THEN bus[n] - 1
                                ELSE IF n \in fact \X {m[2]} THEN bus[n] + 1 ELSE bus[n]]
  /\ UNCHANGED redelivered

Redeliver(m) == /\ m \in Channels \X Orders
                /\ InFlight(m)
                /\ bus' = [bus EXCEPT ![m] = @ + 1]
                /\ redelivered' = redelivered + 1

BusTypeOK == /\ bus \in [Messages -> Nat]
             /\ redelivered \in Nat
============================================================================
