---------------------------- MODULE Choreography ----------------------------
(***************************************************************************)
(* The choreography lab as a whole: four services that react to each       *)
(* other's facts, and no one in charge.  It is held to the contract of the *)
(* saga lab (SagaContract).                                                *)
(***************************************************************************)
EXTENDS ChoreographyOrders, ChoreographyInventory, ChoreographyPayments,
        ChoreographyNotifications, FiniteSets, Functions

CONSTANT MaxLoad            \* bound on orders placed plus messages repeated

ASSUME LoadAssumption == MaxLoad \in Nat

vars == <<ordersVars, inventoryVars, paymentsVars, notificationsVars, busVars>>

Init == /\ BusInit /\ OrdersInit /\ InventoryInit /\ PaymentsInit /\ NotificationsInit

Load == Cardinality({o \in Orders : status[o] # "Absent"}) + redelivered

OrdersStep(o) == /\ \/ Load < MaxLoad /\ \E u \in Users, c \in Carts : Place(o, u, c)
                    \/ Tracker(o)
                 /\ UNCHANGED <<inventoryVars, paymentsVars, notificationsVars>>

InventoryStep(o) == /\ Reserve(o, cart[o]) \/ Release(o, cart[o])
                    /\ UNCHANGED <<ordersVars, paymentsVars, notificationsVars>>

PaymentsStep(o) == /\ \/ JoinPlaced(o) \/ JoinReserved(o)
                      \/ \E t \in Tasks : Charge(t, o, buyer[o], cart[o].cents)
                   /\ UNCHANGED <<ordersVars, inventoryVars, notificationsVars>>

NotificationsStep(o) == /\ \/ RecordPlaced(o)
                           \/ HearCharged(o) \/ HearRejected(o) \/ HearDeclined(o)
                        /\ UNCHANGED <<ordersVars, inventoryVars, paymentsVars>>

\* The consumers of the announcements, in three services.
ProjectUser(u)    == /\ RecordUser(u)
                     /\ UNCHANGED <<inventoryVars, paymentsVars, notificationsVars>>
ProjectProduct(p) == /\ RecordPrice(p)
                     /\ UNCHANGED <<inventoryVars, paymentsVars, notificationsVars>>
SeedStock(p)      == /\ SeedProduct(p)
                     /\ UNCHANGED <<ordersVars, paymentsVars, notificationsVars>>
SeedWallet(u)     == /\ OpenWallet(u)
                     /\ UNCHANGED <<ordersVars, inventoryVars, notificationsVars>>

Again(m) == /\ Load < MaxLoad
            /\ Redeliver(m)
            /\ UNCHANGED <<ordersVars, inventoryVars, paymentsVars, notificationsVars>>

Next == \/ \E o \in Orders : \/ OrdersStep(o)
                             \/ InventoryStep(o)
                             \/ PaymentsStep(o)
                             \/ NotificationsStep(o)
        \/ \E u \in Users : ProjectUser(u) \/ SeedWallet(u)
        \/ \E p \in Products : ProjectProduct(p) \/ SeedStock(p)
        \/ \E m \in Messages : Again(m)

Spec == Init /\ [][Next]_vars

\* What some task can do next: take up a message, or make a charge.
Handlers == \E o \in Orders :
  \/ /\ Tracker(o)
     /\ UNCHANGED <<inventoryVars, paymentsVars, notificationsVars>>
  \/ InventoryStep(o) \/ PaymentsStep(o) \/ NotificationsStep(o)

\* tokio runs every task that can go on, and no task waits for another service.
\* Of that it is enough that something goes on while anything can.
FairSpec == Spec /\ WF_vars(Handlers)

-----------------------------------------------------------------------------
(* Properties *)

\* Every variable keeps its type; in particular no wallet goes below zero.
TypeOK == /\ BusTypeOK /\ OrdersTypeOK /\ InventoryTypeOK /\ PaymentsTypeOK
          /\ NotificationsTypeOK

Reserved     == {o \in Orders : reservations[o] = "Reserved"}
Charged      == {o \in Orders : charges[o] = "Charged"}
EverReserved == {o \in Orders : reservations[o] \in {"Reserved", "AlreadyReleased"}}

Units(p, orders) == SumFunctionOnSet([o \in Orders |-> cart[o].total[p]], orders)
Cents(orders)    == SumFunctionOnSet([o \in Orders |-> cart[o].cents], orders)

\* What is on a shelf and what the ledger holds add up to the seed, and what is
\* in a wallet, which is never overdrawn, and what its owner was charged to the
\* opening balance.
BooksBalance ==
  /\ \A p \in Products :
       stock[p] + Units(p, Reserved) \in {0, StartingStock}
  /\ \A u \in Users :
       /\ wallets[u] >= 0
       /\ wallets[u] + Cents({o \in Charged : buyer[o] = u}) \in {0, StartingBalance}

\* A buyer gets at most one email, and it tells what happened: confirmed if the
\* order is paid and holds its units, failed if it is not and never will be.
OneTrueEmail ==
  \A o \in Orders :
    /\ emails[<<o, "confirmed">>] + emails[<<o, "failed">>] <= 1
    /\ emails[<<o, "confirmed">>] > 0 => charges[o] = "Charged" /\ reservations[o] = "Reserved"
    /\ emails[<<o, "failed">>] > 0 => charges[o] = "Declined" \/ reservations[o] = "Rejected"

Contract == INSTANCE SagaContract WITH
  phase <- [o \in Orders |-> IF status[o] \in {"Pending", "AwaitingPayment", "Compensating"}
                               THEN "Open" ELSE status[o]],
  holding <- Reserved, paid <- Charged, everHeld <- EverReserved

\* Without an orchestrator, and with every fact redeliverable, an order is
\* still the transaction the saga promises: stock before money, each at most
\* once, and no status Confirmed or Failed that is not the last word on both.
ImplementsContract == Contract!Spec

Settled(o) == \/ reservations[o] \in {"Rejected", "AlreadyReleased"}
              \/ charges[o] = "Charged"

\* Every order is settled and its buyer told, whatever the tracker makes of it
\* ("the workflow survives this service", tracker.rs).
EveryOrderIsSettled ==
  \A o \in Orders : status[o] = "Pending" ~>
    Settled(o) /\ (emails[<<o, "confirmed">>] > 0 \/ emails[<<o, "failed">>] > 0)

\* The customer has been told that the order failed while the tracker still
\* says otherwise only "for a window of a few milliseconds" (registry.rs).
TrackerCatchesUp ==
  \A o \in Orders : emails[<<o, "failed">>] > 0 ~> status[o] = "Failed"
=============================================================================
