-------------------------------- MODULE Saga --------------------------------
(***************************************************************************)
(* The saga lab as a whole: the orchestrator (SagaOrders), its two         *)
(* participants (SagaInventory, SagaPayments) and notifications-service,   *)
(* connected by NATS (SagaBus).                                            *)
(***************************************************************************)
EXTENDS SagaOrders, SagaInventory, SagaPayments, Functions

VARIABLE emails             \* <<order, outcome>> pairs notifications sent

vars == <<ordersVars, inventoryVars, paymentsVars, emails, busVars>>

Init == /\ BusInit /\ OrdersInit /\ InventoryInit /\ PaymentsInit
        /\ emails = {}

\* notifications-service main.rs: consume_confirmed and consume_failed log the
\* email they stand for, and keep nothing.
Email(o) ==
  \/ /\ Consume(<<"OrderConfirmed", o>>)
     /\ emails' = emails \cup {<<o, "confirmed">>}
  \/ /\ Consume(<<"OrderFailed", o>>)
     /\ emails' = emails \cup {<<o, "failed">>}

OrdersStep(o) == /\ \/ \E u \in Users, c \in Carts : Place(o, u, c)
                    \/ OnReserveSucceeded(o)
                    \/ OnReserveFailed(o)
                    \/ OnChargeSucceeded(o)
                    \/ OnChargeFailed(o)
                    \/ OnReleaseSucceeded(o)
                 /\ UNCHANGED <<inventoryVars, paymentsVars, emails>>

InventoryStep(o) == /\ Reserve(o, cart[o]) \/ Release(o, cart[o])
                    /\ UNCHANGED <<ordersVars, paymentsVars, emails>>

InventoryDeadlock == /\ \E o, p \in Orders : WaitForEachOther(o, p)
                     /\ UNCHANGED <<ordersVars, paymentsVars, emails>>

PaymentsStep(o) == /\ Charge(o, buyer[o], cart[o].cents)
                   /\ UNCHANGED <<ordersVars, inventoryVars, emails>>

NotificationsStep(o) == /\ Email(o)
                        /\ UNCHANGED <<ordersVars, inventoryVars, paymentsVars>>

\* The consumers of the announcements, in three services.
ProjectUser(u)    == RecordUser(u) /\ UNCHANGED <<inventoryVars, paymentsVars, emails>>
ProjectProduct(p) == RecordPrice(p) /\ UNCHANGED <<inventoryVars, paymentsVars, emails>>
SeedStock(p)      == SeedProduct(p) /\ UNCHANGED <<ordersVars, paymentsVars, emails>>
SeedWallet(u)     == OpenWallet(u) /\ UNCHANGED <<ordersVars, inventoryVars, emails>>

Faults(m) == /\ Redeliver(m) \/ Lose(m)
             /\ UNCHANGED <<ordersVars, inventoryVars, paymentsVars, emails>>

Next == \/ \E o \in Orders : \/ OrdersStep(o)
                             \/ InventoryStep(o)
                             \/ PaymentsStep(o)
                             \/ NotificationsStep(o)
        \/ \E u \in Users : ProjectUser(u) \/ SeedWallet(u)
        \/ \E p \in Products : ProjectProduct(p) \/ SeedStock(p)
        \/ \E m \in Messages : Faults(m)
        \/ InventoryDeadlock

Spec == Init /\ [][Next]_vars

\* Each subscription's loop eventually takes up a message in flight and
\* finishes it: tokio schedules every task, and no handler waits for another
\* service.  Only inventory's two wait for each other, and may do so for ever:
\* once they are stuck, Reserve and Release are disabled and owe nothing.
\* Nobody is obliged to place an order, and nothing obliges the two to meet.
Fairness == \A o \in Orders :
  /\ WF_vars(OnReserveSucceeded(o) /\ OrdersStep(o))
  /\ WF_vars(OnReserveFailed(o) /\ OrdersStep(o))
  /\ WF_vars(OnChargeSucceeded(o) /\ OrdersStep(o))
  /\ WF_vars(OnChargeFailed(o) /\ OrdersStep(o))
  /\ WF_vars(OnReleaseSucceeded(o) /\ OrdersStep(o))
  /\ WF_vars(Reserve(o, cart[o]) /\ InventoryStep(o))
  /\ WF_vars(Release(o, cart[o]) /\ InventoryStep(o))
  /\ WF_vars(PaymentsStep(o))
  /\ WF_vars(NotificationsStep(o))

FairSpec == Spec /\ Fairness

-----------------------------------------------------------------------------
(* Properties *)

\* Every variable keeps its type; in particular no count goes below zero and
\* no placed order loses its buyer or cart.
TypeOK == /\ BusTypeOK /\ OrdersTypeOK /\ InventoryTypeOK /\ PaymentsTypeOK
          /\ emails \subseteq Orders \X {"confirmed", "failed"}

\* The orchestrator confirms an order only while inventory really holds its
\* units and payments really took its price, however replies are lost,
\* repeated or overtaken.
ConfirmedIsPaidAndReserved ==
  \A o \in Orders : status[o] = "Confirmed" =>
    reservations[o] = "Reserved" /\ charges[o] = "Charged"

\* An order that ended as Failed was not charged, and cannot be later: no
\* charge is left in flight that the ledger would not refuse.
FailedIsNeverCharged ==
  \A o \in Orders : status[o] = "Failed" =>
    /\ charges[o] # "Charged"
    /\ InFlight(<<"ChargeRequested", o>>) => charges[o] = "Failed"

\* An order that ended as Failed holds no stock: the compensation undid the
\* reservation and nothing reserves again.
FailedHoldsNoStock ==
  \A o \in Orders : status[o] = "Failed" => reservations[o] # "Reserved"

\* A buyer is never told both that the order is confirmed and that it failed.
OneOutcomeEmail ==
  \A o \in Orders : ~ {<<o, "confirmed">>, <<o, "failed">>} \subseteq emails

Reserved == {o \in Orders : reservations[o] = "Reserved"}
Charged  == {o \in Orders : charges[o] = "Charged"}

Held(p)  == SumFunctionOnSet([o \in Orders |-> cart[o].total[p]], Reserved)
Spent(u) == SumFunctionOnSet([o \in Orders |-> cart[o].cents], {o \in Charged : buyer[o] = u})

\* Units are neither created nor lost and a wallet is debited once for each
\* charged order of its owner, never below zero: what is on a shelf and what
\* the ledger holds add up to the seed, what is in a wallet and what was
\* charged to the opening balance, whatever is redelivered.
BooksBalance ==
  /\ \A p \in Products : stock[p] + Held(p) \in {0, StartingStock}
  /\ \A u \in Users : wallets[u] >= 0 /\ wallets[u] + Spent(u) \in {0, StartingBalance}

\* An order for more units of a product than were ever seeded is not
\* reserved (README.md:204, the test fails_when_stock_insufficient).
InsufficientStockFails ==
  \A o \in Orders : reservations[o] = "Reserved" =>
    \A p \in Products : cart[o].total[p] <= StartingStock

Contract == INSTANCE SagaContract WITH
  phase <- [o \in Orders |-> IF status[o] \in {"Pending", "AwaitingPayment", "Compensating"}
                               THEN "Open" ELSE status[o]],
  holding <- Reserved,
  paid <- Charged,
  everHeld <- Reserved \cup {o \in Orders : charges[o] = "Failed"}

\* The saga implements the transaction of SagaContract: stock before money,
\* each taken at most once, both kept by a confirmed order and neither by a
\* failed one.
ImplementsContract == Contract!Spec

\* Every order comes to an end and its buyer is told how, unless a message was
\* lost or inventory-service's two tasks wait for each other's lock: those are
\* the two things nothing in the lab recovers from.
EveryBuyerIsTold ==
  \A o \in Orders : status[o] = "Pending" ~>
    \/ lost > 0 \/ stuck
    \/ /\ status[o] \in Terminal
       /\ <<o, IF status[o] = "Confirmed" THEN "confirmed" ELSE "failed">> \in emails
=============================================================================
