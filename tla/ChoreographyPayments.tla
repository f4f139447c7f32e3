------------------------ MODULE ChoreographyPayments ------------------------
(***************************************************************************)
(* payments-service of src/choreography: a charge needs orders.placed (who *)
(* and how much) and inventory.stock_reserved (that it is time), which two *)
(* tasks hear in either order.  Whichever hears the second half charges.   *)
(*                                                                         *)
(* Between the join and the charge no lock is held: the other task, and    *)
(* its charge, may come in between.                                        *)
(***************************************************************************)
EXTENDS ChoreographyBus, Integers

CONSTANTS StartingBalance,  \* seed.rs: STARTING_BALANCE_CENTS
          Nobody            \* a task that is charging no order

ASSUME PaymentsAssumption == StartingBalance \in Nat /\ Nobody \notin Orders

VARIABLES wallets,          \* [Users -> cents]; a missing wallet reads as 0
          charges,          \* the ledger: [Orders -> None, Charged or Declined]
          details,          \* join: the orders whose placement was heard
          parked,           \* join: reservations waiting for the details
          charging          \* [Tasks -> the order to be charged, or Nobody]

joinVars == <<details, parked>>
paymentsVars == <<wallets, charges, joinVars, charging>>

Tasks == {"placed", "reserved"}

PaymentsInit == /\ wallets = [u \in Users |-> 0]
                /\ charges = [o \in Orders |-> "None"]
                /\ details = {} /\ parked = {}
                /\ charging = [t \in Tasks |-> Nobody]

\* seed.rs consume, repository.rs open_wallet
OpenWallet(u) == /\ Consume(<<"registered/payments", u>>)
                 /\ wallets' = [wallets EXCEPT ![u] = StartingBalance]
                 /\ UNCHANGED <<charges, joinVars, charging>>

\* Mutant: a parked reservation is left where it is.
JoinPlacedOnly(o) == /\ charging["placed"] = Nobody
                     /\ Consume(<<"placed/payments", o>>)
                     /\ details' = details \cup {o}
                     /\ UNCHANGED <<wallets, charges, parked, charging>>

\* service.rs on_order_placed, repository.rs join_placed
JoinPlaced(o) == /\ charging["placed"] = Nobody
                 /\ Consume(<<"placed/payments", o>>)
                 /\ details' = details \cup {o}
                 /\ parked' = parked \ {o}
                 /\ charging' = [charging EXCEPT !["placed"] = IF o \in parked THEN o ELSE Nobody]
                 /\ UNCHANGED <<wallets, charges>>

\* service.rs on_stock_reserved, repository.rs join_reserved
JoinReserved(o) == /\ charging["reserved"] = Nobody
                   /\ Consume(<<"reserved/payments", o>>)
                   /\ \/ /\ o \in details
                         /\ charging' = [charging EXCEPT !["reserved"] = o]
                         /\ UNCHANGED parked
                      \/ /\ o \notin details
                         /\ parked' = parked \cup {o}
                         /\ UNCHANGED charging
                   /\ UNCHANGED <<wallets, charges, details>>

\* Mutant: the ledger is not consulted.
ChargeIgnoringLedger(t, o, u, amount) ==
  /\ charging[t] = o
  /\ charging' = [charging EXCEPT ![t] = Nobody]
  /\ UNCHANGED joinVars
  /\ \/ /\ wallets[u] >= amount
        /\ wallets' = [wallets EXCEPT ![u] = @ - amount]
        /\ charges' = [charges EXCEPT ![o] = "Charged"]
        /\ Publish(PaymentCharged, o)
     \/ /\ wallets[u] < amount
        /\ charges' = [charges EXCEPT ![o] = "Declined"]
        /\ UNCHANGED wallets
        /\ Publish(PaymentDeclined, o)

\* service.rs charge, repository.rs charge: check and commit under the
\* ledger's lock; an outcome on record is announced again.
Charge(t, o, u, amount) ==
  /\ charging[t] = o
  /\ charging' = [charging EXCEPT ![t] = Nobody]
  /\ UNCHANGED joinVars
  /\ \/ /\ charges[o] = "Charged"
        /\ UNCHANGED <<wallets, charges>>
        /\ Publish(PaymentCharged, o)
     \/ /\ charges[o] = "Declined"
        /\ UNCHANGED <<wallets, charges>>
        /\ Publish(PaymentDeclined, o)
     \/ /\ charges[o] = "None"
        /\ wallets[u] >= amount
        /\ wallets' = [wallets EXCEPT ![u] = @ - amount]
        /\ charges' = [charges EXCEPT ![o] = "Charged"]
        /\ Publish(PaymentCharged, o)
     \/ /\ charges[o] = "None"
        /\ wallets[u] < amount
        /\ charges' = [charges EXCEPT ![o] = "Declined"]
        /\ UNCHANGED wallets
        /\ Publish(PaymentDeclined, o)

PaymentsTypeOK == /\ wallets \in [Users -> Nat]
                  /\ charges \in [Orders -> {"None", "Charged", "Declined"}]
                  /\ details \subseteq Orders /\ parked \subseteq Orders
                  /\ charging \in [Tasks -> Orders \cup {Nobody}]
============================================================================
