----------------------- MODULE ChoreographyInventory -----------------------
(***************************************************************************)
(* inventory-service of src/choreography: it reserves when it hears of an  *)
(* order and releases when it hears of a declined payment.  Both calls     *)
(* hold the ledger's lock from beginning to end, and the stock's inside    *)
(* it, so each is one step although they run in tasks of their own.        *)
(***************************************************************************)
EXTENDS ChoreographyBus, Integers

CONSTANTS StartingStock,    \* seed.rs: STARTING_STOCK_UNITS
          UnitWord          \* 2^32 in the code: units are u32

ASSUME InventoryAssumption == UnitWord \in Nat /\ StartingStock \in 0..(UnitWord - 1)

VARIABLES stock,            \* [Products -> units]; a missing entry reads as 0
          reservations      \* the ledger: [Orders -> Outcomes]

inventoryVars == <<stock, reservations>>

Outcomes == {"None", "Reserved", "Rejected", "AlreadyReleased"}

InventoryInit == /\ stock = [p \in Products |-> 0]
                 /\ reservations = [o \in Orders |-> "None"]

\* seed.rs consume, repository.rs seed
SeedProduct(p) == /\ Consume(<<"created/inventory", p>>)
                  /\ stock' = [stock EXCEPT ![p] = StartingStock]
                  /\ UNCHANGED reservations

\* The check of repository.rs reserve, every line on its own.
EnoughForEachLine(lines) == \A p \in Products : stock[p] >= lines.largest[p]

\* Mutant: the tombstone of a released order does not count as an entry.
ReserveAfterRelease(o, lines) ==
  \/ /\ reservations[o] = "Reserved"
     /\ React(<<"placed/inventory", o>>, StockReserved)
     /\ UNCHANGED inventoryVars
  \/ /\ reservations[o] = "Rejected"
     /\ React(<<"placed/inventory", o>>, StockRejected)
     /\ UNCHANGED inventoryVars
  \/ /\ reservations[o] \in {"None", "AlreadyReleased"}
     /\ InFlight(<<"placed/inventory", o>>)
     /\ EnoughForEachLine(lines)
     /\ stock' = [p \in Products |-> (stock[p] - lines.total[p]) % UnitWord]
     /\ reservations' = [reservations EXCEPT ![o] = "Reserved"]
     /\ React(<<"placed/inventory", o>>, StockReserved)
  \/ /\ reservations[o] \in {"None", "AlreadyReleased"}
     /\ InFlight(<<"placed/inventory", o>>)
     /\ ~EnoughForEachLine(lines)
     /\ reservations' = [reservations EXCEPT ![o] = "Rejected"]
     /\ UNCHANGED stock
     /\ React(<<"placed/inventory", o>>, StockRejected)

\* reactor.rs consume_placed, service.rs reserve, repository.rs reserve.  An
\* outcome on record is announced again, a released order is passed over.
Reserve(o, lines) ==
  \/ /\ reservations[o] = "Reserved"
     /\ React(<<"placed/inventory", o>>, StockReserved)
     /\ UNCHANGED inventoryVars
  \/ /\ reservations[o] = "Rejected"
     /\ React(<<"placed/inventory", o>>, StockRejected)
     /\ UNCHANGED inventoryVars
  \/ /\ reservations[o] = "AlreadyReleased"
     /\ Consume(<<"placed/inventory", o>>)
     /\ UNCHANGED inventoryVars
  \/ /\ reservations[o] = "None"
     /\ InFlight(<<"placed/inventory", o>>)
     /\ EnoughForEachLine(lines)
     /\ stock' = [p \in Products |-> (stock[p] - lines.total[p]) % UnitWord]
     /\ reservations' = [reservations EXCEPT ![o] = "Reserved"]
     /\ React(<<"placed/inventory", o>>, StockReserved)
  \/ /\ reservations[o] = "None"
     /\ InFlight(<<"placed/inventory", o>>)
     /\ ~EnoughForEachLine(lines)
     /\ reservations' = [reservations EXCEPT ![o] = "Rejected"]
     /\ UNCHANGED stock
     /\ React(<<"placed/inventory", o>>, StockRejected)

\* reactor.rs consume_declined, service.rs release, repository.rs release.
Release(o, lines) ==
  /\ React(<<"declined/inventory", o>>, StockReleased)
  /\ \/ /\ reservations[o] = "Reserved"
        /\ stock' = [p \in Products |-> (stock[p] + lines.total[p]) % UnitWord]
        /\ reservations' = [reservations EXCEPT ![o] = "AlreadyReleased"]
     \/ /\ reservations[o] # "Reserved"
        /\ UNCHANGED inventoryVars

InventoryTypeOK == /\ stock \in [Products -> 0..(UnitWord - 1)]
                   /\ reservations \in [Orders -> Outcomes]
============================================================================
