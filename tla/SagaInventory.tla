--------------------------- MODULE SagaInventory ---------------------------
(***************************************************************************)
(* inventory-service of src/saga: stock counts, and the idempotency ledger *)
(* that remembers the outcome of each saga's reservation.                  *)
(*                                                                         *)
(* A vector of order lines is abstracted to what `reserve` sees of it, per *)
(* product: largest[p], the largest single line, which is all that the     *)
(* line-by-line check can reject, and total[p], what the second loop       *)
(* subtracts.  They differ when a product is on several lines.             *)
(*                                                                         *)
(* Each handler is one step: InventoryLocks has the lock-by-lock version,  *)
(* in which a reservation and a release can wait for each other's lock for *)
(* ever.  Here that is the step WaitForEachOther, after which `stuck` says *)
(* that no handler of this service finishes any more.                      *)
(***************************************************************************)
EXTENDS SagaBus, Integers

CONSTANTS StartingStock,    \* seed.rs: STARTING_STOCK_UNITS
          UnitWord          \* 2^32 in the code: units are u32

ASSUME InventoryAssumption == UnitWord \in Nat /\ StartingStock \in 0..(UnitWord - 1)

VARIABLES stock,            \* [Products -> units]; a missing entry reads as 0
          reservations,     \* the ledger: [Orders -> Outcomes]
          stuck             \* both locks are held for good

inventoryVars == <<stock, reservations, stuck>>

Outcomes == {"None", "Reserved", "Failed"}

InventoryInit == /\ stock = [p \in Products |-> 0]
                 /\ reservations = [o \in Orders |-> "None"]
                 /\ stuck = FALSE

\* seed.rs consume, service.rs seed_product, repository.rs seed: the entry
\* is overwritten, whatever was there.
SeedProduct(p) ==
  /\ ~stuck
  /\ Consume(<<"ProductCreated/inventory", p>>)
  /\ stock' = [stock EXCEPT ![p] = StartingStock]
  /\ UNCHANGED <<reservations, stuck>>

\* Mutant: the check asks for some stock instead of enough.
SomeForEachLine(lines) == \A p \in Products : lines.largest[p] > 0 => stock[p] > 0

\* The first loop of repository.rs reserve: every line on its own.
EnoughForEachLine(lines) == \A p \in Products : stock[p] >= lines.largest[p]

\* The second loop, and its inverse in release.  The services are built with
\* --release, where u32 arithmetic wraps.
Subtract(lines) == [p \in Products |-> (stock[p] - lines.total[p]) % UnitWord]
AddBack(lines)  == [p \in Products |-> (stock[p] + lines.total[p]) % UnitWord]

\* reactor.rs consume_reserve, service.rs reserve, repository.rs reserve.  A
\* saga with an entry in the ledger gets that outcome's reply again.
Reserve(o, lines) ==
  /\ ~stuck
  /\ \/ /\ reservations[o] = "Reserved"
        /\ Answer(<<"ReserveStockRequested", o>>, <<"StockReserved", o>>)
        /\ UNCHANGED inventoryVars
     \/ /\ reservations[o] = "Failed"
        /\ Answer(<<"ReserveStockRequested", o>>, <<"StockReserveFailed", o>>)
        /\ UNCHANGED inventoryVars
     \/ /\ reservations[o] = "None"
        /\ InFlight(<<"ReserveStockRequested", o>>)
        /\ EnoughForEachLine(lines)
        /\ stock' = Subtract(lines)
        /\ reservations' = [reservations EXCEPT ![o] = "Reserved"]
        /\ UNCHANGED stuck
        /\ Answer(<<"ReserveStockRequested", o>>, <<"StockReserved", o>>)
     \/ /\ reservations[o] = "None"
        /\ InFlight(<<"ReserveStockRequested", o>>)
        /\ ~EnoughForEachLine(lines)
        /\ reservations' = [reservations EXCEPT ![o] = "Failed"]
        /\ UNCHANGED <<stock, stuck>>
        /\ Answer(<<"ReserveStockRequested", o>>, <<"StockReserveFailed", o>>)

\* reactor.rs consume_release, service.rs release, repository.rs release: only
\* a Reserved entry is undone and forgotten, but the reply goes out always.
Release(o, lines) ==
  /\ ~stuck
  /\ Answer(<<"ReleaseStockRequested", o>>, <<"StockReleased", o>>)
  /\ \/ /\ reservations[o] = "Reserved"
        /\ stock' = AddBack(lines)
        /\ reservations' = [reservations EXCEPT ![o] = "None"]
        /\ UNCHANGED stuck
     \/ /\ reservations[o] # "Reserved"
        /\ UNCHANGED inventoryVars

\* repository.rs reserve takes the stock lock and then asks for the ledger's,
\* release takes the ledger's and then asks for the stock's.  Begun together,
\* with a reservation to make and one to undo, neither returns: no reply, and
\* no later command of either task.  What reserve subtracted by then is behind
\* a lock nobody gets again, so stock keeps the last value anyone could read.
WaitForEachOther(o, p) ==
  /\ ~stuck
  /\ InFlight(<<"ReserveStockRequested", o>>) /\ reservations[o] = "None"
  /\ InFlight(<<"ReleaseStockRequested", p>>) /\ reservations[p] = "Reserved"
  /\ stuck' = TRUE
  /\ UNCHANGED <<stock, reservations, busVars>>

InventoryTypeOK == /\ stock \in [Products -> 0..(UnitWord - 1)]
                   /\ reservations \in [Orders -> Outcomes]
                   /\ stuck \in BOOLEAN
============================================================================
