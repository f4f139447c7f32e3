--------------------------- MODULE InventoryLocks ---------------------------
(***************************************************************************)
(* The repository of saga's inventory-service, lock by lock.  It keeps     *)
(* stock and reservations under two RwLocks and is called by three tasks   *)
(* that run concurrently: consume_reserve, consume_release (reactor.rs)    *)
(* and the seeder (seed.rs).  SagaInventory takes each call as one step;   *)
(* this module checks what the locks make of that.                         *)
(*                                                                         *)
(* An order asks for Units[o] of the one product.  A guard dropped at the  *)
(* end of a function is dropped in the step that returns.  The read of the *)
(* ledger at the top of reserve holds its guard over no other await, so it *)
(* is one step that waits for the write guard to be free.                  *)
(***************************************************************************)
EXTENDS Naturals, FiniteSets, Functions

CONSTANTS Orders,
          Units,            \* [Orders -> units asked for]
          StartingStock,
          MaxSeeds,         \* deliveries of product_created: 1 unless repeated
          MaxRepeats        \* bound on commands delivered a second time

ASSUME LocksAssumption == /\ Units \in [Orders -> Nat \ {0}]
                          /\ StartingStock \in Nat /\ MaxSeeds \in Nat /\ MaxRepeats \in Nat

VARIABLES
  stock, reservations,      \* the data behind the two locks
  stockLock, ledgerLock,    \* who holds the write guard: a task or "free"
  reserving, releasing,     \* per task: where it is, and for which order
  toReserve, toRelease,     \* the commands waiting for each task
  answered,                 \* <<command, order>> pairs replied to
  seeds, repeats            \* how often the product was seeded, a command repeated

data == <<stock, reservations>>
locks == <<stockLock, ledgerLock>>
vars == <<data, locks, reserving, releasing, toReserve, toRelease, answered, seeds, repeats>>

Idle == [at |-> "idle"]
At(step, o) == [at |-> step, order |-> o]

\* The orchestrator has placed every order; nothing has been handled yet.
Init == /\ stock = 0 /\ seeds = 0 /\ repeats = 0
        /\ reservations = [o \in Orders |-> "None"]
        /\ stockLock = "free" /\ ledgerLock = "free"
        /\ reserving = Idle /\ releasing = Idle
        /\ toReserve = Orders /\ toRelease = {}
        /\ answered = {}

\* repository.rs seed: one write under the stock lock.
Seed == /\ seeds < MaxSeeds
        /\ stockLock = "free"
        /\ stock' = StartingStock
        /\ seeds' = seeds + 1
        /\ UNCHANGED <<reservations, locks, reserving, releasing, toReserve, toRelease, answered, repeats>>

\* The orchestrator asks for a release after it saw the reservation succeed
\* and the charge fail.
AskRelease(o) ==
  /\ <<"reserve", o>> \in answered /\ reservations[o] = "Reserved"
  /\ o \notin toRelease /\ releasing # At("ledger", o) /\ releasing # At("stock", o)
  /\ <<"release", o>> \notin answered
  /\ toRelease' = toRelease \cup {o}
  /\ UNCHANGED <<data, locks, reserving, releasing, toReserve, answered, seeds, repeats>>

\* A command that was answered before is delivered again.
Repeat(o) ==
  /\ repeats < MaxRepeats
  /\ repeats' = repeats + 1
  /\ \/ /\ <<"reserve", o>> \in answered
        /\ toReserve' = toReserve \cup {o}
        /\ UNCHANGED toRelease
     \/ /\ <<"release", o>> \in answered
        /\ toRelease' = toRelease \cup {o}
        /\ UNCHANGED toReserve
  /\ UNCHANGED <<data, locks, reserving, releasing, answered, seeds>>

-----------------------------------------------------------------------------
(* consume_reserve *)

TakeReserve(o) ==
  /\ reserving = Idle
  /\ o \in toReserve
  /\ toReserve' = toReserve \ {o}
  /\ reserving' = At("read", o)
  /\ UNCHANGED <<data, locks, releasing, toRelease, answered, seeds, repeats>>

\* repository.rs 57-59: reservations.read(), dropped before the next line.
ReadLedger(o) ==
  /\ reserving = At("read", o)
  /\ ledgerLock = "free"
  /\ \/ /\ reservations[o] = "None"
        /\ reserving' = At("stock", o)
        /\ UNCHANGED answered
     \/ /\ reservations[o] # "None"
        /\ reserving' = Idle
        /\ answered' = answered \cup {<<"reserve", o>>}
  /\ UNCHANGED <<data, locks, releasing, toReserve, toRelease, seeds, repeats>>

\* Mutant: the check runs before the stock lock is taken, and no lock is held
\* between it and the ledger.
CheckWithoutLock(o) ==
  /\ reserving = At("stock", o)
  /\ \/ /\ stock >= Units[o]
        /\ stock' = stock - Units[o]
        /\ reserving' = At("insertReserved", o)
     \/ /\ stock < Units[o]
        /\ reserving' = At("insertFailed", o)
        /\ UNCHANGED stock
  /\ UNCHANGED <<reservations, locks, releasing, toReserve, toRelease, answered, seeds, repeats>>

\* repository.rs 61-75: stock.write(), held from here to the return, then the
\* check and the subtraction.
CheckStock(o) ==
  /\ reserving = At("stock", o)
  /\ stockLock = "free"
  /\ stockLock' = "reserve"
  /\ \/ /\ stock >= Units[o]
        /\ stock' = stock - Units[o]
        /\ reserving' = At("insertReserved", o)
     \/ /\ stock < Units[o]
        /\ reserving' = At("insertFailed", o)
        /\ UNCHANGED stock
  /\ UNCHANGED <<reservations, ledgerLock, releasing, toReserve, toRelease, answered, seeds, repeats>>

\* repository.rs 68-69 and 77-79: reservations.write() while holding stock;
\* both guards go at the return, and service.rs replies.
InsertOutcome(o, outcome) ==
  /\ \/ outcome = "Reserved" /\ reserving = At("insertReserved", o)
     \/ outcome = "Failed" /\ reserving = At("insertFailed", o)
  /\ ledgerLock = "free"
  /\ reservations' = [reservations EXCEPT ![o] = outcome]
  /\ stockLock' = "free"
  /\ reserving' = Idle
  /\ answered' = answered \cup {<<"reserve", o>>}
  /\ UNCHANGED <<stock, ledgerLock, releasing, toReserve, toRelease, seeds, repeats>>

-----------------------------------------------------------------------------
(* consume_release *)

TakeRelease(o) ==
  /\ releasing = Idle
  /\ o \in toRelease
  /\ toRelease' = toRelease \ {o}
  /\ releasing' = At("ledger", o)
  /\ UNCHANGED <<data, locks, reserving, toReserve, answered, seeds, repeats>>

\* repository.rs 83-84: reservations.write(), held to the return.
LookUp(o) ==
  /\ releasing = At("ledger", o)
  /\ ledgerLock = "free"
  /\ \/ /\ reservations[o] = "Reserved"
        /\ ledgerLock' = "release"
        /\ releasing' = At("stock", o)
        /\ UNCHANGED answered
     \/ /\ reservations[o] # "Reserved"
        /\ releasing' = Idle
        /\ answered' = answered \cup {<<"release", o>>}
        /\ UNCHANGED ledgerLock
  /\ UNCHANGED <<data, stockLock, reserving, toReserve, toRelease, seeds, repeats>>

\* repository.rs 85-89: stock.write() while holding the ledger, the units go
\* back, the entry is removed, and both guards go.
PutBack(o) ==
  /\ releasing = At("stock", o)
  /\ stockLock = "free"
  /\ stock' = stock + Units[o]
  /\ reservations' = [reservations EXCEPT ![o] = "None"]
  /\ ledgerLock' = "free"
  /\ releasing' = Idle
  /\ answered' = answered \cup {<<"release", o>>}
  /\ UNCHANGED <<stockLock, reserving, toReserve, toRelease, seeds, repeats>>

ReserveTask(o) == \/ TakeReserve(o) \/ ReadLedger(o) \/ CheckStock(o)
                  \/ \E outcome \in {"Reserved", "Failed"} : InsertOutcome(o, outcome)
ReleaseTask(o) == TakeRelease(o) \/ LookUp(o) \/ PutBack(o)

Next == \/ Seed
        \/ \E o \in Orders : AskRelease(o) \/ Repeat(o) \/ ReserveTask(o) \/ ReleaseTask(o)

Spec == Init /\ [][Next]_vars

\* tokio runs every task that can go on.  (A task waiting for a lock that is
\* free goes on; one waiting for a lock that is never freed does not.)
FairSpec == Spec /\ \A o \in Orders : WF_vars(ReserveTask(o)) /\ WF_vars(ReleaseTask(o))

-----------------------------------------------------------------------------
(* Properties *)

Reserved == {o \in Orders : reservations[o] = "Reserved"}

\* Whoever can take the stock lock (GET /stock/:id, the seeder, the other
\* task) finds the shelf and the ledger in agreement: a reservation half made
\* is never observed (repository.rs:28-29).
NoPartialReservation ==
  stockLock = "free" =>
    stock + SumFunctionOnSet(Units, Reserved)
      = IF seeds = 0 THEN 0 ELSE StartingStock

\* Both commands are answered: "Both publish their own reply event"
\* (service.rs:4).  The two calls take the two locks in opposite orders.
EveryCommandIsAnswered ==
  \A o \in Orders : /\ o \in toReserve ~> <<"reserve", o>> \in answered
                    /\ o \in toRelease ~> <<"release", o>> \in answered
=============================================================================
