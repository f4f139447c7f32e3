------------------------ MODULE InventoryLocksProofs ------------------------
(***************************************************************************)
(* Proofs about InventoryLocks, for any orders, units and repeats.         *)
(*                                                                         *)
(* The locks are dropped at the end of the functions that take them, so    *)
(* who holds one follows from where the two tasks are.  What the stock     *)
(* lock hides is one reservation: the units are off the shelf and not in   *)
(* the ledger yet.  Counting them where they are, the books balance in     *)
(* every state.                                                            *)
(***************************************************************************)
EXTENDS InventoryLocks, Sums

Outcomes == {"None", "Reserved", "Failed"}
Positions(steps) == {Idle} \cup {At(step, o) : step \in steps, o \in Orders}
Reserving == Positions({"read", "stock", "insertReserved", "insertFailed"})
Releasing == Positions({"ledger", "stock"})

LocksTypeOK ==
  /\ stock \in Nat /\ seeds \in Nat
  /\ reservations \in [Orders -> Outcomes]
  /\ reserving \in Reserving /\ releasing \in Releasing
  /\ toReserve \subseteq Orders /\ toRelease \subseteq Orders

\* Who holds which lock, and what he knows of the ledger while he does.
Guards ==
  /\ stockLock = "free" <=> reserving.at \notin {"insertReserved", "insertFailed"}
  /\ ledgerLock = "free" <=> releasing.at # "stock"
  /\ reserving.at \in {"stock", "insertReserved", "insertFailed"}
       => reservations[reserving.order] = "None"
  /\ releasing.at = "stock" => reservations[releasing.order] = "Reserved"

\* The units taken off the shelf for the reservation being made.
InHand == IF reserving.at = "insertReserved" THEN Units[reserving.order] ELSE 0

Balance == stock + SumFunctionOnSet(Units, Reserved) + InHand
             = IF seeds = 0 THEN 0 ELSE StartingStock

Inv == LocksTypeOK /\ Guards /\ IsFiniteSet(Reserved) /\ Balance

USE LocksAssumption

\* All a proof needs to know of a task's position.
LEMMA Fields == /\ Idle.at = "idle"
                /\ \A step, o : At(step, o).at = step /\ At(step, o).order = o
BY DEF Idle, At

LEMMA PositionsOf ==
  /\ Idle \in Reserving /\ Idle \in Releasing
  /\ \A o \in Orders : /\ At("read", o) \in Reserving /\ At("stock", o) \in Reserving
                        /\ At("insertReserved", o) \in Reserving
                        /\ At("insertFailed", o) \in Reserving
                        /\ At("ledger", o) \in Releasing /\ At("stock", o) \in Releasing
  /\ \A t \in Reserving : t.at = "idle" \/ t.order \in Orders
  /\ \A t \in Releasing : t.at = "idle" \/ t.order \in Orders
BY Fields DEF Reserving, Releasing, Positions

-----------------------------------------------------------------------------
(* Initially, and what the two tasks' steps do to the ledger *)

LEMMA InitInv == Init => Inv
<1> SUFFICES ASSUME Init PROVE Inv
  OBVIOUS
<1>1. Reserved = {}
  BY DEF Init, Reserved
<1>2. SumFunctionOnSet(Units, Reserved) = 0 /\ IsFiniteSet(Reserved)
  BY <1>1, SumEmpty, FS_EmptySet
<1>3. LocksTypeOK
  BY PositionsOf DEF Init, LocksTypeOK, Outcomes
<1>4. Guards
  BY Fields DEF Init, Guards
<1>5. InHand = 0
  BY Fields DEF Init, InHand
<1>6. Balance
  BY <1>2, <1>5 DEF Init, Balance
<1> QED
  BY <1>2, <1>3, <1>4, <1>6 DEF Inv

LEMMA UnitsAreNat == \A o \in Orders : Units[o] \in Nat /\ Units[o] # 0
OBVIOUS

LEMMA Quantities == ASSUME Inv
                    PROVE  /\ stock \in Nat /\ InHand \in Nat
                           /\ SumFunctionOnSet(Units, Reserved) \in Nat
<1>1. IsFiniteSet(Reserved) /\ Reserved \subseteq Orders /\ stock \in Nat
  BY DEF Inv, LocksTypeOK, Reserved
<1>2. SumFunctionOnSet(Units, Reserved) \in Nat
  BY <1>1, SumNat
<1>3. InHand \in Nat
  BY Fields, PositionsOf, UnitsAreNat DEF Inv, LocksTypeOK, InHand
<1> QED
  BY <1>1, <1>2, <1>3

\* A reservation written, and one removed.
LEMMA LedgerGains ==
  ASSUME Inv, NEW o \in Orders, reservations[o] = "None",
         reservations' = [reservations EXCEPT ![o] = "Reserved"]
  PROVE  /\ IsFiniteSet(Reserved')
         /\ SumFunctionOnSet(Units, Reserved') = SumFunctionOnSet(Units, Reserved) + Units[o]
<1>1. Reserved' = Reserved \cup {o} /\ o \notin Reserved /\ Reserved \subseteq Orders
  BY DEF Inv, LocksTypeOK, Reserved
<1>2. IsFiniteSet(Reserved)
  BY DEF Inv
<1>3. SumFunctionOnSet(Units, Reserved \cup {o}) = Units[o] + SumFunctionOnSet(Units, Reserved)
  BY <1>1, <1>2, SumAdd
<1>4. SumFunctionOnSet(Units, Reserved) \in Nat /\ Units[o] \in Nat
  BY Quantities
<1> QED
  BY <1>1, <1>2, <1>3, <1>4, FS_AddElement

LEMMA LedgerLoses ==
  ASSUME Inv, NEW o \in Orders, reservations[o] = "Reserved",
         reservations' = [reservations EXCEPT ![o] = "None"]
  PROVE  /\ IsFiniteSet(Reserved')
         /\ SumFunctionOnSet(Units, Reserved) = SumFunctionOnSet(Units, Reserved') + Units[o]
         /\ SumFunctionOnSet(Units, Reserved') \in Nat
<1>1. Reserved' = Reserved \ {o} /\ o \in Reserved /\ Reserved \subseteq Orders
  BY DEF Inv, LocksTypeOK, Reserved
<1>2. IsFiniteSet(Reserved) /\ IsFiniteSet(Reserved \ {o})
  BY <1>1, FS_Subset DEF Inv
<1>3. SumFunctionOnSet(Units, Reserved) = Units[o] + SumFunctionOnSet(Units, Reserved \ {o})
  BY <1>1, <1>2, SumRemove
<1>4. SumFunctionOnSet(Units, Reserved \ {o}) \in Nat /\ Units[o] \in Nat
  BY <1>1, <1>2, SumNat
<1> QED
  BY <1>1, <1>2, <1>3, <1>4

-----------------------------------------------------------------------------
(* One lemma per conjunct of Inv that steps can disturb *)

LEMMA NextType == Inv /\ [Next]_vars => LocksTypeOK'
<1> SUFFICES ASSUME Inv, [Next]_vars PROVE LocksTypeOK'
  OBVIOUS
<1> USE PositionsOf DEF Inv, LocksTypeOK, data, locks, Outcomes
<1>1. CASE Seed
  BY <1>1 DEF Seed
<1>2. ASSUME NEW o \in Orders, AskRelease(o) \/ Repeat(o) PROVE LocksTypeOK'
  BY <1>2 DEF AskRelease, Repeat
<1>3. ASSUME NEW o \in Orders, TakeReserve(o) \/ ReadLedger(o) PROVE LocksTypeOK'
  BY <1>3 DEF TakeReserve, ReadLedger
<1>4. ASSUME NEW o \in Orders, CheckStock(o) PROVE LocksTypeOK'
  BY <1>4, UnitsAreNat DEF CheckStock
<1>5. ASSUME NEW o \in Orders, NEW outcome \in {"Reserved", "Failed"}, InsertOutcome(o, outcome)
      PROVE  LocksTypeOK'
  BY <1>5 DEF InsertOutcome
<1>6. ASSUME NEW o \in Orders, TakeRelease(o) \/ LookUp(o) PROVE LocksTypeOK'
  BY <1>6 DEF TakeRelease, LookUp
<1>7. ASSUME NEW o \in Orders, PutBack(o) PROVE LocksTypeOK'
  BY <1>7, UnitsAreNat DEF PutBack
<1>8. CASE UNCHANGED vars
  BY <1>8 DEF vars
<1> QED
  BY <1>1, <1>2, <1>3, <1>4, <1>5, <1>6, <1>7, <1>8 DEF Next, ReserveTask, ReleaseTask

LEMMA NextGuards == Inv /\ [Next]_vars => Guards'
<1> SUFFICES ASSUME Inv, [Next]_vars PROVE Guards'
  OBVIOUS
<1> USE Fields DEF Inv, LocksTypeOK, Guards, data, locks, Outcomes
<1>1. CASE Seed
  BY <1>1 DEF Seed
<1>2. ASSUME NEW o \in Orders, AskRelease(o) \/ Repeat(o) PROVE Guards'
  BY <1>2 DEF AskRelease, Repeat
<1>3. ASSUME NEW o \in Orders, TakeReserve(o) \/ ReadLedger(o) PROVE Guards'
  BY <1>3 DEF TakeReserve, ReadLedger
<1>4. ASSUME NEW o \in Orders, CheckStock(o) PROVE Guards'
  BY <1>4 DEF CheckStock
<1>5. ASSUME NEW o \in Orders, NEW outcome \in {"Reserved", "Failed"}, InsertOutcome(o, outcome)
      PROVE  Guards'
  BY <1>5 DEF InsertOutcome
<1>6. ASSUME NEW o \in Orders, TakeRelease(o) \/ LookUp(o) PROVE Guards'
  BY <1>6 DEF TakeRelease, LookUp
<1>7. ASSUME NEW o \in Orders, PutBack(o) PROVE Guards'
  BY <1>7 DEF PutBack
<1>8. CASE UNCHANGED vars
  BY <1>8 DEF vars
<1> QED
  BY <1>1, <1>2, <1>3, <1>4, <1>5, <1>6, <1>7, <1>8 DEF Next, ReserveTask, ReleaseTask

\* Whatever touches neither the shelf nor the ledger nor what is in hand.
LEMMA NothingMoves ==
  ASSUME Inv, UNCHANGED <<data, seeds>>, InHand' = InHand
  PROVE  IsFiniteSet(Reserved') /\ Balance'
BY DEF Inv, Balance, Reserved, data

LEMMA NextBalance ==
  ASSUME MaxSeeds <= 1, Inv, [Next]_vars
  PROVE  IsFiniteSet(Reserved') /\ Balance'
<1> DEFINE sum == SumFunctionOnSet(Units, Reserved)
<1>1. /\ stock \in Nat /\ InHand \in Nat /\ sum \in Nat /\ seeds \in Nat
      /\ stock + sum + InHand = IF seeds = 0 THEN 0 ELSE StartingStock
  BY Quantities DEF Inv, LocksTypeOK, Balance
<1>2. CASE Seed
  <2>1. seeds = 0 /\ seeds' = 1 /\ stock' = StartingStock
        /\ reservations' = reservations /\ reserving' = reserving
    BY <1>1, <1>2 DEF Seed
  <2>2. sum = 0 /\ InHand = 0
    BY <1>1, <2>1
  <2>3. InHand' = InHand /\ Reserved' = Reserved
    BY <2>1 DEF InHand, Reserved
  <2> QED
    BY <2>1, <2>2, <2>3 DEF Balance, Inv
<1>3. ASSUME NEW o \in Orders, AskRelease(o) \/ Repeat(o) \/ TakeRelease(o) \/ LookUp(o)
      PROVE  IsFiniteSet(Reserved') /\ Balance'
  <2>1. UNCHANGED <<data, seeds, reserving>>
    BY <1>3 DEF AskRelease, Repeat, TakeRelease, LookUp
  <2> QED
    BY <2>1, NothingMoves DEF InHand
<1>4. ASSUME NEW o \in Orders, TakeReserve(o) \/ ReadLedger(o)
      PROVE  IsFiniteSet(Reserved') /\ Balance'
  <2>1. UNCHANGED <<data, seeds>> /\ InHand = 0 /\ InHand' = 0
    BY <1>4, Fields DEF TakeReserve, ReadLedger, InHand
  <2> QED
    BY <2>1, NothingMoves
<1>5. ASSUME NEW o \in Orders, CheckStock(o) PROVE IsFiniteSet(Reserved') /\ Balance'
  <2>1. InHand = 0 /\ seeds' = seeds /\ reservations' = reservations
    BY <1>5, Fields DEF CheckStock, InHand
  <2>2. stock' + sum + InHand' = stock + sum
    <3>1. CASE stock >= Units[o] /\ stock' = stock - Units[o] /\ reserving' = At("insertReserved", o)
      <4>1. InHand' = Units[o]
        BY <3>1, Fields DEF InHand
      <4>2. Units[o] \in Nat
        BY UnitsAreNat
      <4> QED
        BY <1>1, <3>1, <4>1, <4>2
    <3>2. CASE stock' = stock /\ reserving' = At("insertFailed", o)
      <4>1. InHand' = 0
        BY <3>2, Fields DEF InHand
      <4> QED
        BY <1>1, <3>2, <4>1
    <3> QED
      BY <1>5, <3>1, <3>2 DEF CheckStock
  <2>3. Reserved' = Reserved
    BY <2>1 DEF Reserved
  <2> QED
    BY <1>1, <2>1, <2>2, <2>3 DEF Balance, Inv
<1>6. ASSUME NEW o \in Orders, NEW outcome \in {"Reserved", "Failed"}, InsertOutcome(o, outcome)
      PROVE  IsFiniteSet(Reserved') /\ Balance'
  <2>1. reservations[o] = "None" /\ stock' = stock /\ seeds' = seeds /\ InHand' = 0
        /\ reservations' = [reservations EXCEPT ![o] = outcome]
    BY <1>6, Fields DEF InsertOutcome, Inv, Guards, InHand
  <2>2. CASE outcome = "Reserved"
    <3>1. InHand = Units[o]
      BY <1>6, <2>2, Fields DEF InsertOutcome, InHand
    <3>2. IsFiniteSet(Reserved') /\ SumFunctionOnSet(Units, Reserved') = sum + Units[o]
      BY <2>1, <2>2, LedgerGains
    <3>3. stock + (sum + Units[o]) + 0 = stock + sum + Units[o]
      BY <1>1, <3>1
    <3> QED
      BY <1>1, <2>1, <3>1, <3>2, <3>3 DEF Balance
  <2>3. CASE outcome = "Failed"
    <3>1. InHand = 0
      BY <1>6, <2>3, Fields DEF InsertOutcome, InHand
    <3>2. Reserved' = Reserved
      BY <2>1, <2>3 DEF Reserved, Inv, LocksTypeOK
    <3> QED
      BY <1>1, <2>1, <3>1, <3>2 DEF Balance, Inv
  <2> QED
    BY <2>2, <2>3
<1>7. ASSUME NEW o \in Orders, PutBack(o) PROVE IsFiniteSet(Reserved') /\ Balance'
  <2>1. reservations[o] = "Reserved" /\ stock' = stock + Units[o] /\ seeds' = seeds
        /\ reservations' = [reservations EXCEPT ![o] = "None"]
    BY <1>7, Fields DEF PutBack, Inv, Guards
  <2>2. InHand' = InHand
    BY <1>7, Fields DEF PutBack, InHand
  <2>3. /\ IsFiniteSet(Reserved')
        /\ sum = SumFunctionOnSet(Units, Reserved') + Units[o]
        /\ SumFunctionOnSet(Units, Reserved') \in Nat
    BY <2>1, LedgerLoses
  <2>4. Units[o] \in Nat
    BY UnitsAreNat
  <2>5. stock' + SumFunctionOnSet(Units, Reserved') + InHand' = stock + sum + InHand
    BY <1>1, <2>1, <2>2, <2>3, <2>4
  <2> QED
    BY <1>1, <2>1, <2>3, <2>5 DEF Balance
<1>8. CASE UNCHANGED vars
  <2>1. UNCHANGED <<data, seeds, reserving>>
    BY <1>8 DEF vars
  <2> QED
    BY <2>1, NothingMoves DEF InHand
<1> QED
  BY <1>2, <1>3, <1>4, <1>5, <1>6, <1>7, <1>8 DEF Next, ReserveTask, ReleaseTask

-----------------------------------------------------------------------------
(* The theorems *)

THEOREM Invariance == ASSUME MaxSeeds <= 1 PROVE Spec => []Inv
<1>1. Inv /\ [Next]_vars => Inv'
  BY NextType, NextGuards, NextBalance DEF Inv
<1> QED
  BY <1>1, InitInv, PTL DEF Spec

\* Whoever finds the stock lock free finds the shelf and the ledger in
\* agreement, for any orders, any number of commands delivered again, and any
\* interleaving of the two tasks with the seeder, provided the product is
\* seeded once.  (A second seeding overwrites what is left of a sold product.)
THEOREM ReservationsAreWhole == ASSUME MaxSeeds <= 1 PROVE Spec => []NoPartialReservation
<1>1. ASSUME Inv PROVE NoPartialReservation
  <2> SUFFICES ASSUME stockLock = "free"
               PROVE  stock + SumFunctionOnSet(Units, Reserved)
                        = IF seeds = 0 THEN 0 ELSE StartingStock
    BY DEF NoPartialReservation
  <2>1. InHand = 0
    BY <1>1, Fields DEF Inv, Guards, InHand
  <2>2. stock \in Nat /\ SumFunctionOnSet(Units, Reserved) \in Nat
    BY <1>1, Quantities
  <2> QED
    BY <1>1, <2>1, <2>2 DEF Inv, Balance
<1> QED
  BY <1>1, Invariance, PTL
=============================================================================
