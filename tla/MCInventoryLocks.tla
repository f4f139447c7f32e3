-------------------------- MODULE MCInventoryLocks --------------------------
(* Three orders: two that fit the five units together, one that only fits   *)
(* when another is released.                                                *)
EXTENDS InventoryLocks, TLC

CONSTANTS small, medium, large

UnitsAsked == small :> 1 @@ medium :> 2 @@ large :> 4
=============================================================================
