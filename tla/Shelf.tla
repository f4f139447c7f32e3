------------------------------- MODULE Shelf -------------------------------
(***************************************************************************)
(* What the services of the concurrency lab promise of a product's stock,  *)
(* without requests, locks or versions: units leave the shelf when they    *)
(* are handed out, all at once, and only while there are enough.           *)
(***************************************************************************)
EXTENDS Naturals

CONSTANTS Products, SeedAmounts

VARIABLES units,            \* [Products -> Nat], on the shelf
          sold,             \* [Products -> Nat], handed out since the last seed
          seeded            \* [Products -> Nat], what the last seed put there

vars == <<units, sold, seeded>>

Init == /\ units = [p \in Products |-> 0]
        /\ sold = [p \in Products |-> 0]
        /\ seeded = [p \in Products |-> 0]

Fill(p, n) == /\ units' = [units EXCEPT ![p] = n]
              /\ seeded' = [seeded EXCEPT ![p] = n]
              /\ sold' = [sold EXCEPT ![p] = 0]

Take(p, n) == /\ units' = [units EXCEPT ![p] = @ - n]
              /\ sold' = [sold EXCEPT ![p] = @ + n]
              /\ UNCHANGED seeded

Next == \E p \in Products : \/ \E n \in SeedAmounts : Fill(p, n)
                            \/ \E n \in 1..units[p] : Take(p, n)

Spec == Init /\ [][Next]_vars
============================================================================
