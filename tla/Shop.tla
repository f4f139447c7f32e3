-------------------------------- MODULE Shop --------------------------------
(***************************************************************************)
(* What the shops of src/event-driven and src/bff have in common: users,   *)
(* products, orders for lines of products, and sums in cents.              *)
(*                                                                         *)
(* A sum is a u64 of Width bits and nothing checks it (service.rs place):  *)
(* it wraps in a release build and panics in a debug build, which drops    *)
(* the request.                                                            *)
(***************************************************************************)
EXTENDS Naturals, SequencesExt, FiniteSetsExt, TLC

CONSTANTS Users, Products,
          Width             \* bits of a sum in cents

ASSUME ShopAssumption == Width \in Nat \ {0}

VARIABLE build              \* how the services were compiled

Builds == {"debug", "release"}

Line == [product : Products, quantity : Nat]

Modulus == 2^Width
Panics(n) == build = "debug" /\ n >= Modulus

\* A power of two is a positive number.
ASSUME ModulusAssumption == Modulus \in Nat \ {0}

\* What the lines come to at these prices, with no bound.
Exactly(lines, units) ==
  SumFunctionOnSet([i \in DOMAIN units |-> units[i] * lines[i].quantity], DOMAIN units)
=============================================================================
