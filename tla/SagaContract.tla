---------------------------- MODULE SagaContract ----------------------------
(***************************************************************************)
(* What the saga promises of an order, without messages, ledgers or        *)
(* services: a distributed transaction in which stock is taken before      *)
(* money, money is never given back, and an order closes either with both  *)
(* or with neither.  Each resource is taken at most once per order.        *)
(***************************************************************************)
EXTENDS Naturals

CONSTANT Orders

VARIABLES phase,            \* [Orders -> Absent, Open, Confirmed or Failed]
          holding,          \* the orders whose units are out of stock
          paid,             \* the orders whose price is out of a wallet
          everHeld          \* the orders that have held stock before

vars == <<phase, holding, paid, everHeld>>

Init == /\ phase = [o \in Orders |-> "Absent"]
        /\ holding = {} /\ paid = {} /\ everHeld = {}

Accept(o) == /\ phase[o] = "Absent"
             /\ phase' = [phase EXCEPT ![o] = "Open"]
             /\ UNCHANGED <<holding, paid, everHeld>>

Hold(o) == /\ phase[o] = "Open"
           /\ o \notin everHeld
           /\ holding' = holding \cup {o}
           /\ everHeld' = everHeld \cup {o}
           /\ UNCHANGED <<phase, paid>>

Pay(o) == /\ phase[o] = "Open"
          /\ o \in holding \ paid
          /\ paid' = paid \cup {o}
          /\ UNCHANGED <<phase, holding, everHeld>>

GiveBack(o) == /\ phase[o] = "Open"
               /\ o \in holding \ paid
               /\ holding' = holding \ {o}
               /\ UNCHANGED <<phase, paid, everHeld>>

Confirm(o) == /\ phase[o] = "Open"
              /\ o \in holding \cap paid
              /\ phase' = [phase EXCEPT ![o] = "Confirmed"]
              /\ UNCHANGED <<holding, paid, everHeld>>

Fail(o) == /\ phase[o] = "Open"
           /\ o \notin holding \cup paid
           /\ phase' = [phase EXCEPT ![o] = "Failed"]
           /\ UNCHANGED <<holding, paid, everHeld>>

Next == \E o \in Orders : \/ Accept(o) \/ Hold(o) \/ Pay(o)
                          \/ GiveBack(o) \/ Confirm(o) \/ Fail(o)

Spec == Init /\ [][Next]_vars
============================================================================
