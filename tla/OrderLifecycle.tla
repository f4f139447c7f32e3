--------------------------- MODULE OrderLifecycle ---------------------------
(***************************************************************************)
(* What src/cqrs-es promises of an order: it is placed once, paid for when *)
(* it is placed, shipped when it is paid for, and cancelled before it is   *)
(* shipped.  A step changes one order.                                     *)
(***************************************************************************)
CONSTANT Orders
VARIABLE status

Statuses == {"Placed", "Paid", "Shipped", "Cancelled"}

\* The statuses from which a command may take an order to s.
Before(s) == CASE s = "Placed"    -> {"none"}
               [] s = "Paid"      -> {"Placed"}
               [] s = "Shipped"   -> {"Paid"}
               [] s = "Cancelled" -> {"Placed", "Paid"}

Init == status = [o \in Orders |-> "none"]

Become(o, s) == /\ status[o] \in Before(s)
                /\ status' = [status EXCEPT ![o] = s]

Next == \E o \in Orders, s \in Statuses : Become(o, s)

Spec == Init /\ [][Next]_status
=============================================================================
