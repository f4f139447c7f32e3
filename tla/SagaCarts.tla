----------------------------- MODULE SagaCarts -----------------------------
(***************************************************************************)
(* Order lines, and what orders-service and inventory-service make of      *)
(* them: the abstraction from a vector of lines to the carts of SagaOrders *)
(* and SagaInventory.                                                      *)
(***************************************************************************)
EXTENDS Integers, Sequences, SequencesExt

CONSTANTS Products,
          Price,            \* [Products -> cents], as the read model has it
          CentsWord         \* 2^64 in the code: total_cents is u64

Line(p, n) == [product |-> p, quantity |-> n]

QuantitiesOf(p, lines) ==
  [i \in DOMAIN lines |-> IF lines[i].product = p THEN lines[i].quantity ELSE 0]

\* The largest quantity any one line asks of p, and the sum over the lines.
LargestLine(p, lines) == FoldSeq(LAMBDA q, m : IF q > m THEN q ELSE m, 0, QuantitiesOf(p, lines))
TotalUnits(p, lines)  == FoldSeq(LAMBDA q, n : q + n, 0, QuantitiesOf(p, lines))

\* service.rs place: total_cents += unit_price_cents * quantity, in u64.
TotalCents(lines) ==
  FoldSeq(LAMBDA l, cents : (cents + Price[l.product] * l.quantity) % CentsWord, 0, lines)

CartOf(lines) == [largest |-> [p \in Products |-> LargestLine(p, lines)],
                  total   |-> [p \in Products |-> TotalUnits(p, lines)],
                  cents   |-> TotalCents(lines)]
============================================================================
