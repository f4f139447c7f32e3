------------------------------- MODULE MCSaga -------------------------------
(* Instances of Saga for TLC.  Cents are in hundreds: a mug is 13, a wallet 20. *)
EXTENDS Saga

CONSTANTS mug, pen

MugPrice == [p \in Products |-> IF p = mug THEN 13 ELSE 4]

Cart == INSTANCE SagaCarts WITH Price <- MugPrice, CentsWord <- 256

\* The demo paths of the lab's README: one mug is affordable, three are not
\* (and two orders for three contend), six are more than the seed.
MugCarts == {Cart!CartOf(<<Cart!Line(mug, n)>>) : n \in {1, 3, 6}}

\* Carts over two products, one of them on two lines of its own order.
MixedCarts == {Cart!CartOf(<<Cart!Line(mug, 1), Cart!Line(pen, 1)>>),
               Cart!CartOf(<<Cart!Line(pen, 3), Cart!Line(pen, 3)>>),
               Cart!CartOf(<<Cart!Line(pen, 3)>>)}

NoSubjects == {}
AllSagaSubjects == SagaSubjects
ButReserve == SagaSubjects \ {"ReserveStockRequested"}
=============================================================================
