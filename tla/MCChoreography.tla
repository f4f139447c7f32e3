--------------------------- MODULE MCChoreography ---------------------------
(* Instances of Choreography for TLC.  Cents are in hundreds.               *)
EXTENDS Choreography

CONSTANT mug

Cart == INSTANCE SagaCarts WITH Price <- [p \in Products |-> 13], CentsWord <- 256

\* One mug is affordable, three are not, and two orders for three are more than
\* the seed.
MugCarts == {Cart!CartOf(<<Cart!Line(mug, n)>>) : n \in {1, 3}}
=============================================================================
