------------------------------- MODULE MCRace -------------------------------
(* Eight requests: three competitors for one product, one of which names    *)
(* version 1, two seeds and a read of it, and a seed and a reservation of   *)
(* another product.                                                         *)
EXTENDS Race, TLC

CONSTANTS mug, pen, fill, refill, other, a, b, c, d, look

Post(kind, product, units) == [kind |-> kind, product |-> product, units |-> units]

Asked == fill :> Post("seed", mug, 3) @@ refill :> Post("seed", mug, 5)
         @@ other :> Post("seed", pen, 3)
         @@ a :> Post("reserve", mug, 2) @@ b :> Post("reserve", mug, 1)
         @@ c :> Post("reserve", mug, 2) @@ d :> Post("reserve", pen, 1)
         @@ look :> Post("get", mug, 1)
Asks == [r \in Requests |-> Asked[r]]
Sent == [t \in Targets |-> IF t = "actor" THEN 4 ELSE IF t = "pessimistic" THEN 5 ELSE 7]
Pins == [r \in Requests |-> IF r = c THEN {1} ELSE {}]
=============================================================================
